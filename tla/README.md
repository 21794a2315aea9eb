# MatricaRMZ: a TLA+ model of the ledger, of synchronisation and of the stock

MatricaRMZ is the production system of an engine repair plant: a backend
(`backend-api/`, Express over PostgreSQL), a signed, append-only ledger on disk
(`ledger/`), a desktop client with a local SQLite database (`electron-app/`),
a warehouse tablet (`android-app/`), a browser front end (`web-admin/`), a stub
updater and watchdog processes. Every change of business data is signed into the
ledger, projected into PostgreSQL and pulled by the clients. These modules
describe that path, the commands that are retried over it, the stock of the
warehouse and the locks on engines: what the code promises, and where the code
and its comments disagree. Paths below are relative to `src/`.

## 1. The system

| part | state | operations | talks to |
|---|---|---|---|
| Ledger store, `ledger/src/store.ts` | `.ledger.lock`, `blocks/<h>.json`, `index.json`, `state.json`, `checkpoint.json` | `signAndAppend`, `buildCheckpoint`, reads without the lock (`loadIndex`, `listTxsSince`, `queryState`) | used by every backend instance and by maintenance scripts on the same directory |
| Ledger cryptography, `ledger/src/{crypto,types}.ts` | key pair | sign, hash, seal | the store |
| Ledger service, `backend-api/src/ledger/ledgerService.ts` | the store of one process | `signAndAppendDetailed`, `getLedgerLastSeq`, replay into PostgreSQL | write path, pull path |
| Sync write path, `backend-api/src/services/sync/{syncWriteService,applyPushBatch}.ts` | PostgreSQL rows with `last_server_seq` | `writeSyncChanges` = sign, then project in a transaction | ledger service, PostgreSQL |
| Sync read path, `pullChangesSince.ts`, `/state/snapshot` of `routes/ledger.ts` | none | one page above a cursor; a page of one table | PostgreSQL, `getLedgerLastSeq` |
| Ledger transaction index, `ledgerTxIndexService.ts` | `ledger_tx_index` in PostgreSQL | catch up with the ledger | ledger store, PostgreSQL |
| Idempotency, `idempotencyCache.ts`, `commandIdempotencyService.ts` | a cache per process; a table | look up, run, remember | push and warehouse routes |
| Desktop sync, `electron-app/src/main/services/syncService.ts` | SQLite rows with `sync_status`, `lastPulledServerSeq` | push pending rows, pull, cold start, reset | the routes above |
| Desktop warehouse outbox, `warehouseCommandOutboxService.ts`, `erpService.ts` | queue of commands | send directly, queue, drain, give up | warehouse routes |
| Warehouse, `warehouseService.ts`, `workOrderClosingService.ts` | documents, reservations, register, balances, the links of work orders | create, edit, plan, post, cancel, reverse, reserve, release; save, post, delete, close a work order | PostgreSQL and then the ledger |
| Engine reservation, `engineReservation{Service,Guard}.ts`, `engineReservationClient.ts` | one row per engine, a cache per instance, a queue per client | acquire, renew, release, check a push | PostgreSQL and then `recordSyncChanges` |
| Update dispatch and client update | release catalogue, staged installer | offer, download, install, retry | clients |
| Watchdog, stub updater | restart counters | restart a process, replace a binary | the processes they watch |
| Tablet, web front end, renderers, AI agent, reports, masterdata | views and requests | input forms, queries | the backend |

Two backend instances run from one directory behind nginx
(`docs/OPERATIONS.md`, systemd units `primary` and `secondary`), so two
processes append to one ledger, and consecutive requests of a client may reach
different ones.

### What is hard here, and what would be right

- **Ledger store.** A lock file, staleness by age or by a dead pid, removal by
  path, four atomic writes one after another. Right: one writer at a time; an
  acknowledged append is never lost nor renumbered; `state.json` and the
  checkpoint describe the chain they claim to describe; no caller waits for ever.
- **Write path.** Numbers are given by the ledger *before* the PostgreSQL
  transaction runs and commits, and that transaction may fail. Rows are checked
  by one statement and overwritten by another, possibly under another id, and
  may be left out. Right: PostgreSQL is behind the ledger only for a reason one
  can name, and `last_server_seq` does not go back.
- **Read path and cursor.** The tables are read one by one while others commit;
  the page is cut, the cursor is a single number, an empty page moves it to the
  head of the ledger. Right: the cursor never passes a row the client does not have.
- **Client.** Rows are edited while they are being pushed; a conflict resets the
  cursor; the page and the cursor are saved separately. Right: a local edit is
  either pushed or still pending.
- **Idempotency and outbox.** A retry may reach the other instance, or the same
  one while the first call is running; two drains of the queue may run at once.
  Right: one command, one effect, and the outbox says what happened.
- **Warehouse.** A posting is a sequence of statements outside any transaction,
  computed from totals read before; statuses are written without a condition; a
  work order runs several such handlers one after another. Right: balances are
  the sum of the register, a document is posted once, nothing stays reserved.
- **Engine reservation.** A compare-and-set in PostgreSQL and then a second,
  unconditional write of the same row through the ledger; a cache per instance; a
  queue of releases read and written back around a request. Right: one live lock,
  the gate wrong for a bounded time, no release forgotten.

`PROJECT.json` lists these hazards one by one, each at its line, with the
properties that cover it, or the reason none does.

## 2. The modules

| module | what it is |
|---|---|
| `LedgerLog` | abstract: one growing, hash-linked, gaplessly numbered list of blocks, until a live lock holder is evicted |
| `LedgerStore` | `store.ts` with its lock, one action per file-system step, crashes and I/O errors |
| `SyncServer` | `writeSyncChanges`, `applyPushBatch`, `pullChangesSince`, the snapshot, and the cursor a client keeps |
| `ClientSync` | one desktop client's rows and `sync_status` through `runSync`: push, recovery, full pull, export, replay, reset |
| `CommandOutbox` | commands that are retried: the client's direct call, its outbox and drains; the two idempotency layers of two instances |
| `StockDocuments` | the warehouse handlers statement by statement, and the work order flows built from them |
| `EngineReservation` | the lock of an engine: the row, its record in the ledger, the caches of the gate, the clients' release queues |
| `LedgerStoreProofs` | type correctness, mutual exclusion, and why a lock can be lost |
| `LedgerChainProofs` | acknowledged appends survive; `LedgerStore` implements `LedgerLog` |
| `LedgerStateProofs` | `state.json` and the checkpoint describe the chain |
| `SyncServerProofs` | types, what a cursor has passed, the projection and its seqs |
| `ClientSyncProofs` | types, and what `synced` and the cursor may hide, for any limits |
| `CommandOutboxProofs` | all the properties of `CommandOutbox` |
| `StockDocumentsProofs` | all the properties of `StockDocuments`, and lemmas on sums over finite sets |
| `EngineReservationProofs` | all the properties of `EngineReservation` |
| `MC*` | instances for TLC |

The modules meet in the ledger. `LedgerStore` says what an append is;
`SyncServer` takes it as one step (`Sign`) and looks at what comes after it;
`ClientSync` takes the whole server as one step and looks at the client;
`StockDocuments` and `EngineReservation` end their changes with such a signature
(`Publish`, `Sign`), which for the engine is followed by the projection `SyncServer`
models (`CheckStale`, `Apply`); `CommandOutbox` takes a warehouse handler as one
step (`Run`) and looks at how often it is reached.

Operators named "Mutant of X" in a module are plausible slips in X. They are not
part of the specification: replacing X by one makes a property fail, which shows
that the property depends on X (`PROJECT.json`, "mutants").

Many properties have exceptions. Each is something the code really does, found
first as a counterexample, and marked by a history variable (`evicted`,
`diverged`, `late`, `cause`, `apart`, `overwritten`, ...) that no
guard reads. The property then says that this is the *only* way. Section 3 lists them as
weaknesses of the code.

### `LedgerStore`

State and code: `lock` is the lock file (`owner`: who created the file that now
has the path; `written`: pid and time are in it; `aged`: older than
`LOCK_STALE_MS`; `dead`: the pid is gone); `blocks`, `index`, `applied`
and `checkpoint` are the four kinds of files; `pc[p]`, `job[p]` and `draft[p]`
are the call a process executes and its local variables. The call runs
`want` (acquire loop) → `opened` (file created, empty) → `sign` → `write` →
`index` → `state` → (`checkpoint`) → `release`; `steal` lies between the verdict
"stale" and the `unlinkSync`; `abort` is the `finally` after an exception.

- `Open`, `WriteLock`, `WriteLockFails`: `openSync(path, 'wx')` and
  the `writeSync` are two steps; the second goes to the descriptor, so it does
  not show at the path when the file was unlinked in between.
- `Inspect`, `Steal`: `tryStealStaleLock` judges the content it read and
  unlinks whatever has the path afterwards.
- `TimeOut`: only a lock that is present *and not stale* leads to the deadline test.
- `SignTxs`, `WriteBlock`, `SaveIndex`, `SaveState`, `BuildCheckpoint`,
  `ReleaseLock`: each atomic `writeFileSync` + `renameSync` is one step.
- `Fail`, `Crash`, `Restart`: any step may throw or be the last one.

Abstractions. A batch is the interval of seqs it takes; a block's SHA-256 is a
fresh number (collisions are not modelled); `state.json` is the set of block
hashes folded into it. Time is not counted: a lock may become `aged` at any
moment, and for a live holder this is counted as a stall. The model keeps two
ghosts for the properties: `evicted` (a live holder lost its lock) and
`contested` (two processes were at `steal` together). `torn` remembers
blocks that are in the index and were never folded into `state.json`.

### `SyncServer`

State and code: `ledgerSeq` and `newest` stand for the ledger (its counter and
the newest entry of every key; `LedgerStore` models the rest); `pgText` is the
content of each committed row, named by the seq of the write it comes from, and
`pgSeq` its `last_server_seq`, which need not agree; `writer[w]` is one running
`writeSyncChanges`; `cursor`, `replica` and `pull` belong to the client, with the
server's half of a running pull in `pull[c]`. A row has the id its writer gave
it; `KeyOf` is what the database holds unique (the code of a definition, the
entity/attribute pair of a value), `Parent` the definition a value refers to.

- `Sign` numbers a batch and makes it durable before anything happens in
  PostgreSQL. `CheckPack` and `UpsertPack` are the two statements per table,
  `Commit` makes them visible, `Abort` is any error: the entries stay.
- In `CheckPack` a definition gets the id the server has for its code *before*
  the stale check, a value the id of its pair only *after* it (`Match`); a row
  whose parent is missing is dropped (`Placed`), a re-identified value may lose against an
  older `updated_at` (a free choice) and is then dropped without a report;
  a stale row fails the push, or is dropped for a catalogue or under `allowSyncConflicts`.
- `UpsertPack`: a definition conflicts by id, so a code inserted meanwhile is a unique
  error and rolls back; a value conflicts by its pair and goes into whatever row has
  it, while `applyLastServerSeq` goes by the id resolved before: the content
  may change and the seq stay.
- `StartPull` reads the ledger's head, `ScanTable` is one query, `Answer` merges,
  sorts, cuts and computes the cursor (`NextPullCursor`), `ApplyPage` and
  `SaveCursor` are the client's two writes. `StartColdPull`, `QueryTable` and
  `StorePage` are the cold start by snapshots.
- `LosePull` is a broken connection or a stopped client, `ResetReplica` is
  `resetLocalDatabase`.

Abstractions. READ COMMITTED is modelled by what the code relies on: reads see
committed rows and their own, an upsert waits for locks on the row or its key, everything shows at
the commit. The pages inside one table of the cold start are fused. `has_more` only delays the
next page, which the client's timer asks for anyway, and is left out. The effective
cursor uses the ledger's own counter. Ghosts: `late` marks (row, client) pairs for
which a commit landed behind the cursor; `diverged` marks keys whose newest ledger
entry was rolled back, left out (`out`) or overwritten; `saw` is the seq the
stale check looked at.

### `ClientSync`

`SyncServer` looks at the cursor of a client that never edits; `ClientSync` looks
at a client that does, and takes the server in one step.

State and code: `local` are the SQLite rows with `sync_status` and
`last_server_seq`; `cursor` is `lastPulledServerSeq`; `files` are the
`pending-export-*.json` files; `run` holds the phase and the local variables of
the `runSync` under way (`SyncManager.runOnce` lets one run at a time); `stray` are
push requests the client no longer waits for. `log` numbers the edits made
anywhere; a version of a row is the number of its edit.

- `StartRun` → `Snapshot` → `Align`: every run begins with `alignSchemaWithServer`. The
  snapshot of the catalogue (`Catalog`) is asked for and later written over the local rows as
  `synced`, whatever they were, with `last_server_seq` left as it is; `AlignFails` goes on
  without. `fingerprint` is what the client keeps of the snapshot, the set of catalogue rows
  that exist (`Schema`); a push carries it, and the server answers `schema_outdated` when it is
  not its own (`Fits`, `AnswerOutdated`): the client aligns and collects again.
- `Collect` is `collectPending` and the request leaving: unconfirmed rows are
  requeued, errored rows taken back, invalid rows marked, the rest cut to the
  limit, catalogue rows added. `Serve` is the server's answer, with some rows
  refused; `ServeAgain` a retry executed twice; `ServeStray` a request executed
  after the client gave it up. `Acknowledge` is `markAllSynced`.
- `AnswerInvalid`, `AnswerConflict`, `GiveUp`: the recoveries of the push loop,
  each once a run, and the `catch` after which the pull goes on. `PullBroken`: an error of a pull ends the
  run, but that of a recovery's pull is caught there as well and the run goes on to its own pull.
- `Export`, `Clear` with their failures, `Wipe`, `WipeUnsaved`, `Delete`,
  `ResetCursor`: the full pull's preparation, `resetLocalDatabase`, `sync:reset`.
- `Fetch`, `ApplyPulled`, `ApplyPart`, `SaveCursor`, `PullFails`: the pull, whose
  upsert does not look at `sync_status`. `Replay` is `replayPendingExports`.
- `Stop` ends the run at any point. `Edit` and `OtherWrites` happen at any
  moment, with one exception: SQLite calls are synchronous, so no callback
  runs where the code awaits nothing else (phase `bare`: nothing to export).

Abstractions: clocks agree, so the order of versions is the order of
`updated_at`. One page per pull. The server deletes no catalogue row and gives none another id (those
remaps are left out). The alignment when the application starts (`index.ts:439`) is a run that stops after
its alignment; `repairLocalSyncTables` leaves unpushed rows alone and is left out. The thirty minutes of grace before an
unconfirmed row is requeued are a free choice of rows. Id remaps and the guards of
single tables are left out. The ghosts: `reached` (versions the server has stored),
`overrun` (unpushed versions a pulled row was written over), `aligned` (those the catalogue of
the server was written over), `unsaved` (deleted after a failed
export), `hollow` (tables cleared under a cursor that was not zero).

### `CommandOutbox`

State and code: `document` is what a command changes (status, version, the command that
last wrote the lines); `results` is the table `command_idempotency`, `memory[i]`
the `idempotencyCache` of instance i; `request[s]` is a request at the server,
`task[t]` a call running in the client, with the rows a drain still has to send in
`todo`; `outbox` and `queue` are `warehouse_command_outbox`. A command stands for
its idempotency key.

- `Issue` is the user's command. A document command is sent directly and
  without a key; `Fail` queues it. A push has its key from the start.
- `OpenList`, and `Answer` after a direct success, start a drain (`Drain`):
  every list of the warehouse does, whether or not one is running. A row that has
  failed may still be backing off, so any choice of those is due.
- `Send`, `GiveUp`, `Offline` are the attempts of `fetchWithRetry`: a request that
  is given up goes on at the server. `Failed` counts, and makes a dead
  letter at the limit; it and `MarkApplied` do not look at the status of the row.
- `Lookup`, `Run`, `Save`, `Answer`: the key is looked up, the command run, its success
  recorded, outside one transaction. `Allowed` is what the handlers ask: a free
  number, a draft, the `expectedUpdatedAt` of a cancellation.
- `Quit` closes the client, `Restart` stops an instance with its requests and memory.

Abstractions: a document write is one step (`StockDocuments` has the statements);
back-off times are free; the expiry of keys is a restart that forgets them. Ghosts: `runs`
counts effects per key, with and without it; `cause` names what went wrong:
`raced` (two requests of a key past the lookup), `unsaved` (stopped between run and
record), `elsewhere` and `forgotten` (a push retried at the other or a restarted
instance), `shared` (two drains had a row), `overtaken` (an edit ran while an
older one was still to come).

### `StockDocuments`

State and code: `doc` are the headers (status and two marks kept in
`payload_json`: that stock is reserved, and `reversedByDocumentId`), `rows` the reservations, `moved` how
often each line was registered, `stock` the balances with `qty` and `reserved_qty`,
`register` the sum of the movements, `told` the quantity last signed, `order` the status of
a work order and `linkedDocumentId`. `proc[p]` is one request: the part of
the handler it is at and what it has read.

- `PostHeader`, `PostStock`, then per line `PostBalance` and `PostMovement`, then
  `PostDone`, `Tell`, `Publish`: `postWarehouseDocument`, every statement a step,
  the balance set to a total computed from `PostStock`'s read.
- `PlanHeader`/`PlanDone`, `CancelHeader`/`CancelDone`, `EditHeader`/`EditDone`,
  `Create`, `ReverseHeader` ... `ReverseDone`, `ReserveHeader`/`ReserveDone`,
  `ReleaseHeader`/`ReleaseDone`: each handler's reads and its write. A write is
  one statement or one transaction as in the code; status writes have no condition.
- `Load` reads the work order and chooses the first handler of a flow
  (`saveDraft`, `postOrder`, `deleteDraft`, `closeOrder`); `After` is what each flow calls next;
  `Link`, `Close`, `Unlink` write the operation row read at the start.
- `Die` is an instance or a statement that fails anywhere.

Abstractions: one nomenclature position; an edit rewrites the same lines;
`expectedUpdatedAt`, always optional, refuses only at the first read; numbered
engine instances, `planned_incoming`, the journal and the movement hash chain are left
out. `ReverseStock` reads the movements without an order, so a reversal whose total suffices
may still be refused on the way to it. A line that comes back to a place the document has been at
writes the final total of the place a second time: between the two, the balance is ahead of
the movements (`Half`). Ghosts: `late` and `stale` in a request say that the header or a balance it has read was
written since; `cause` keeps `raced` (a write by a request with an outdated
header), `lost` (a balance set from an outdated read), `torn` (stopped between
balance and movement, or between movements and status), `untold` (stopped
before, or overtaken in, signing), `direct` (an order's document handled outside its order).

### `EngineReservation`

State and code: `row` is the row of `attribute_values` (the lock, `updated_at`,
`last_server_seq`), `defined` whether the attribute has a definition, `ledger` the row's newest entry,
`request[s]` a request with its place in the handler. `cache[i]` is the `liveCache` of an
instance and `defs[i]` its `cachedDefIds` where that is the empty list (with the definition in it, it is as
good as read); `gate` is a check that waits for the database. `call` is what a client waits for,
`queue` its `EngineReservationPendingRelease`, `flush` the flush under way with what it has still to
send and could not, `now` the server's clock.

- `Ask`, `Answer`, `GiveUp`: the card's calls. A release that fails is queued and shown as done
  (`Postpone`, `Queued`: each engine once, the last `Cap`). The further attempts of a
  DELETE in `httpAuthed` are left to the flushes.
- `Flush` reads the queue once, `FlushThis` and `FlushOther` send its releases one after the other,
  `FlushEnd` writes back what could not be sent, whatever the queue has become.
  `PostponeOther` is a release of another engine that did not get through.
- `LookUp`, `Define`: the first request of all creates the definition; who comes second there fails.
- `Decide` is the read and the rules (`DecideAcquire`, `DecideRelease`),
  `CompareAndSet` the update on the `updated_at` it saw, `Raced` the one retry.
- `Sign`, `CheckStale`, `Apply`: the change recorded through the sync write path:
  the entry, the stale check (which may answer 500 after the lock has
  changed), and the upsert that writes the row a second time. `Finish` invalidates the cache of
  this instance.
- The gate of a push, where the lock is not cached: `GateBlind` takes "no lock" from an empty list of
  definitions that is still cached; `GateList` reads the list and finds none, as a reading for
  a card does; `GateRead` reads the row. `GateFill` fills the caches afterwards, with the time of
  before the read. `Tick` is time, `Restart` an instance.

Abstractions. All of this is per engine but for the list of definitions and the queue, so one engine is
modelled (`This`), and of the others (`Other`) the queue; the server's answer to their
releases is any. One check of the gate is under way at a time, and one flush per client (a second one
reads the same queue or what the first wrote back, and sends the same releases again). The row the
client puts into its own replica is left out; who released and when matters only to texts. Ghosts:
`granted` (until when a user was given the lock), `overwritten` (a projection over a later change),
`apart` (a change not recorded, or out of order), `promise` (what became of a release the user was
told of: `kept`, queued during a flush and so `overlapped`, or `crowded` out by other engines),
and in a cache entry `outdated`, `own`, `excused`, `blind`.

## 3. The runs

| run | question | bounds | answer |
|---|---|---|---|
| `ledger` | lock, files, abstract log, end of waiting | 2 processes, 2 batches of 2 transactions, 2 faults, 1 stall, checkpoint every 2 blocks, checkpoint calls from outside | holds, 362,793 states |
| `ledger_duplicate_seq` | "two processes can't … emit duplicate seqs" | 1 fault, no stall | violated |
| `server` | what the cursor may skip, what PostgreSQL may miss | 2 writers, each with its own ids for one definition and one value of it, one of them conflict-skipping, 1 client, page of 1, 4 seqs | holds, 1,408,324 states |
| `server_liveness` | the replica reaches the server | the same four rows from one writer, 3 seqs, 1 lost pull or reset | holds, 82,738 states |
| `server_jump` | "the jump does not pass a row written during the scan" | 2 writers of one definition and one value the client may not see | violated |
| `client` | what `sync_status` and the cursor may hide, which edits survive, does the client settle | a catalogue row the server may refuse and a row that refers to it, 2 edits, 2 faults, 9 seqs, push limit 2, 2 export files | holds, 1,450,820 states |
| `client_clear` | "the clear must never destroy unpushed work" | the same | violated |
| `client_requeue` | "the server's LWW guards protect" others' edits from a second push | the same, without a catalogue | violated |
| `commands` | what a retry runs twice, what the outbox says, which edit wins | 2 of 5 commands (2 edits, a cancellation, a creation, a push), 2 calls in the client, 2 instances, 2 requests at a time, 3 faults | holds, 1,429,499 states |
| `warehouse` | balances, register, reservations, statuses, the ledger | 3 requests, 2 at a time, 1 cut short; a receipt, a transfer, an assembly order with 2 possible documents that name each place twice; 2 places | holds, 1,085,007 states |
| `warehouse_stranded` | "cancelled → a new document is created", "can save again" | 3 requests, one after the other, none cut short | violated |
| `engine_reservation` | when a lock is in force, known and forgotten | a worker and an administrator, 2 instances, 2 requests at a time, a queue of 2, 2 other engines; 2 calls with a push past the cache or a fault, 1 call with 2 such pushes and a fault, 1 call with 2 releases of other engines and 2 faults | holds, 1,549,845 states |

Why these bounds reach the interesting cases.

- *Ledger*: two processes are the real number of instances; two waiters, one of
  them a restarted one, already race for a dead holder's lock; with two batches a second
  append reads what a torn first one left; two faults allow a crash in the lock and
  one in the append; one stall lets a live holder be robbed. `CheckpointEvery` = 2
  makes one of the two appends build a checkpoint and the other not.
- *Server*: two tables give the scan an order, two rows in one table with a page
  of one give a cut, two writers overlap in every way. Two ids under one key are what re-identification,
  the unique error and the lost seq need; four seqs let both writers write a definition and its
  value, or one row be written twice around another. Losses are in the liveness run, where they matter.
- *Client*: two edits are enough for one client to overwrite, or be overwritten by,
  the other, and for one row to change under the push of its older version; a full pull
  counts as a fault, so two faults are, for instance, a full pull whose conflict recovery
  fails. The sequence space of 9 leaves room for every push two faults can repeat.
  Rows that fail the schema (`BadRows`) are left out of the run, and with two faults and two
  files no file is dropped, so `unsaved` is a failed export there. `QuietEditsSurvive`
  was first stated without the rest of that exception and the run did not object; the proof did.
  With one file kept and a push limit of one TLC agrees with the safety properties as well; `Settles` fails
  there, because a catalogue row the server refuses takes the only place for ever.
- *Commands*: the code's limits of 3 and 5 attempts and 8 failures are scaled to 2, so that
  a retry, giving up and a dead letter all happen within three faults. Two
  commands give one to overtake the other, two calls give two drains with one row.
- *Warehouse*: three requests are a flow that fails, its repetition and a disturbance, or save,
  delete, save again. The transfer and the order take from one store (2 pieces, 1 and 2
  needed), so they compete; the hall has no balance row yet, which is where
  two postings meet as inserts. The order's documents come back to a place they have
  been at: with every place named once, as the run had it at first, `StockMatchesRegister` held
  in a form that was wrong for such documents, and only its proof failed.
- *Reservation*: the lock the worker has at the start runs out at the end of the run's time,
  so it can be renewed, released, expire, or be taken by the other. 12 h, 6 h and 10 s
  are scaled to 2 ticks each, in 3 ticks of time: enough for an empty list of definitions to
  be taken over in its last tick and outlive the change by more than one lifetime. Fifty engines in the queue are
  scaled to 2, which two other engines overflow. The four budgets are alternatives, because
  all at once are beyond TLC's time; each has the steps of one kind of hazard together.

`CHECK_DEADLOCK FALSE` is given where all requests are made and answered and the
bounded users ask for nothing more. `MaxEdits`, `MaxSigned`, `MaxFaults`, `MaxStalls`, `MaxSeq`,
`MaxLosses`, `MaxIssued`, `MaxRequests`, `MaxDeaths`, `MaxTime` and
`Budgets` are bounds of the model, not of the program.

### Properties

`LedgerStore`:

- `MutualExclusion`: crashes, restarts, left-over empty lock files and time-outs
  alone never let two operations overlap.
- `EvictionNeedsCause`: a live holder loses its lock only by working longer than
  `LOCK_STALE_MS`, or when two waiters were stealing at the same time.
- `AckedInChain`: what a caller was told is in the chain.
- `StateMatchesChain`, `CheckpointMatchesChain`: the two derived files describe
  the chain, but for blocks torn by a crash between `index.json` and `state.json`
  (nothing folds those in later: `state.json` lacks them for good).
- `ImplementsLog`: all of it is a refinement of `LedgerLog`.
- `WaitEnds`: under fairness every caller leaves the acquire loop, where a stale lock can be removed.

`SyncServer`:

- `NoSilentMiss`: a row the cursor has passed is in the replica, unless its last
  change was committed behind the cursor (`late`), the one exception.
- `ProjectionFollowsLedger`: PostgreSQL shows the newest entry of every key, unless the push
  still runs, failed after signing, left the row out, or overwrote a newer one.
- `StaleOnlyInWindow`: a stored seq goes back only where the stale check saw
  another one: in the window before the upsert, or for a value written into a row it never looked at.
- `Convergence`: the replica reaches the server's rows and stays there.

`ClientSync`:

- `NoSilentDivergence`: a row that looks in step and is not lies above the
  cursor, so the next pull brings it. One exception (`hollow`): `AnswerConflict` in a
  full pull saves its cursor before the tables are cleared; when the run
  breaks off after that, the next pull starts above the rows that were cleared.
- `SyncedMeansReceived`: `synced` means the server has had this version. One exception:
  an edit made during a run, since `markAllSynced` goes by id.
- `QuietEditsSurvive`: an edit made between two runs is lost only to a row written over it, pulled
  (`overrun`) or of the server's catalogue (`aligned`), or to an export that failed,
  left it out or dropped its file (`unsaved`).
- `Settles`: after the last edit and fault the client reaches the server's rows.

`CommandOutbox`:

- `AppliedMeansDone`: a row says applied only of a command that took effect.
- `RefusalMeansUndone`: a refusal shown to the user is true, with three exceptions.
- `KeyRunsOnce`: a key is run once; a second run needs an overlap, a stop between run and
  record, or, for a push, another or a restarted instance.
- `NewestEditWins`: the lines are those of the newest edit that took effect,
  unless it overtook an older one that was still to come.
- `AppliedStays`: an applied row stays so, unless two drains had it.

`StockDocuments`:

- `StockMatchesRegister`: a balance is the sum of its movements.
- `PostedOnce`, `ReversedOnce`: a line is registered, a document reversed, once.
- `ReservedMatchesRows`: `reserved_qty` is what the active reservations hold.
- `ReservationHasOwner`: an active reservation belongs to a document that still
  leads to its end.
- `StatusMatchesRegister`: posted means every line moved, anything else means none.
- `ClosedMeansConsumed`: the parts of a closed order have left the stock and are not reserved.
- `OneDocumentPerOrder`: no exception; the unique number sees to it.
- `LedgerTellsStock`: the last quantity signed is the balance.

`EngineReservation`:

- `GrantStands`: a lock given to a user is in force until it expires or is released.
- `LockIsRecorded`: the newest ledger entry is the lock the server decides by.
- `GateFresh`: the gate is wrong for less than `CACHE_TTL_MS` after the change it missed, or
  twice that where it took the change from an empty list of definitions; and about a change its own instance
  has answered only when it was reading then, had that list cached, or recording failed.
- `ReleaseKept`: a release the user was told of is in the queue until the server
  has decided one, unless it was queued during a flush or crowded out.

### Findings

Each is a run in which TLC violates what a comment says.

1. `ledger/src/store.ts:193` against `:288-289`. Two waiters that find a dead
   holder's lock stale both unlink; the second removes the lock the first has
   just created. Both append, both are acknowledged with the same seqs
   (`ledger_duplicate_seq`). Comparing the content again before the unlink narrows the
   window; renaming the stale file to a private name and checking it there closes it.
2. `pullChangesSince.ts:144` against `:134-135`. A seq is given before the row's
   commit, so a row with a lower seq may appear after its table was read, and the
   jump to the head passes it (`server_jump`). The page maximum passes such
   a row just as well: that is the exception `late` in `NoSilentMiss`.
3. `syncService.ts:3673` against `:3655-3656`. The export of a full pull collects
   the rows and then writes a file; what is saved in the meantime is cleared
   without being in the file (`client_clear`). Clearing only the exported ids,
   or rows that are `synced`, would close it.
4. `syncService.ts:1067` against `:1042-1043`. The server compares seqs only, and
   stamps every push with a fresh one, so a requeued row rolls back a newer edit of
   another client (`client_requeue`).
5. `workOrderClosingService.ts:1029` against `:949` and `:1168-1169`. A work order whose document was
   cancelled, or whose draft was deleted, is to get a new document when it is saved again. The
   new document has the number of the order, `docNo` is unique, and the cancelled document keeps
   it: the save is refused, and so is every later one (`warehouse_stranded`; `StrandedOrder` and
   its theorem `Stranding` say that nothing ever gets an order out of this). A suffix, as
   `docNoTaken` makes one for reversals, would do.

### Weaknesses named by the exceptions

The properties hold with their exceptions, and without one of them TLC shows the
trace. What the code does there, by module:

- *LedgerStore*. When the unlink of a stale lock fails (a foreign owner's file, a read-only
  directory), `tryStealStaleLock` swallows the error and the loop of `store.ts:161` goes on without looking at its
  deadline, although the time-out is "bounded so a genuinely wedged lock surfaces as an error instead
  of an infinite hang" (`:43`). The runs have processes that can remove a stale lock; with
  `NoUnlink <- MCSticky` TLC violates `WaitEnds`.
- *SyncServer*. When two pushes insert one pair at the same time, the second
  upsert goes into the first one's row and `applyLastServerSeq` finds no row with the id it
  has: the content changes and `last_server_seq` does not, so no client past it
  pulls the change. A value re-identified by its pair was not looked at by the
  stale check and may move a seq back. A value dropped for an older `updated_at` is not
  among the skipped rows the caller learns of.
- *ClientSync*. The alignment (`syncService.ts:892-899`, `:927-940`) marks a catalogue row `synced` without
  asking whether it is pending: an entity type or attribute definition edited since the last run is lost
  before anything is collected, unless the server does not have the row yet. A row the alignment creates has no
  `last_server_seq`, so it counts as unconfirmed and is later sent back, with the content of
  that time. It also re-creates the catalogue before the pull asks whether
  it is missing, so the self-heal that starts the pull from zero (`:3678-3727`) mostly finds nothing to do.
- *CommandOutbox*. `httpAuthed` makes three attempts by default, and the creation
  of a document is one of the "non-idempotent mutations" its comment
  (`httpClient.ts:47-48`) wants to be given one: the repeated creation is told that its number
  is taken, is queued, and ends as a dead letter although the document is there.
  An edit that failed is queued without the version its user saw, and is drained after
  the newer edit that went directly, over it. Two drains with one row may
  take an applied row back to pending or to a dead letter.
- *StockDocuments*. Statuses are written without a condition, and totals come
  from an earlier read: overlapping requests lose a balance change, post or
  reverse twice, or write `reserved_qty` and the reversal mark back to what they
  were. A posting that stops half way and is repeated moves its first lines
  twice. A document of a kind that is not planned can be posted after it was
  cancelled. A cancellation outside its order leaves the reservation behind. The ledger is
  told after the status is set; when the request stops there, a repeated posting does
  nothing and nobody tells it. Saving an assembly draft again releases its reservation first and then
  always fails: its lines cannot be deleted while a reservation, active or past, refers to them
  (migration `0078`, no cascade). A first save that failed after
  the creation strands its order as finding 5 has it.
- *EngineReservation*. A change is written once by its compare-and-set and once more by
  its projection, without a condition: a projection that comes late puts back
  an earlier lock, and two users have been given it. `routes/engines.ts:26-27`
  says that the compare-and-set rules the race out. A stale check that fails after the
  compare-and-set answers 500 with the lock changed, not recorded, and the instance's
  own cache not invalidated. `engineReservationGuard.ts:91-94` says that a second process may lag by 10 s. An empty list of
  definitions (`:26-50`) is cached for as long and nothing invalidates it: until the attribute has been
  defined for that time the lag may be nearly 20 s, and in the process that answered the change as well. The
  flush writes back the queue it had read: a release queued meanwhile, of this engine or another, is lost; of more
  than fifty queued the oldest are. A queued release also frees a lock the same user has taken again since.

### Fairness

`LedgerStore`: weak fairness of `Step(p)` (the store's code is synchronous: a
call that started runs on until it returns, throws or its process dies) and of
`Age` (time passes). Nothing says that a caller gets the lock, only that it
gets an answer. Faults, restarts and new calls have no fairness.
`SyncServer`: weak fairness of `Push(w)` (a request runs to its end) and of
`Pull(c)` (`SyncManager`'s timer). No fairness for losses, so the client must
recover from every one that happens.
`ClientSync`: weak fairness of `RunStep` (the timer starts runs for ever and a run
goes on, its requests being answered or timing out) and of `Delete`. No fairness for
edits, faults, full pulls or stray requests.

The other three modules have safety properties only. Nothing in the code makes their
queues move by itself: the outbox is drained when a list is opened or a command
succeeds directly, the release queue is flushed after a sync, and a warehouse request that was
cut short is not taken up by anybody. A liveness property would need a
fairness of the user.

## 4. What is proved

All safety properties the runs check, for every value of the constants. The assumptions
on the constants are types and finiteness, and these:

- `SyncAssumption`: rows with one key are in one table, and a row's table comes after that of the row it
  refers to, which is the order `applyPushBatch` writes the tables in; a page holds at least one row.
- `ClientAssumption`: the push limit and the number of export files kept are not zero.
- `OutboxAssumption`: what is not a push targets a document.
- `StockAssumption`: `Doc` and `Proc` are finite, so that what is reserved and what is owed can be
  summed. No assumption on the lines: any number, any places, any quantities, zero included.
- `LedgerAssumption`, `ReservationAssumption`: types and non-emptiness.

| theorem | module | statement |
|---|---|---|
| `TypeCorrect` | `LedgerStoreProofs` | `Spec => []TypeOK` |
| `Exclusion` | `LedgerStoreProofs` | `Spec => []MutualExclusion` |
| `EvictionsExplained` | `LedgerStoreProofs` | `Spec => []EvictionNeedsCause` |
| `AcknowledgedAppendsSurvive` | `LedgerChainProofs` | `Spec => []AckedInChain` |
| `LedgerImplementsLog` | `LedgerChainProofs` | `Spec => ImplementsLog` |
| `StateFollowsChain` | `LedgerStateProofs` | `Spec => []StateMatchesChain` |
| `CheckpointsDescribeChain` | `LedgerStateProofs` | `Spec => []CheckpointMatchesChain` |
| `TypeCorrect` | `SyncServerProofs` | `Spec => []TypeOK` |
| `NothingMissed` | `SyncServerProofs` | `Spec => []NoSilentMiss` |
| `StaleWindow` | `SyncServerProofs` | `Spec => StaleOnlyInWindow` |
| `ProjectionSound` | `SyncServerProofs` | `Spec => []ProjectionFollowsLedger` |
| `TypeCorrect` | `ClientSyncProofs` | `Spec => []TypeOK` |
| `DivergenceIsAhead` | `ClientSyncProofs` | `Spec => []NoSilentDivergence` |
| `SyncedIsReceived` | `ClientSyncProofs` | `Spec => []SyncedMeansReceived` |
| `QuietEditsLive` | `ClientSyncProofs` | `Spec => []QuietEditsSurvive` |
| `TypeCorrect` | `CommandOutboxProofs` | `Spec => []TypeOK` |
| `AppliedIsDone` | `CommandOutboxProofs` | `Spec => []AppliedMeansDone` |
| `AppliedRowsStay` | `CommandOutboxProofs` | `Spec => AppliedStays` |
| `RefusedIsUndone` | `CommandOutboxProofs` | `Spec => []RefusalMeansUndone` |
| `KeysRunOnce` | `CommandOutboxProofs` | `Spec => []KeyRunsOnce` |
| `NewestWins` | `CommandOutboxProofs` | `Spec => []NewestEditWins` |
| `TypeCorrect` | `StockDocumentsProofs` | `Spec => []TypeOK` |
| `OneDocument` | `StockDocumentsProofs` | `Spec => []OneDocumentPerOrder` |
| `Stranding` | `StockDocumentsProofs` | `Spec => StrandedOrder` |
| `ReversesOnce` | `StockDocumentsProofs` | `Spec => []ReversedOnce` |
| `OwnersKept` | `StockDocumentsProofs` | `Spec => []ReservationHasOwner` |
| `PostsOnce` | `StockDocumentsProofs` | `Spec => []PostedOnce` |
| `StatusTells` | `StockDocumentsProofs` | `Spec => []StatusMatchesRegister` |
| `ClosedConsumed` | `StockDocumentsProofs` | `Spec => []ClosedMeansConsumed` |
| `BalanceRegistered` | `StockDocumentsProofs` | `Spec => []StockMatchesRegister` |
| `ReservedRecorded` | `StockDocumentsProofs` | `Spec => []ReservedMatchesRows` |
| `LedgerTold` | `StockDocumentsProofs` | `Spec => []LedgerTellsStock` |
| `TypeCorrect` | `EngineReservationProofs` | `Spec => []TypeOK` |
| `GrantsStand` | `EngineReservationProofs` | `Spec => []GrantStands` |
| `GateStaysFresh` | `EngineReservationProofs` | `Spec => []GateFresh` |
| `LocksRecorded` | `EngineReservationProofs` | `Spec => []LockIsRecorded` |
| `ReleasesKept` | `EngineReservationProofs` | `Spec => []ReleaseKept` |

**The ledger.** The argument goes in layers, each using the ones before.

1. `TypeOK` is inductive.
2. `MutualExclusion` is inductive with `TypeOK`. The key is that a lock has one
   owner: if every process in a critical section holds the lock, there is at most
   one, and each action moves at most that one (`HolderIsUnique`).
3. `EvictionNeedsCause` is not inductive. `Sound` adds that while nobody was
   evicted, no two waiters contested and no holder stalled, at most one process
   is at `steal`, that a process there looks at a lock that is still stale, and
   that a holder's lock is not aged. A stale lock then has no live holder.
4. `AckedInChain` is not inductive: a later write could overwrite a block. `ChainOK`
   adds that the index names the hash and last seq of the top block, that block h
   continues block h-1, that a draft past `write` is the block stored
   at its height, one above the index until `SaveIndex` and equal to it after, and that a
   call about to be acknowledged has its block in the chain.
5. The refinement maps `log` to the blocks 1..`index.height` as a sequence:
   `SaveIndex` is `Commit` and needs `ChainOK` for the link and the
   numbering, an evicting `Steal` or `ReleaseLock` is `Break`, everything else
   stutters because it writes no block at or below the index. After an eviction
   every step is `Havoc`.
6. `StateMatchesChain` and `CheckpointMatchesChain` are not inductive: a draft whose
   hash was in the chain already would be taken back by a torn append. `StateOK` adds that hashes are
   fresh: a draft not yet in the index has one that was signed and is not in the chain; one
   between `index.json` and `state.json` is in the chain, not torn, and in no checkpoint.

**The outbox.** `AppliedMeansDone` needs to know where a success can come from:
`AppliedInv` says that a request about to record or report one, the table, the memory of an instance and
the row all speak of a command that took effect. `KeyRunsOnce` is not inductive: nothing in
it forbids a second request past the lookup. `KeyInv` says of every key without
an excuse that at most one request of it is past the lookup, that such a request still to run
means the key was not run, and that a key that was run is recorded or about to be
(`Remembered`). `Lookup` is the step that matters: when the key is not known and no cause is
noted, there is no other such request and no record anywhere. Both need only the shape of
the requests and rows (`Shape`). The other four go through the client's queue, in layers:

1. `TaskOK` and `WaitInv`: what a call of the client is at, and that the request it waits for is its own.
2. `OutboxInv`: the queue holds exactly the rows with a status, each once (`RowInv`); a command
   belongs to one call, and while a drain holds it its row is pending, unless it is `shared`
   (`HeldInv`). `TypeOK` and `AppliedStays` follow.
3. `RefusalInv`: whatever refused a command, an answer under way or the row, it had been issued
   and is not done, or is pardoned by one of the three exceptions; and what made the refusal true
   stays so (`Hopeless`: the number is taken, the document is no draft, the version has moved on).
   It needs `KeyInv`: otherwise a second request of the key could still run.
4. `QueueInv`: of two edits of a document the older is queued first, and while its row has not
   failed no call sends the newer one from the queue (`Ordered`). `EditInv`: when the newer edit
   has taken effect nothing is left that would run the older (`Over`), unless it was noted as
   overtaken; so the lines are those of the newest. The order of the queue is that of a filtered
   sequence, whose defining recursion is reasoned about by a least counterexample.

**The server.** `Typed` (types, and that a phase reads no table past the last) → `WriteInv`: a
committed row has a seq, and what a transaction has prepared refers to rows as they are shown
(`Numbered`, `Prepared`) → `ServerInv`: every phase of a pull promises something about the rows
below the number the cursor may get. While scanning (`ScanInv`), a row of a table that was read
is in what was found, or is `late`, or a whole page lies below it, which is what makes the
limit per table safe; after the answer (`AnswerInv`, `SaveInv`) the client knows or is brought
every row up to the next cursor; the snapshot promises it per table (`ColdInv`). A commit
either lands above all these numbers or marks the row `late`. `Lowest`, the page cut from a finite set by
seq, is described by lemmas proved with a well-founded minimum. `TraceInv` (`Traced`): every text, seq
and seen seq of a transaction comes from an entry it signed itself with that key, which gives
`StaleOnlyInWindow`. `LedgerInv`: no number of a key exceeds the newest of the key (`Bounded`,
`Dated`), and where PostgreSQL does not show the newest, the key is `diverged` or the newest belongs
to a writer that is not done (`Followed`).

**The desktop client.** `Base` is `TypeOK` and that every version held anywhere (row, request body,
page, file, server) is an edit of that very row; one lemma on steps that only carry versions
around (`Carries`) serves most actions. `NoSilentDivergence` is not inductive: nothing in it ties
the page to the cursor that will be saved with it. `CursorInv` adds that seqs and the cursor are
not beyond the head, that a page under way holds each row up to its `next` as the server has it,
or the row has not changed since the pull began (`Paged`), that a row of a schema snapshot is the
server's or has changed since and is above the cursor (`Snapped`, which is what makes `Align` safe although it
leaves the seqs alone), and that a row out of step is above where the
pull started, then above where the cursor goes (`Ahead`). `SyncedInv`: a request's body is what the rows
held or was edited meanwhile (`Carrying`), and what the server took, it has reached (`Received`).
`QuietInv`: at the points where the tables are about to be cleared, every unpushed quiet
edit is received, in a file, or excused (`Cleared`).

**The documents of orders.** `OneDocumentPerOrder` needs `Create` to see every
document of the order, so `OrderInv` adds that requests and links name documents
that exist (`Known`, `Linked`). Most actions neither make documents nor set links to
others than those they know (`Calm`), and one lemma serves them all. `Stranding` follows from
the same invariant: a link is set only by a request that passed `Load` with a link or
`Create` with a free number, and a stranded order has neither.

**Documents, postings and the stock.** Each layer uses those before it.

1. `TypeInv`: tables, links and requests, with which handler a request may be in at which step
   (`Handled`) and that the totals it has planned are not negative. `TypeOK` follows; that no
   balance goes below zero comes from the checks of `PostStock` and `ReverseStock`, however old
   their reads are when the totals are written.
2. `DocInv`: what a request knows of the header it has read (`Knows`) holds of the header
   still, unless the request is `late`; a document nobody raced on has its mark exactly while its
   reservation is active and is reversed at most once (`SoundDoc`); a closed order has a
   posted document without a reservation (`Closed`). This is where `late` earns its name: every write of a
   header marks the other requests that hold it, and their own write then notes `raced`.
3. `PostInv`: the registered lines of a document are a prefix counted by the one posting that
   got so far (`Led`), none, or all of them when it is posted. `PostedOnce`,
   `StatusMatchesRegister` and, with `Closed`, `ClosedMeansConsumed` follow.
4. `StockInv`: what a request has planned for a place it has not been told is stale is the balance plus what it
   is going to add (`PlanInv`); the balance is the register plus what the postings under way have
   written and not yet registered (`QtyInv`, `Owed`); a balance that differs from what was told
   has somebody on the way to sign it (`ToldInv`); `reserved_qty` is the sum over the active
   reservations (`ResInv`). `Owes` is zero where a posting is not `Half`, which gives
   `StockMatchesRegister`.

The sums are `SumFunctionOnSet` of the community modules, a fold over a set by `CHOOSE`. What the proofs need
of it (a sum does not depend on the element taken first, a sum of zeros, a sum with one or several
terms changed, over any finite set) is proved first, by smallest counterexamples among its subsets.

**The engine.** `TypeOK` is inductive. `GrantInv` adds to `GrantStands` what a
decision was based on (`Grounded`): if the row still has the `updated_at` the request saw, then the
lock it is about to write is for a user nobody else's live grant
excludes, or releases the one that is there; a live lock cannot become somebody else's by time.
`GateInv` dates the cache entries (`Dated`): read before they went out of date, or, for one taken from an
empty list of definitions, within a lifetime after, because that list was itself in time; so an entry younger
than the lifetime has been wrong for less than one lifetime, or two. `ReleaseInv` follows a kept promise
through a flush (`PromiseInv`): the release is still to be sent or among what is left, wherever the flush
is, and the one request of the flush is for its own user and keeps no promise once it is decided (`FlushInv`).
`RecordInv` names who will repair the record: when the row is not what the ledger says, a request
is about to sign, or one carries the newest entry to the row (`Carrier`), and it carries the ledger's value.

The strengthened invariants were model-checked as invariants of the instances before they were
proved; those of the stock also with every place named once and with four requests, those of the
outbox with three commands and two faults, as far as TLC got in the time given.

What the proofs changed. `StockMatchesRegister` and what a stop leaves behind
(`TornBy`) spoke only of the line being posted, which is right for documents that name a place
once; `Half` is the general form. `QuietEditsSurvive` named only a failed export; a row
left out of a file by validation or by the push limit, and a file dropped over `Keep`, lose an edit as well.
Both had passed their runs.

Only model-checked, for good: `WaitEnds`, `Convergence` and `Settles`. They are liveness under fairness,
which is beyond the prover. The counterexamples of the findings are TLC's, too.

## 5. What is not modelled, and the plan

- *Signatures, sealing, row encryption*: library calls; a hash is a fresh number.
- *Reads of the ledger without the lock* (`listTxsSince`, `listBlocksSince`): a reader may
  see a block the index does not name yet; what it does with it is idempotent replay.
- *Ledger transaction index*: a copy of the ledger's entries. Rows of the
  synchronised tables are written to it by the pushes; the catch-up only adds
  entries of other tables, and nothing modelled here depends on one it skips.
- *Id remaps, guards of single tables, encrypted fields in the client*; in the server's write path
  the presence heartbeat, system containers, the healing of a lost type, and two further
  pairs that follow the same pattern as the one modelled.
- *Warehouse*: numbered engine instances, planned receipts, the hash chain of
  movements, returns from assembly, forecasts.
- *Updates, watchdog, stub updater*: sequences of probes of files, processes and the network. Their
  states are those of the operating system, and a model would be one of it.
- *Tablet*: runs the desktop sync core through shims; no protocol of its own.
- *User interfaces, reports, analytics, AI, import and masterdata services*: the largest part of the
  repository by lines. They keep no protocol state and enter the modelled
  part only through `writeSyncChanges` and the routes.

What would come next: an abstract account of the stock (a document is posted or not, a balance is
their sum) that `StockDocuments` refines while no request is `late` and none stops, and one of the outbox
(a command has an effect or a true refusal) for `CommandOutbox`, as refinements like that of the ledger. After that the further pairs of the write path, and planned receipts.
