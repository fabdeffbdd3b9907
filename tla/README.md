# Formal models of memory-storage

This directory holds TLA+ models of the Go library in `src/`. It also holds
the TLC configurations that check the models on small instances and the
TLAPS proofs of the models' invariants for every value of their constants.

## The system

The library is a set of independent in-memory stores and an sdk over Badger.

| Part | Source | Module |
|---|---|---|
| BTreeIndexedStorage: append-only slots indexed by a B-tree, tombstones, background compaction | `src/unnamed/part_000` | `BTreeIndexedStorage`, abstract `AppendLogKV` |
| SimpleFastStorage: a Go map of positions into an append-only slice | `src/simple_fast_storage.go` | `SimpleFastStorage`, abstract `AppendLogKV` |
| ByteKeyBTree v2, the TTL tree: B-tree of Items with an expiration in Unix seconds | `src/unnamed/part_010` (lines 397-765) | `TtlBTree` |
| roaringBitmapStorage with the in-memory replicator, behind the `MemorySetStorage` contract | `src/roaring_bitmap.go`, `src/bitmap_fake_replicator.go`, `src/contract.go` | `BitmapStorage` |
| sdk transaction Manager: Badger transactions, conflict retries, backoff | `src/sdk/transaction_manager.go` (second version, lines 146-312) | `TransactionManager`, abstract `TxContract` |
| sdk backup schedule: full and incremental backups, the persisted `since` | `src/sdk/backup.go` | `BackupSchedule` |
| sdk Store lifecycle: the GC and monitoring goroutines Open starts and Close stops | `src/sdk/gc.go` | `StoreLifecycle` |

The stores do not call each other. Inside a component, the actors are:
- BTreeIndexedStorage: client goroutines, and the compaction goroutines
  that `Delete` starts;
- TTL tree and SimpleFastStorage: client goroutines only;
- bitmap store: client goroutines and the replication goroutine that
  `MustWarmer` starts, which go through the replicator;
- sdk Store: the caller, the GC goroutine and the monitoring goroutine;
- backup schedule: its timer goroutine and the process, which may restart.

## What is modelled

### `AppendLogKV` — what BTreeIndexedStorage promises

This is a keyed map. `Add(k, v)` stores `v` only if `k` is absent
(`// Add добавляет value, если ключа ещё нет`). `Delete(k)` removes `k`.
`CompactIncremental` changes nothing a caller can observe. The variable
`lastCall` records the method that ran last and its key. It keeps the
refinement honest: a compaction that loses a key cannot pass for a `Delete`.

### `BTreeIndexedStorage` — the store as the code implements it

| Code | Model |
|---|---|
| `tree` | `index \in [Keys -> Nat \cup {NoEntry}]`: each key's `pos`, or `NoEntry` when the tree holds no entry |
| `storage` | `storage`, a sequence over `Vals \cup {Nil}`; slot `pos` is `storage[pos + 1]` |
| `tombstones` | `tombstones` |
| goroutines started by `Delete` and not yet inside `s.mu.Lock()` | `pending` |
| `threshold` (float) | `ThresholdNum / ThresholdDen`; `float64(t)/float64(n) > threshold` becomes `t * Den > Num * n` (`OverThreshold`) |
| `batchSize` | `BatchSize` (`<= 0` means the scan is never cut short, as `s.batchSize > 0 && ...` does) |
| `[8]byte` keys with `bytes.Compare` | naturals with `<`: the same total order |

Every public method holds `s.mu` for its whole body, so each one is a single
atomic step. `Add` and `Delete` each have their early-return branch as a
disjunct. `Delete` increments `pending` when the ratio after the increment
exceeds the threshold. The compaction appears twice:
- `CompactIncremental`, called directly by a client;
- `BackgroundCompact`, a pending goroutine that takes the lock.

Both share the body `Compact`, which is built as follows:
- `Visited` is the first `batchSize` keys in ascending order, or all of them;
- `Kept` is the visited keys whose slot is not nil;
- the new storage holds the kept values in key order;
- the new tree maps each kept key to its rank in `Kept`;
- `tombstones` is set to 0.

The code installs the new storage and tree in both branches of
`if count < s.batchSize || ...`, and the model does the same.

`Get` and `Length` are operators; they change nothing.

### Bounds of BTreeIndexedStorage

`MaxSlots` bounds `len(storage)`: `Add` is disabled at the bound. `MaxPending`
bounds the number of queued compaction goroutines: a `Delete` that would
start one more is disabled at the bound. Both are named constants. They
appear in the guards only, and the proofs hold for every value of them.

### `SimpleFastStorage`

`set` is `[Keys -> Nat \cup {NoEntry}]`, `storage` a sequence of values, and
positions are 0-based as in the code. `Add` holds the write lock for its
whole body and is one action: a key with no entry gets `len(storage)`, then
the value is appended; a present key changes nothing. `Get` only reads and
is an operator. `kvBar`, what `Get` answers for each key, maps the store
onto `AppendLogKV`.

### `TtlBTree`

The tree is `[Keys -> expiration \cup {Absent}]`: a record is abstracted to
its key and its expiration in whole seconds, and values play no part in
what the tree decides. Keys are naturals ordered as `bytes.Compare` orders
byte slices. `EmptyKey` is the empty key that every method skips. The
methods are modelled as follows:
- `UpsertAt`, `UpsertManyAt`, `Delete`, `DeleteMany` and `Reset` hold
  `b.mu` once and are one step each. The loops of `UpsertManyAt` and
  `DeleteMany` are recursive functions over the slice, so duplicates and
  empty keys count as in the code.
- `PurgeExpiredAt` is two steps. `PurgeScan` is the Ascend under RLock,
  which stops once `maxToDelete > 0` items are collected. `PurgeDelete`
  deletes the collected keys under Lock and counts the records it removed.
  Between the two, the client holds `pending` and `cutoff`.
- `Has`, `GetLastWriteUnix`, `Size` and `ListExpiredAt` are operators.
- `last` records each step's method and result, so that properties can
  relate a result to the change of state.

### `BitmapStorage`

The bitmap is a set of ids; `ver` counts the writes to it. The replicator's
entry for the replication key is `dump`: the set and the version it was
taken at. Each critical section is one step, so a method made of several is
several steps with a `pc`:
- `Warm` = `isEmpty` (RLock); the callback, without the lock; `UpsertMany`;
- `Replicate` = `GetBytesFromBitmap` (RLock); store the bytes (`r.mu`);
- `Recover` = read the dump (`r.mu`); `Clear`; `ReadFromBuffer`.

`GetBytesFromBitmap` returns nil for an empty bitmap, and the fake
replicator refuses nil. The background goroutine replicates at each tick
until its context is cancelled.

### `TransactionManager`

One caller runs one of the four `Execute*` methods. Badger is abstracted to
the outcome of each call:
- the action succeeds, fails or panics;
- a Commit succeeds, conflicts or fails otherwise;
- the context may be cancelled at any moment.

The retry loop of `ExecuteReadWriteWithContext` has one action per part:
- `LoopStart`: the head, which checks ctx and opens a transaction;
- `RunAction`: the action and the second ctx check;
- `Commit`: the commit and the retry decision;
- `Sleep`: `sleepWithJitter`, with its polling branch for a backoff `<= 0`.

`ExecuteReadOnly` does not recover a panic of its function; the model
turns every failure of the function, a panic included, into an `actionErr`
return, which is exact only for the methods that recover.

`leaked` counts transactions left open. `Backoff` is line 282 in Width-bit
two's-complement arithmetic (`Wrap`, `ShiftLeft1`). The options default as
`NewTransactionManager` does (`Effective`).

### `TxContract` — what the Manager promises a caller

`TxContract` sees only what a caller sees:
- the method it is in, and whether the call is running;
- whether its context was cancelled;
- the commits made and how many of them conflicted;
- the result.

Its actions are:
- `Call(m)`: enter a method;
- `Retry`: a conflicting commit followed by another attempt, only in
  `ExecuteReadWriteWithContext` and only while a commit is left in the
  budget;
- `Return(r)`: the outcome `r` its method can produce, `ctxErr` only after
  a cancel. A commit outcome counts one more commit, within `Budget`: 0 for
  the read-only methods, 1 for `ExecuteReadWrite` and `maxRetries + 1` for
  the loop. `conflict` is returned only when the budget is spent and every
  commit conflicted;
- `Cancel`.

`TransactionManager` instantiates it as `Contract`. A call is running when
`pc` is neither `idle` nor `done`. The steps inside the loop (opening a
transaction, running the action, the end of a sleep) are stutters of the
contract. A retried conflict is its `Retry`.

### `BackupSchedule`

Time counts a unit: a minute is `MinuteLen` units, an hour `HourLen`, a day
`DayHours` hours. A timer fires at its deadline or up to `MaxLate` later.
The database is its versions `1..dbVer`. `Backup(n, from, s0)` writes file
`n` with the versions `>= from` and moves `since` to the last one + 1,
saving it atomically. It may also fail: the file is absent, untouched or
truncated, and `since` keeps its value. The actions are:
- `Start`: `loadSince`, then a full backup when it is 0, then the alignment
  of `nextHour` and `nextDay`;
- `Tick`: the timer loop, with the midnight window
  `t > nextDay - minute && t < nextDay + minute`;
- `Crash`: a restart, which keeps the files and the since file;
- `Write`: a commit to the database.

### `StoreLifecycle`

The goroutines are modelled as follows:
- `runGC` is a `select` with two cases, `GCStop` (stopGC closed) and
  `GCTick`, then `GCRun`, one `RunValueLogGC` of `gcLoop`;
- `runMonitoring` is `MonStop` (ctx done), `MonTick` and `MonStats`;
- `Close` is its two statements, `close(stopGC)` and `db.Close()`;
- `Update` is a Set or Delete that leaves reclaimable garbage.

## Runs

| Run | Module, cfg | Expect | Shows |
|---|---|---|---|
| `btree_store` | `MCBTreeIndexedStorage`, `.cfg` | pass, 6619 states | `TypeOK`; `SlotAccounting`: positions distinct and inside storage, unreferenced slots nil, `tombstones + #live = len(storage)`; `ScheduledWhenOver`; `OverThresholdReclaimed`; `ImplementsAppendLogKV` |
| `btree_batch_truncation` | `_batch.cfg`, batchSize 2 | violation of `ImplementsAppendLogKV` | Add keys 1, 2, 3, then compact: the tree is replaced by the first 2 entries and key 3 is lost (`part_000:126`) |
| `simple_fast_storage` | `SimpleFastStorage`, `MCSimpleFastStorage.cfg`: 3 keys, values `v1`, `v2`, nil | pass, 604 states | `SlotsOwned`: the positions are distinct, inside the slice, and as many as the slots; `ImplementsAppendLogKV` |
| `ttl_tree` | `TtlBTree`, `MCTtlBTree.cfg`: 2 clients, 3 keys and the empty key, slices of up to 2 items, ttl 1 s, maxToDelete 2, 3 seconds | pass, 15649 states | `ReturnsMatchSize`: every count returned equals the change of `Size`, also when another client deletes between a purge's phases; `PurgeCollectsFirstExpired`: the scan collects exactly the `maxToDelete` smallest expired keys, in order |
| `ttl_purge_refresh` | `_refresh.cfg` | violation of `PurgeRemovesOnlyExpired` | c1 collects key 1 (expired at second 0), c2 refreshes it, and c1's delete phase removes the fresh record (`part_010:718`) |
| `bitmap_store` | `BitmapStorage`, `MCBitmapStorage.cfg`: 2 clients with 2 calls each, 2 ids | pass, 62928 states | `TypeOK`; `ReplicaConverges`: once the clients are done, the replica equals any non-empty bitmap unless the context was cancelled |
| `bitmap_replica_rollback` | `_rollback.cfg` | violation of `ReplicaNeverRollsBack`: the replica never changes to the set of an older bitmap | c1 copies `{1}`; c2 adds 2 and copies `{1, 2}`; c2's copy is stored first and c1's `{1}` overwrites it while the bitmap holds `{1, 2}` (`bitmap_fake_replicator.go:35`). A write counter alone would also flag a copy of the same set taken at an earlier write, so the property compares contents. |
| `tx_manager` | `TransactionManager`, `MCTransactionManager.cfg`: the defaults, ms units, 16-bit durations | pass, 120 states | `TypeOK`; `NoTransactionLeak`; `ConflictOnlyAfterAllRetries`; `CallReturns` (liveness); `ImplementsTxContract` |
| `backup_schedule` | `BackupSchedule`, `MCBackupSchedule.cfg`: minute 2, hour 6, day 2 hours, timers up to 1 unit late, 36 units, 2 writes, 1 restart | pass, 17681 states | `TypeOK`; `NoVersionLost`: every version below `since` and below the since file is in some backup file; `FullBackupEveryDay` |
| `backup_missed_midnight` | `_midnight.cfg`, `MaxLate` 2 | violation of `FullBackupEveryDay` | A midnight wake-up a minute late takes an incremental backup and never moves `nextDay`: no full backup ever again (`backup.go:172`) |
| `backup_name_collision` | `_catchup.cfg`, `MaxLate` 6 | violation of `NoVersionLost` | After a late wake-up the timer fires again in the same hour; the second `os.Create` truncates the first incremental file, whose versions `since` has already passed (`backup.go:140`) |
| `store_lifecycle` | `StoreLifecycle`, `MCStoreLifecycle.cfg`: GC on, 2 reclaimable files | pass, 120 states | `GCStopsAfterClose` (liveness): the GC goroutine ends after `Close` |

The bounds are the smallest that make each interesting case happen:
- a purge that stops early, a batch with a repeated key, and a delete
  between two phases;
- two replications racing, a warm racing an upsert;
- a restart between two backups, a timer late across midnight;
- a conflict retried up to the default five times;
- a GC loop that runs more than once.

Each property of a passing run has a mutant in `PROJECT.json`: a plausible
bug in a mapped definition that TLC then catches under the run's own cfg.

Each module is checked directly, except BTreeIndexedStorage, whose `MC`
module provides the model values. Where a cfg says `CHECK_DEADLOCK FALSE`,
the program really goes idle: clients need not call, the clock stops at
the horizon, or every goroutine has returned.

### Configurations kept beside the runs

TLC finds each of these properties violated too, by what the code does. They
are not among the runs, and `PROJECT.json` lists them in the notes of the
hazards they cover:
- `MCBTreeIndexedStorage_nil.cfg`: `Add(k, nil)` is dropped by the next
  compaction, which takes nil for a tombstone (`part_000:105`).
- `MCBTreeIndexedStorage_flight.cfg`: every delete over the threshold
  queues one more full rebuild (`part_000:81`).
- `MCTransactionManager_overflow.cfg`: `base * (1 << (attempt-1))`
  overflows before the cap at line 282, so `BackoffAsDocumented` fails.
  With the defaults this needs `MaxRetries >= 42`. The property is a
  formula over the constants alone, so no run checks it; with the default
  options neither the wrap-around nor the cap is active.
- `MCBitmapStorage_warm.cfg`: `Warm`'s data lands on a store that stopped
  being empty after its check (`roaring_bitmap.go:111`).
- `MCBitmapStorage_empty.cfg`: an emptied bitmap is never replicated, so a
  `Recover` brings removed ids back (`roaring_bitmap.go:160`).
- `MCStoreLifecycle_monitoring.cfg`: `runMonitoring` outlives `Close` when
  its ctx is never cancelled (`gc.go:219`).
- `MCStoreLifecycle_gcclose.cfg`: a `RunValueLogGC` may run after
  `db.Close()` (`gc.go:227`).

## Fairness

Each spec assumes only the fairness that the Go runtime gives:
- **Weak fairness for running goroutines.** This covers a compaction
  goroutine waiting for the mutex, the replication goroutine, the caller
  inside `Execute*`, and the GC and monitoring loops. Go's mutex hands the
  lock to its longest waiter after 1 ms.
- **Strong fairness for a `select` case that is ready.** `GCStop` and
  `MonStop` are such cases. Go picks uniformly at random among the ready
  cases, so a case ready each time the `select` runs is eventually taken.
- **No fairness for callers.** Nothing obliges clients to call, the owner
  to `Close` or to cancel a context, or the process to keep running.

`OverThresholdReclaimed`, `ReplicaConverges`, `CallReturns` and
`GCStopsAfterClose` rest on these assumptions and on nothing stronger.

The backup schedule and the TTL tree check safety only.

TLC could not evaluate the multiplication of `OverThreshold` inside a
temporal formula. So `OverThresholdReclaimed` tests membership in the
constant set `OverThresholdPairs`, which is the same relation computed over
`0..MaxSlots`.

## Proofs (`BTreeIndexedStorageProofs`, checked by `tlapm`)

The proofs assume only the constant assumptions of `BTreeIndexedStorage`:
- the keys are a finite set of naturals;
- `NoEntry` is distinct from positions and values;
- the threshold is a non-negative fraction;
- the bounds are naturals.

`BatchSize` is any integer, so the truncating configurations are covered.

- `TypeCorrect`: `Spec => []TypeOK`.
- `SlotAccountingHolds`: `Spec => []SlotAccounting`.
- `ScheduledWhenOverHolds`: `Spec => []ScheduledWhenOver`.

`TypeOK` is not inductive on its own: a compaction keeps positions inside
`0..MaxSlots-1` only because the positions it reads are distinct and inside
storage. `SlotAccounting` is not inductive on its own either: it needs the
types. The inductive invariant is therefore `IInv == TypeOK /\
SlotAccounting`, and there is one lemma per action:
- `AddIInv`, `DeleteIInv`: `Add` and `Delete` preserve it;
- `CompactIInv`: the compaction preserves it. Its argument is that ranks in
  a finite set of naturals form a bijection onto `0..n-1` (lemma
  `RankBijection`). So the new positions are distinct and inside the new
  storage, and the new storage has no tombstones.

`NextIInv` combines the action lemmas. `ScheduledWhenOver` is then inductive
relative to `IInv`: `Add` only grows the denominator, `Delete` spawns
exactly when the new ratio is over, and compaction zeroes the count.

`RefinesAppendLogKV` is `ASSUME KeysFitBatch, NoNilValues PROVE Spec =>
ImplementsAppendLogKV`. The refinement mapping is `kvBar`, what `Get`
answers for each key. The two hypotheses are the conditions under which
the code keeps its contract:
- `KeysFitBatch`: `batchSize <= 0` or `batchSize >= |Keys|`, so the
  compaction's `Ascend` visits every live key (`VisitedAll`). The
  `btree_batch_truncation` run breaks this hypothesis, and there TLC finds
  the refinement violated (`part_000:126`).
- `NoNilValues`: callers never `Add` a nil value, so the `v != nil` filter
  of the compaction drops no live key (`KeptAll`).
  `MCBTreeIndexedStorage_nil.cfg` shows the refinement failing without it.

Both hold on `btree_store` (batchSize 3 with three keys, non-nil values),
where TLC checks the same property.

The inductive invariant is `RInv == IInv /\ LiveNonNil`, where
`LiveNonNil` says every live entry points at a slot holding a value.
`LiveNonNil` holds with or without the hypotheses (`NextLive`), and TLC
checked it on `btree_store` before it was proved. The step lemmas are:
- `CompactMoves`: each kept key moves to its rank and keeps its value.
  Every other key leaves the tree. The argument is `RankBijection`, which
  gives `KeyOfRank(Kept, Rank(Kept, k)) = k`.
- `AddNewRefines`: `Add` of an absent key is the abstract `Add`.
- `DeletePresentRefines`: `Delete` of a present key is the abstract
  `Delete`, because positions are distinct (`SlotAccounting`).
- `CompactRefines`: under the hypotheses `Kept = Present`, so a compaction
  (by a caller or by the goroutine) is the abstract `Compact`.
- `NextRefines`: combines these. `Add` of a present key and `Delete` of an
  absent one change no answer, and map to the abstract `Add` and `Delete`.

## Proofs (`SimpleFastStorageProofs`)

The only assumptions are `StorageAssumption`: the keys are a finite set,
and `NoEntry` is neither a position nor a value. The inductive invariant is
`IInv == TypeOK /\ SlotsOwned`. `Add` of an absent key takes position
`len(storage)`, past every position in use, so the old positions keep
indexing the same slots, and `Present` grows by one as the slice does
(`FS_AddElement`).
- `SlotsOwnedHolds`: `Spec => []SlotsOwned`.
- `RefinesAppendLogKV`: `Spec => ImplementsAppendLogKV`, for every set of
  keys and values. Its lemmas are:
  - `InitRefines`: the initial state maps to the abstract initial state.
  - `AddNewRefines`: an `Add` of an absent key is the abstract `Add`. The
    other keys keep their answer because their slots lie inside the old
    storage, which is why the refinement needs `IInv`.
  - `NextRefines`: an `Add` of a present key changes no answer and is the
    abstract `Add` that stores nothing, and a stutter maps to a stutter.

## Proofs (`TransactionManagerProofs`)

The only assumptions are that the options and the defaults are integers,
the defaults positive, and `Width >= 2`. The inductive invariant is `IInv`,
which adds `LoopAccounting` to the properties. `LoopAccounting` is the
bookkeeping of the retry loop:
- inside the loop, every commit so far conflicted, one per completed
  attempt;
- in `Sleep` there is one more commit than attempts, and
  `attempt < maxRetries`;
- a transaction is open only in `run` or `commit`.

Without it, `ConflictOnlyAfterAllRetries` is not inductive. The proof has
one step per action, and under it one step per conjunct. `TypeOK` is split
into labels, counters and flags, because the SMT backend handles the three
sorts best one at a time.
- `NoTransactionLeakHolds`: `Spec => []NoTransactionLeak`.
- `ConflictOnlyAfterAllRetriesHolds`:
  `Spec => []ConflictOnlyAfterAllRetries`.
- `TxTypeCorrect`: `Spec => []TypeOK`.
- `RefinesTxContract`: `Spec => ImplementsTxContract`, with no assumption
  beyond those above. The invariant is `RInv`, which is `IInv` and
  `CallAccounting`: before its loop, a call has made no commit. Without
  `CallAccounting`, the commit of `ExecuteReadWrite` could exceed its
  budget of 1. `InitRefines` shows that the initial state maps to the
  contract's. `NextRefines` shows, with one lemma per action, that each
  step maps:
  - `Call` maps to `Call`;
  - a returning step maps to `Return` of its result;
  - a retried conflict maps to `Retry`;
  - `Cancel` maps to `Cancel`;
  - any other step is a stutter.

  `Commit`'s lemma uses `commits = attempt <= maxRetries` from
  `LoopAccounting`. The mutant that retries every commit error, not only
  `ErrConflict`, breaks the refinement under TLC.

## Proofs (`BitmapStorageProofs`)

The only assumption is `BitmapAssumption`: the background goroutine is not
a client, the warm data are ids, and the call bound is a natural. `TypeOK`
is inductive as it stands. Its one non-trivial conjunct says that `dump`,
and the `buf` a goroutine carries between `Replicate`'s two critical
sections, are `NoDump` or the bytes of a non-empty bitmap. That is the nil
check of `GetBytesFromBitmap`, and `CopyIsDump` and `DumpSet` are the
lemmas about it. There is one lemma per kind of step:
- `ClientCallTypeOK`: the first critical section of each call;
- `ClientStepTypeOK`: the later sections;
- `BgTypeOK`: the replication goroutine and `Cancel`.

- `BitmapTypeCorrect`: `Spec => []TypeOK`.

## Proofs (`BackupScheduleProofs`)

`NoVersionLostHolds` proves `Spec => []NoVersionLost` for every clock and
every bound, under the hypothesis `Timing`:
- a timer is late by less than an hour minus a minute
  (`MaxLate + MinuteLen <= HourLen`);
- the horizon covers the first day, so Start's full file has a name.

The catch-up configuration (`MaxLate = 6`) breaks the first part, and there
TLC finds the invariant violated.

A failed backup truncates its file, so the invariant as it stands is not
inductive. The inductive invariant `IInv` adds three facts:
- `HoursAhead`: no incremental file of an hour after the clock's hour is
  written yet;
- `DaysAhead`: the same for the full files of the days after the clock's
  day;
- `TimerAligned`: while the goroutine runs, `nextHour` is the clock's next
  hour boundary, and `nextDay` is a day boundary that lies ahead, or that
  the timer has passed by an hour (a missed midnight).

The argument has three parts:
- A wake-up lands in the hour of `nextHour`, so its incremental file is
  new.
- Within a minute of midnight it cannot still be in the previous hour, so
  it lands in the day of `nextDay`. Its full file is new too.
- Start's full backup is the one write that may reuse a name. It either
  holds every version, or it fails while `since` and the since file are 0,
  so there is nothing to lose.

`FreshBackup` and `StartFull` are the two lemmas about `stream.Backup`. The
boundary arithmetic, which uses `\div` with a symbolic divisor, is in
`DivBelow`, `DivAbove`, `DivExact` and `DivMono`. `IInv` was first checked
by TLC as an invariant on the `backup_schedule` instance.

- `NoVersionLostHolds`: `ASSUME Timing PROVE Spec => []NoVersionLost`.

`BackupTypeCorrect`: `ASSUME FirstDayFits PROVE Spec => []TypeOK`. Here
`FirstDayFits` is `DayLen <= MaxTime + 1`: `Init` may start the clock
anywhere in the first day, and `TypeOK` bounds the clock by `MaxTime`.
`TypeOK` needs no strengthening, since it is inductive as it stands:
- a backup dumps only committed versions (`LastDumped`), so every file
  holds versions of `1..MaxVersions`, and `since` is at most one past the
  last committed version (lemma `BackupType`);
- `Start` loads a since file that is already in range;
- `Tick` wakes up inside `0..MaxTime`, so the name it writes is one of
  `Names`.

The timer's lateness plays no part: unlike `NoVersionLostHolds`, this theorem
holds on the `catchup` and `midnight` instances too.

## Only model-checked

The following stay with TLC:
- **Liveness and `ENABLED`**, which TLAPS does not reach:
  `OverThresholdReclaimed`, `ReplicaConverges`, `CallReturns`,
  `GCStopsAfterClose`.
- **`FullBackupEveryDay`.** It holds only while no timer is a minute
  late, which the code does nothing to ensure (the midnight run). After
  a missed midnight and a restart, `Start` realigns `nextDay` but the last
  full backup is still old, so the property is not even true "up to the
  first missed midnight". No theorem states it; `backup_schedule` checks
  it where timers are less than a minute late.
- **The properties of `TtlBTree`.** `TtlBTree` computes its loops with
  recursive functions over slices: what they compute for every input is an
  induction over data, which the installed provers cannot do.

## Not modelled

- **The first version of `transaction_manager.go` (lines 1-144).** Its
  loop has the same control as the second version's, with a linear backoff.
- **ByteKeyBTree v1.** Its `PurgeExpiredAt` has the same two phases as v2's,
  so `ttl_purge_refresh` applies to it unchanged.
- **`GetNodeItem`, `ForEach`, and the aliasing of Items.** Handles that are
  passed back to `UpsertAt` need object identity, which the key-and-expiration
  abstraction leaves out.
- **The Redis and stub replicators.** The Redis one would add network
  failures to the protocol of `BitmapStorage`.
- **The Restore functions of the sdk, the codecs, options arithmetic,
  `cmd/inmemory_badger/main.go` (three example programs) and `go.mod`.**
  These are I/O and configuration, with no state for a model checker to
  explore.
