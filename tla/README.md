# TLA+ verification of mini-lsm

mini-lsm is an LSM-tree storage engine written for a course. The repository holds it at
several stages. This project models the last one, the crate `mini-lsm/mini-lsm-mvcc`, which
has memtables, SSTs, levels, compaction, manifest and write-ahead log and adds timestamps,
transactions and serializable validation; and, for what differs (no write lock, no timestamps)
and for the work of its threads, the engine of the first two weeks, the crate
`mini-lsm/mini-lsm`. Paths below are relative to `src/mini-lsm/mini-lsm-mvcc/src/` unless they
start with `src/`.

## 1. Inventory

| Part | State it keeps | Operations | Hard behaviour | What makes it correct |
| --- | --- | --- | --- | --- |
| Commit timestamps and locks (`mvcc.rs`) | latest commit timestamp and reader counts under one mutex, `write_lock`, `commit_lock`, `committed_txns` | `new_txn`, `latest_commit_ts`, `update_commit_ts`, `watermark` | timestamp and reader registration must be one step; two nested locks, three small mutexes | no timestamp is used twice; the watermark never passes an open transaction |
| Watermark (`mvcc/watermark.rs`) | a count for each read timestamp | `add_reader`, `remove_reader`, `watermark` | counts must be exact, or versions are collected under a reader | count of a timestamp = open transactions reading at it |
| Transactions (`mvcc/txn.rs`) | `read_ts`, `local_storage`, `committed`, read and write sets of key hashes | `get`, `scan`, `put`, `delete`, `commit`, `Drop` | validation, publication and garbage collection of the validation table interleave with other transactions | snapshot reads, own writes, first committer wins over what was read |
| Write path (`lsm_storage.rs` `write_batch_inner`, `mem_table.rs`) | memtable (a concurrent skip list), its log | `put`, `delete`, `write_batch`, `try_freeze` | a batch is inserted entry by entry beside readers; the write may fail half way | batches are atomic and appear in timestamp order |
| Reads (`lsm_storage.rs` `get_with_ts`, `scan_with_ts`; `lsm_iterator.rs`, `iterators/`) | a cloned `LsmStorageState` | merge of memtables, L0 and levels | the clone shares its memtable with the writers; SSTs it names may be compacted away | newest version at or below the timestamp |
| Engine state (`lsm_storage.rs` `LsmStorageState`) | memtable, immutable memtables (latest first), L0 (latest first), levels, table map | freeze, flush, installation of a compaction: copy, change, replace under `state_lock` | changes prepared without the lock; compaction runs beside flushes | every version stays reachable, sources keep their age order |
| Compaction (`compact.rs`, `compact/*.rs`) | none of its own | `generate_compaction_task`, `compact`, `apply_compaction_result`, `force_full_compaction` | filtering by the watermark; L0 grows meanwhile; three strategies; replay at recovery | what any reader sees does not change |
| Manifest (`manifest.rs`) | records `NewMemtable`, `Flush`, `Compaction` in a file | `create`, `recover`, `add_record` | records against the state in memory and the files in the directory, around a crash | replay yields the levels in memory |
| Write-ahead log (`wal.rs`) | a buffered file for each memtable | `create`, `put_batch`, `sync`, `recover` | buffered, cached and durable parts differ; torn ends; creation and removal against the manifest | what was synced is recovered |
| open, close, sync (`lsm_storage.rs`) | the directory | `open`, `close`, `sync`, `sync_dir` | every step may be the last one before a crash | open succeeds; promises are kept |
| Background threads (`compact.rs`) | tickers and stop channels | `spawn_flush_thread`, `spawn_compaction_thread` | races with user calls and with close | flush and compaction keep up; close ends |
| SSTs, blocks, bloom filters, keys (`table.rs`, `table/`, `block.rs`, `block/`, `key.rs`) | immutable files | build, open, seek, iterate | prefix compression, u16 widths, binary search, splitting | what was added is found |
| Block cache | immutable blocks | lookup | none while SST ids are unique | |
| First two weeks' engine (`src/mini-lsm/mini-lsm`) | as above without timestamps | as above | writers without a write lock | log and memtable agree |
| Starter crate, command line, compaction simulator, xtask, book, `src/docs` | | | skeletons, drivers and text | |

How they interact. A user thread calls `MiniLsm`, directly or through a `Transaction`. A write
takes `write_lock`, inserts into the memtable of the current state and its log, may freeze
the memtable under `state_lock`, and publishes its timestamp. `commit` wraps this in
`commit_lock` with validation before and recording after. Two threads poll every 50 ms:
one flushes the oldest immutable memtable under `state_lock`, the other picks a compaction,
merges without the lock and installs the result under it. Readers clone an `Arc` of the state
and never block. Everything that must survive goes to the directory: logs, SSTs, manifest.

`PROJECT.json` lists 40 hazards at their lines; the properties below are aimed at them.

## 2. Modules

| Module | What it is |
| --- | --- |
| `SnapshotStore` | abstract: a log of atomic batches; transactions read a prefix and append |
| `MvccTxn` | transactions, locks, write path, versions in memtables and SSTs, freeze, flush, full compaction with the watermark |
| `MCMvccTxn` | hash functions and symmetry for TLC |
| `MvccTxnProofs` | the inductive invariant of `MvccTxn` (types, locks, readers, the validation table); where versions are, and that every read is of a snapshot; serializability, and that `MvccTxn` implements `SnapshotStore` |
| `DurableLog` | abstract: a growing log of batches of which a promised prefix is never lost |
| `MCDurability` | the options and faults of its runs |
| `Durability` | directory, logs, manifest, freeze, flush, compaction, sync, close, crash, open, step by step |
| `DurabilityProofs` | the inductive invariant of `Durability`, for every setting, and its theorems |
| `DurabilityRecoveryProofs` | for settings whose crashes miss the windows: open succeeds, promises are kept, `DurableLog` is implemented |
| `Levels` | L0, levels and tiers under the three compaction controllers; merge, installation, replay |
| `MCLevels` | the batches written in the runs of `Levels` |
| `LevelsProofs` | what a merge keeps preserves reads, what the sequences and folds of `Levels` yield, and the inductive invariant of `Levels` with all its invariants, for every controller |
| `Bloom` | the filter of a table, with integers of the width of a hash |
| `SstFile` | blocks, tables and their file: building, opening, seeking |
| `ReadPath` | one get or scan through all iterators, beside writers |
| `MCReadPath` | the states and requests of the run |
| `BloomProofs` | a filter never denies what it was built from |
| `Week2` | the first two weeks' engine: writers without a lock, readers, forced flushes and full compactions, both threads, close and open |
| `MCWeek2` | the options and amounts of work of the run |
| `Week2StepProofs` | where the threads of `Week2` are and how memory, files and records fit; the steps that leave the tables of the state alone |
| `Week2Proofs` | flush, compaction and open; contents and reads |
| `Week2RestartProofs` | what guards against panics, and what the next open reads |

`MvccTxn` and `Durability` meet at the batch: `MvccTxn` shows that a batch is atomic and appears at its
timestamp however its versions move between memtables and SSTs, and takes persistence as
given; `Durability` shows which batches are where, and takes a batch as one thing. `Levels`
refines what both leave out of compaction: which tables a controller picks, and what dropping
versions of some tables only does to reads of all. `ReadPath` takes the sources of a state as
the others leave them and asks what the iterators make of them, down to the entries of a block.
`Week2` puts calls, threads, close and open of one engine together, with tables as functions from
keys to entries; crashes, other controllers and what lies below a table are the other modules'.

### 2.1 MvccTxn

A client is a thread with at most one transaction. One step is the code between two points
where another thread can interfere; regions under `state_lock` whose only effect on shared
memory is one `*state.write() = ...` are single steps.

| Action | Code |
| --- | --- |
| `NewTxn`, `Drop` | `LsmMvccInner::new_txn`; `Drop for Transaction` (timestamp mutex: one step) |
| `Put`, `Delete`, `GetLocal` | `Transaction::put`, `delete`, `get` answered by `local_storage` |
| `GetStart`, `GetFinish` | `Transaction::get` up to the clone of the state; the merge in `get_with_ts` |
| `Commit`, `Validate`, `Record` | `Transaction::commit`: `committed` set; `commit_lock` and validation; `committed_txns` and its clean-up |
| `WriteBatch` | `write_batch`, `put`, `delete` without serializable mode |
| `StartBatch`, `PutEntry`, `TryFreeze`, `Publish`, `FailWrite` | `write_batch_inner`: `write_lock` and timestamp; one skip-list insertion; `try_freeze`; `update_commit_ts`; an error after the insertion |
| `ForceFreeze`, `Flush` | `force_flush`; `force_flush_next_imm_memtable` |
| `CompactStart`, `CompactMerge`, `CompactInstall` | `force_full_compaction`: clone, merge with the watermark read at its beginning, installation |

`Versions` is what a reader merges, `Visible` what `LsmIterator` makes of it,
`Compacted` what `compact_generate_sst_from_iter` keeps. Key hashes are a constant function
that need not be injective. L0 and L1 are one set of versions here, because reads and the full
compaction merge them all. `log` is a history variable: the batch published at each timestamp.

Abstracted: a byte string is a member of `Key` or `Value`, a size is a number of entries, a
key range or bloom filter that lets a read skip a table without the key is left to `ReadPath`, a
compaction filter is left out, and a `Transaction` is used by one thread.

### 2.2 Durability

`state_lock` is held from the first to the last step of a freeze, a flush or an installation,
so `lock` is a record of the position its holder has reached (`freeze.created`,
`flush.wal_removed`, ...), and a crash may come at any position. A batch is its timestamp; a
memtable with its log, and an SST, are sets of batches.

Three views of a log say what outlives what: `data` (appended: in the memtable and perhaps only
in the `BufWriter`), `written` (reached the system: outlives the process) and `synced` (on the
disk: outlives the machine). Two views of the directory do the same for names: `files` and
`durable`. The manifest is what replaying its records yields, because records are only
appended and each append is synced; `ok` is FALSE once replay would hit an assertion.

`Crash("kill")` leaves every name and, of each log, what was written or a longer prefix.
`Crash("power")` undoes any subset of the directory changes since the last `sync_dir` and
leaves of each log what was synced or a longer prefix.

| Action | Code |
| --- | --- |
| `Write`, `Publish`, `Sync` | `write_batch_inner`; `sync` |
| `FreezeCreate` … `FreezeSyncDir` | `try_freeze`, `force_freeze_memtable`, `freeze_memtable_with_memtable`: new log, new state, old log synced, `NewMemtable`, directory synced |
| `FlushBuild` … `FlushSyncDir` | `force_flush_next_imm_memtable`: SST written, new state, log removed, `Flush`, directory synced |
| `CompactStart` … `CompactRemove` | `trigger_compaction` with the simple controller and one level: clone, output written, new state, directory synced, `Compaction`, inputs removed |
| `Close`, `CloseEnd` | `MiniLsm::close` with and without logs |
| `OpenFresh`, `OpenManifest`, `OpenRecover`, `OpenRecord`, `OpenSyncDir` | `LsmStorageInner::open` on an empty and on a used directory |

`Recoverable` says whether open gets through and `Recovered` what it then loads.

Abstracted: every batch writes a key of its own, so no compaction drops one (what it may drop
is `MvccTxn`'s question); a compaction has one output file; the options are the same at every
open; nothing is written after close; an append to the manifest is not cut short; a write or
sync that returns an I/O error is left out here.

### 2.3 Levels

One flush brings one batch, as one table, to L0 or to a tier of its own; a table is a set of
versions, and its size is their number (for the leveled controller; the other two count files,
as in the code). The strategy is chosen in `Init`.

| Definition | Code |
| --- | --- |
| `SimpleTask`, `LeveledTask`, `TieredTask` | `generate_compaction_task` of `compact/simple_leveled.rs`, `leveled.rs`, `tiered.rs` |
| `TargetSizes`, `BaseLevel`, `Overlapping` | the steps of the leveled one, with `find_overlapping_ssts` comparing (key, timestamp) |
| `Kept`, `Split` | the loop of `compact_generate_sst_from_iter`: what survives, and where a new table begins |
| `ApplyToLevels`, `ApplyToTiers`, `Applicable` | `apply_compaction_result` and its assertions |
| `RecordFlush`, `RecordCompaction`, `SortedLevels`, `LatestTs` | the replay in `LsmStorageInner::open` |
| `Flush`, `Compact`, `Install` | freeze with flush; `trigger_compaction` up to the merged tables; its installation under `state_lock` |
| `ReadersLeave` | transactions end and the watermark rises |
| `Reopen` | the process stops and `open` replays the manifest |

When a merge drops every version, the builder is asked for a table without entries and panics
(`block/builder.rs`, "block should not be empty"): the compaction thread is gone until the next
open. `Compact` has this outcome (`running` becomes FALSE) and all properties hold after it.

Abstracted: compaction filters are not installed; a write-ahead log and the crash windows
between installation and record are `Durability`'s subject; ratios are compared by
multiplication instead of as `f64`.

### 2.4 Bloom, SstFile, ReadPath

`Bloom` is the arithmetic of `table/bloom.rs`; a filter is the set of its bits, the width of a hash
is a constant (32 in the code, 12 in the run). `SstFile` builds a table entry by entry as
`SsTableBuilder` and `BlockBuilder` do: prefix compression against the first key of the block, u16
lengths and offsets, a new block when the estimated size exceeds `BlockSize`, then metadata,
filter and their offsets. A file maps each offset to what was written there and its length, so
that a reader that computes a wrong one finds nothing.

`ReadPath` builds the tree of iterators that `get_with_ts` or `scan_with_ts` builds, as records
with the fields of the Rust structs, and a step of the model is one call of `next` on the whole
tree or the code between two of them.

| Action or operator | Code |
| --- | --- |
| `MemScan`, `MemNext`; `SstSeekToKey`, `SstNext`; `RunSeekToKey`, `MoveUntilValid` | memtable, SST and concat iterators |
| `Merge`, `MergeNext`, `Reselect`; `Two` | `MergeIterator` (the heap is the set of indices in it), `TwoMergeIterator` |
| `GetTree`, `ScanTree` | which tables are kept, and the seeks at the lower bound |
| `GetOwn`, `GetStart`, `ScanStart` | `Transaction::get` and `scan`, `LsmIterator::new` |
| `SkipOlder`, `TakeKey`, `SkipNewer`, `SkipDeleted`, `Settle` | the loop of `LsmIterator::move_to_key` with `next_inner` |
| `GetResult` | the end of `get_with_ts` |
| `Skip`, `Choose`, `UserNext` | `TxnIterator` over `TxnLocalIterator` and the engine's |
| `WriterPut`, `OwnPut` | another transaction's insertion into the live memtable; the reader's own put or delete between two calls |

A block that has become unreadable since its table was opened is part of a case (`bad`); an error
ends the read as `?` and `FusedIterator` do. Of a value only the length counts, and user keys are
numbers with given bytes, in the order of the bytes.

### 2.5 Week2

A step is what a thread does between two points at which others can see or change something. The
`RwLock` of `state` is held for a step only, except by a writer, which keeps the read guard from
its insertion to its append to the log: `GuardHeld` keeps every `*state.write()` waiting, and
`state_lock` is the variable `lock`.

| Action | Code (`src/mini-lsm/mini-lsm/src/`) |
| --- | --- |
| `WriteBatch`, `NextRecord`, `AppendRecord` | `write_batch`: `MemTable::put` in its two halves, record by record |
| `TryFreeze`, `ForceFreeze`, `Swap` | `try_freeze`, `force_freeze_memtable`, `freeze_memtable_with_memtable` |
| `ForceFlush`, `ForceCheck` | `MiniLsm::force_flush`, which looks twice without `state_lock` |
| `FlushTick`, `FlushBuild`, `FlushInstall` | `trigger_flush`, `force_flush_next_imm_memtable` |
| `CompactTick`, `FullCompaction`, `Merge`, `Apply`, `Install`, `RemoveInputs` | `trigger_compaction`, `force_full_compaction`, `compact` |
| `Get`, `GetMemtable`, `GetOld`, `ReadReturns` | `get`: clone, live memtable, the rest |
| `Scan`, `ScanOpen`, `ScanNext`, `ScanEnd` | `scan`: clone, iterators with the item read ahead, one entry, end |
| `Close`, `StopThread`, `CloseJoin`, `CloseMemtable`, `CloseDrain`, `CloseEnd` | `MiniLsm::close` and the `select!` of the two threads |
| `Open` | `LsmStorageInner::open` on what a close has left |

A panic is a place a thread may reach: its guards are released, what it installed stays, and a
join on it gives an error. The n-th write stores `n`, or `-n` for a deletion, so that entries tell
which write they come from. `current`, `done`, `stale` and `seen` are history variables. The
application stops writing before it closes; readers need not stop.

Left out: `sync` and crashes, the leveled and tiered controllers (the same files as in the
mvcc crate), compaction filters, and what is below a table.

## 3. Properties and runs

`MvccTxn` (run through `MCMvccTxn`; symmetry over clients and keys, which no constant or
property distinguishes; not used for liveness):

| Run | Instance | Question |
| --- | --- | --- |
| `mvcc_snapshot` | 2 clients, 1 key, serializable, 3 batches, 2 memtables frozen, limit 1 | `SnapshotReads`, `UnpublishedVersionsOwned` and `ImplementsSnapshotStore` with freezes, flushes and compactions between all steps |
| `mvcc_serializable` | 2 clients, 2 keys, distinct hashes, 3 batches, no freezing | `Serializability`, `ValidationComplete` |
| `mvcc_atomic` | 2 clients, 2 keys, not serializable, batches of two | entry-wise insertion: `ImplementsSnapshotStore` |
| `mvcc_live` | 2 clients, 1 key, serializable, 2 batches, one write error, fairness | `CommitReturns` |
| `mvcc_failed_write` | one write error | violates `OnlyCommittedVisible` (finding) |

- `SnapshotReads`: every open transaction, one that could begin now, and a get on an older
  clone of the state read exactly the batches published up to their timestamp.
- `UnpublishedVersionsOwned`: versions above the latest timestamp are those of the holder of
  `write_lock`.
- `Serializability`: from validation to publication all that a writing transaction has read
  with `get` is still current.
- `ValidationComplete`: the validation table holds every write set that an open transaction may
  need; the only exception is the batch just published, whose writer still holds `commit_lock`.
- `CommitReturns`: commits return.
- `ImplementsSnapshotStore`: refinement; a transaction commits at `Publish`, aborts when
  `Validate` finds a conflict, reads at `GetFinish`.

Why the bounds are enough: an anomaly needs a reader and a writer (or two writers) and a
version on each side of a timestamp, so two clients and three timestamps give "before", "at" and
"after"; two frozen memtables give a memtable, an immutable one and an SST at once, and two
compactions in a row. A write error is met in `mvcc_live` and `mvcc_failed_write`; what holds in
spite of one is that locks are released (`CommitReturns`) and, by the theorem, that the validation
table stays complete. Hash collisions
only add conflicts; the theorem below holds for any hash function.

`Durability` (run through `MCDurability`; one writer, since `write_lock` serialises them, beside
freeze, flush, compaction, sync):

| Run | Settings | Question |
| --- | --- | --- |
| `durability` | `Kill`: logs, 2 crashes of the process; `Power`: logs, 1 of the machine; `NoWal`: 1 of the process, at every position | all properties below |
| `durability_flush_window` | process stops at `flush.wal_removed` | violates `SyncedRecovered` (finding) |
| `durability_torn_log` | half a batch at the end of a log | violates `SyncedRecovered` (finding) |

Three batches with a limit of two give a full and a partial memtable, SSTs in L0 and L1 and a
recovered log at once; the ids 0 to 5 allow a freeze, a flush, a compaction and two restarts; two
crashes of the process let a second recovery run on what the first one left.

`crashAt` of a setting names the positions of `state_lock`'s holder at which a crash may come and
`syncAt` those at which `sync` may be called. The passing run leaves out exactly the
windows in which the code does break the promise, so that it says that there is no other.
Two of them are the runs for findings. With logs, four more are left out:

- `freeze.created`, `freeze.swapped`, `freeze.synced`, `open.created` in `crashAt`: the process
  stops between the creation of a log and its `NewMemtable` record, open derives the same id
  again and `create_new` fails on the file that exists (`SyncedRecovered`);
- `freeze.swapped` in `syncAt`: `sync` looks at the new memtable's log while the old one's is not
  synced yet (`SyncPersists`);
- machine crashes between a directory change and its sync (`freeze.*`, `flush.wal_removed`,
  `flush.recorded`, `open.*`): the same records and files disagree, and `flush.recorded` adds the
  flush's own order (`Flush` is recorded before `sync_dir`, against `week2-05-manifest.md:56` of
  the book);
- both kinds of crash in one behaviour: after a process crash, open keeps the logs it recovered
  without syncing them, and a later `sync` syncs the current memtable's log only.

The runs for findings may stop (open has failed, ids are used up), so they do not check
deadlock; `durability` does: an id is always kept for the next open.

- `RecoverySucceeds`: open gives no error. `SyncedRecovered`: what sync or close promised is
  loaded again. `SyncPersists`: it is on the disk from then on.
- `NothingLost`: while the engine runs it holds exactly the batches up to the latest timestamp
  (and the one being written).
- `ManifestMatches`: when nobody holds `state_lock`, replaying the manifest yields the levels in
  memory, in order, and the memtables up to empty ones.
- `LatestFirst`: a source that comes first holds only newer batches.
- `CompactedFilesDurable`: the manifest never names an output of a compaction whose directory
  entry is not durable, or that has been removed.
- `ImplementsDurableLog`: refinement; a stop loses a suffix and never a promised batch.

`Levels` (run through `MCLevels`: three keys, one version per table, three levels or two tiers,
four flushes, one restart; the users write all keys, the first key, or a tombstone of the middle
one):

| Run | Instance | Question |
| --- | --- | --- |
| `levels` | all three controllers, base level size 1 | all properties below |
| `levels_leveled` | leveled, base level size 9, so that L0 goes to the bottom | violates `SameReads` (finding) |

- `ReadsPreserved`: every read at or above the watermark finds what was committed; for the
  leveled controller only while nothing has been deleted, see the finding.
- `SortedRuns`: the tables of a level or tier follow each other without overlap.
- `AgeOrder`: simple and tiered keep newer versions of a key in front of older ones, on which
  the dropping of tombstones at the bottom rests.
- `InstallSafe`: flushes during a merge do not break the assertions of the installation.
- `ReplayMatches`: the manifest replays to the levels in memory, table for table.
- `NewestFirst`: after a restart, what is written next is newer than all that is stored, although
  the timestamp may start lower than it was.
- `Quiesces`: once writers rest, compaction comes to an end.

Why the bounds are enough: four flushes with a trigger of two give two compactions of L0 with a
flush during each, a push from a level to the next one, tiers merged by each of the three
triggers, and (with one version per table) merges that take only a part of a level. Not reached
is a bottom level that shrinks below the base level size while a level above it holds tables.

When timestamps and restarts are used up and compaction has ended, nothing is left to do, so these
runs do not check deadlock.

The tiered controller is run with `max_merge_width` `None` (a width no state reaches), as the
tests and the command line have it. With `MaxMergeWidth = 2` and `NumTiers = 3`,
`ReadsPreserved` fails: `bottom_tier_included` is `levels.len() >= num_tiers_to_take`
(`compact/tiered.rs:111`), which always holds, and a merge of the two upper tiers drops
tombstones of values in the third.

`ReadPath` (run through `MCReadPath`): 5 histories of four batches over three keys, one of which
is a prefix of another; each batch in the memtable, an immutable one, one of two L0 tables or one
of two levels; levels collected at a watermark and cut at each key; two read timestamps; every
kind of bound; own writes and deletions; an unreadable block; and a batch that was written twice
with one timestamp, as after a failed write. One write may come at any moment of the read.

| Run | Instance | Question |
| --- | --- | --- |
| `read_path` | `BlockSize` 48, so that a block holds two or three entries and a value of 65535 bytes fills one alone | all properties below |

- `ScanExact`: ascending keys, each with the value of the snapshot under the own writes, none
  passed over, also up to an error; an error only for a block that cannot be read.
- `ScanInBounds`: no key outside the bounds, except that the last key returned may lie behind the
  end bound if the engine has no visible version in the range. This is a bug of the code:
  `LsmIterator::new` (`lsm_iterator.rs:42`) takes over the validity of the merged iterator and does
  not compare the first key with the end bound, as `next_inner` does with the later ones. Memtable
  iterators are bounded on both sides, but a table that overlaps the range is read to its end:
  with the keys 1 and 3 in one table, a scan of [2, 2] returns 3. The engine of the first two
  weeks has the same code.
- `GetExact`: get finds the value of the snapshot; no filter or key range hides it, and an error is
  given only for a block that cannot be read.
- `MergeOrdered`, `MovesForward`: the merged iterator stands at the least entry of all its parts,
  has lost none, and only moves forward, also over a memtable that grows.
- `TablesSound`: a table that is opened is the one built, gives back every entry, is sought
  correctly for every key and timestamp, and its filter denies none of its keys (one named part
  each: `OpenRecoversBuilt`, `EntriesReadBack`, `SeekFindsFirst`, `BloomComplete`).

Why the bounds are enough: a merge compares two sources at a time, and three kinds of place above
levels with two tables give every pair; a seek has to be right before, at and behind the first and
last entry of a block, and between two blocks; a key with versions on both sides of the read
timestamp and a deletion among them takes every branch of `move_to_key`.

`Week2` (run through `MCWeek2`: two clients, both threads, limits of one or two records, L0
trigger 1, two levels, one or two keys, at most two records written; every behaviour has one of
seven settings):

| Run | Settings | Question |
| --- | --- | --- |
| `week2` | `Logs`: two writers of one key, logs, close, open; `Closing`: a partial memtable, no logs; `Reads`: get beside a put and a deletion that are flushed and compacted; `Deletions`: to the bottom level and through open; `Forced`: two forced flushes and a full compaction; `Full`: two full compactions, open; `Scans`: a scan over two keys being written | all properties below |

- `ContentPreserved`: the state reads as the insertions left it, whatever was frozen, flushed and
  compacted.
- `ReadsInWindow`: a get, and a scan for each key in its range, answers what the key
  held at some moment of the call. A scan is not a snapshot in this engine.
- `FrozenUnchanged`: a memtable that was replaced, and its log, never change again.
- `OpenSucceeds`: what a close left can be opened, unless a full compaction was recorded: its replay
  reaches `unreachable!()` (`compact.rs:102` of both crates).
- `RestartKeepsReturned`: after close without an error, open reads for each key a write that no later
  completed write replaced. Without logs it is the current one. With logs it need not be: two writers
  of one key may reach memtable and log in different orders (`mem_table.rs:114`), since both hold
  only a read guard, and the loser of the race in memory is what the next open reads.
- `PanicsExplained`: no assertion fails but where it is known to: two users of `force_flush` or
  `force_full_compaction`, which look before they lock ("Only call this in test cases due to race
  conditions", `lsm_storage.rs:303`), and a compaction of nothing but deletions.
- `CallsReturn`: every call returns, close among them, and the threads get done again and again.

Why the bounds are enough: each race is between two threads around one memtable, one flush or
one compaction, and a limit of one record makes each write a freeze; a put and a deletion of one
key, flushed apart, give every way in which a tombstone and its value can lie. A behaviour may
end with a closed engine or used-up calls, so deadlock is not checked: that nobody waits for ever
is `CallsReturn`.

Findings, with the lines and the sentences of the book they go against, are in
`PROJECT.json`.

## 4. Fairness

`mvcc_live`, `levels` and `week2` need it. In `mvcc_live`, a thread that has a step to take takes it (weak fairness of
`PutEntry`, `TryFreeze`, `Publish`, `Record`); a thread that waits for `commit_lock` or
`write_lock` gets it if the lock is free again and again (strong fairness of `Validate`,
`StartBatch`): `parking_lot::Mutex` hands a lock over to a waiter at least every half
millisecond or so. Nothing is assumed of users (they need not begin, write or commit) or of
flushes and compactions. In `levels`, the compaction thread takes its next step, choosing and
merging or installing, as long as there is one (weak fairness of `Compact \/ Install`): its ticker
fires every 50 ms and `state_lock` is free again after every flush. In `week2`, one weak fairness
condition over everything that threads do once they have begun something (`Works`, which includes
ticks with work to do and taking a stop notification): some thread that can go on is scheduled. No
call has to be made. A notification is not put off for ever because a tick with nothing to do is
no step, and `select!` chooses at random among what is ready; tables and records are finite, so
that work without end would have to be compaction in a circle, which `CallsReturn` excludes.

## 5. Proofs

Every theorem holds for all values of the constants its module's assumption allows; where it has
a hypothesis of its own, the table says so. The runs of section 3 state the same definitions on
small instances.

| Module | Theorem | Property | Hypothesis |
| --- | --- | --- | --- |
| `MvccTxnProofs` | `TypeCorrect` | `TypeOK` | |
| | `ValidationTableComplete` | `ValidationComplete` | |
| | `UnpublishedOwned` | `UnpublishedVersionsOwned` | no write fails |
| | `SnapshotReadsHold` | `SnapshotReads` | no write fails |
| | `SerializabilityHolds` | `Serializability` | no write fails |
| | `MvccImplementsSnapshotStore` | `ImplementsSnapshotStore` | no write fails |
| `DurabilityProofs` | `TypesHold` | `TypeOK` | |
| | `NothingIsLost` | `NothingLost` | |
| | `ManifestIsMemory` | `ManifestMatches` | |
| | `LatestIsFirst` | `LatestFirst` | |
| | `CompactedFilesStay` | `CompactedFilesDurable` | |
| `DurabilityRecoveryProofs` | `OpenSucceeds` | `RecoverySucceeds` | `Survivable` |
| | `PromisedIsRecovered` | `SyncedRecovered` | `Survivable` |
| | `SyncedPersists` | `SyncPersists` | `Survivable`, `SyncsCovered` |
| | `EngineImplementsDurableLog` | `ImplementsDurableLog` | `Survivable` |
| `LevelsProofs` | `MergePreservesReads` | | |
| | `LevelsTypeCorrect` | `TypeOK` | |
| | `InstallIsSafe` | `InstallSafe` | |
| | `NewestIsFirst` | `NewestFirst` | |
| | `ReplayRebuilds` | `ReplayMatches` | |
| | `RunsSorted` | `SortedRuns` | |
| | `PlacesInAgeOrder` | `AgeOrder` | |
| | `ReadsArePreserved` | `ReadsPreserved` | tiered: `max_merge_width` cuts no task off |
| `Week2Proofs` | `Typing` | `TypeOK` | |
| | `Reopening` | `OpenSucceeds` | |
| | `Freezing` | `FrozenUnchanged` | |
| | `Preserving` | `ContentPreserved` | |
| | `Windows` | `ReadsInWindow` | |
| `Week2RestartProofs` | `Panicking` | `PanicsExplained` | |
| | `Restarting` | `RestartKeepsReturned` | |
| `BloomProofs` | `NoFalseNegatives` | | the filter's length fits a hash |

### 5.1 Transactions

`TypeOK` alone is not inductive: `Drop` decrements a reader count, `StartBatch` reserves
`ts + 1` and `Publish` stores it. `Inv` (`MvccTxnProofs`) adds what the code relies on:

- `ReadersExact`: the count of a timestamp is the number of open transactions that read at it,
  so `remove_reader` never finds zero;
- `RoomLeft`: the writers under way and the timestamps given out fit the bound;
- `LocksHeld`: a client owns `write_lock` exactly from taking the timestamp to returning, and
  `commit_lock` from validation to recording if it has a transaction;
- `Positions`: where clients with and without a transaction can be;
- `BatchesFollow`: the batch being written has timestamp `ts + 1`; a commit that is recording
  has timestamp `ts`, because in serializable mode nobody else publishes under `commit_lock`.

Each part is preserved by each action (`TypeStep`, `ReadersStep`, `RoomStep`, `LocksStep`, …),
which gives `Invariance`. `ValidationComplete` then is inductive relative to `Inv`:
`ValidationFrame` for the steps that do not touch the table, `Publish` moves the new batch to the
exception, `Record` moves it into the table and removes entries below the watermark, and
`WatermarkBelowOpen` says that the watermark is at or below every open read timestamp, so that
no entry above one goes. `Min` of a set of naturals is characterised by well-founded
induction on a concrete relation (`MinExists`).

`StoreInv` and `ReadInv` say where versions are. Every version at or
below the latest timestamp is one `log` has, and one above it belongs to the batch of the holder
of `write_lock`; memtables and tables are ordered by age; what a compaction took
as input is older than all that is left outside; the watermark it read is at or below every
transaction that is open or will begin. With these, dropping versions below the watermark changes
no read of a snapshot, whichever of insertion, freeze, flush and installation comes in between, and
`SnapshotReads` follows for an open transaction, for the next one, and for a get that still holds an
older clone of the state.

The hypothesis is `MaxWriteErrors = 0`. It is not a convenience: after a write that fails half way
the next writer takes the same timestamp, and `UnpublishedVersionsOwned` and `SnapshotReads` are then
false, which is the finding of the run `mvcc_failed_write`. `TypeCorrect` and
`ValidationTableComplete` do not need it.

`RefineStep` maps each action to one of `SnapshotStore`: `NewTxn` to the beginning of a
transaction, `GetFinish` to a read (of the prefix, by `SnapshotReads`), `Publish` to a commit, whose
condition in serializable mode is `Serializability`, `Validate` with a conflict to an abort, `Drop` to a
close, and everything the engine does by itself to no step at all.

### 5.2 Durability

`IInv` (`DurabilityProofs`) is inductive for every set of settings: whatever a crash leaves of logs and
names, at every position, and whenever `sync` is called. TLC checked it for
such settings before it was proved. It has two halves.

- Of a running engine: ids in use are distinct and below the next one (`IdsFresh`); the manifest is
  the state in memory but for the one step that the holder of `state_lock` is ahead (`Recording`,
  which says by `lock` what that step is); newer sources hold later batches and together they hold
  all (`Holdings`); the inputs of a compaction stay the last tables of L0 (`Compacting`); all logs but
  those of the current memtable and, until it is synced, the one just frozen are safe, and what is safe of
  a log is a prefix of it (`Logs`).
- Of an engine that is down: what the manifest names is in order and without a gap (`OnDisk`).

A crash leads from the first to the second: `AliveRecorded` says that at every position what is
recorded is in order and gapless and only its newest log can be unsafe, `CrashKeepsRecorded` that
cutting that log back to a prefix leaves it so. Were two logs unsafe at once, the cut of the older one
would leave a gap; that is why `freeze` has to sync the old log before it records the new one. Open
leads back: `RecoverFinds` says that the memtables and levels rebuilt are what was recorded.
`NothingLost`, `ManifestMatches` and `LatestFirst` are then read off; they need no hypothesis, because
an open that fails leaves no running engine.

The sequences of the model (`Without`, which `apply_compaction_result` does to L0, and
`RecoveredMemtables`) are written with `InOrder`, an explicit function. Nothing can be proved
about `SelectSeq` and `SetToSortSeq`, which recurse; `InOrderEnumerates` and `WithoutTail` are the
lemmas that say what the explicit forms yield.

That open succeeds is not true of all settings. `DurabilityRecoveryProofs` names the windows:

| Window | Positions | What a crash there leaves |
| --- | --- | --- |
| `LogWindows` | `freeze.created`, `freeze.swapped`, `freeze.synced`, `open.fresh`, `open.created` | with logs: a log that the manifest does not record, whose number open will take again; `create_new` fails |
| | `flush.wal_removed` | with logs: a record of a log that is gone (run `durability_flush_window`) |
| `LogPowerWindows` | `freeze.recorded`, `open.recorded` | with logs, when the machine stops: a durable record of a log whose name is not |
| `TablePowerWindows` | `flush.recorded` | when the machine stops: the same of an SST |

`Survivable(s)` says that setting `s` has no crash in a window that concerns it and, with logs, leaves
no half batch (run `durability_torn_log`). All settings of the run `durability` are survivable; it allows
others too, such as machine crashes without logs. `RInv` adds to `IInv`:

- `DirInv`: the manifest, and the logs and tables it records, are in the directory and, but for
  the step under way, in the directory as last synced; no log has a number that open will
  give out; a file that a compaction is going to remove is neither in use nor recorded (`Removing`);
- `PromiseBounded`, `PromiseSafe`, `PromiseRecorded`: what is promised has been published; it is in
  the safe part of the current memtable's log or in older sources; in an engine that is down, or
  that has no logs, it is in what the manifest records.

`PromisedIsRecovered` says more than that `sync` syncs: the promise must survive the freeze, flush
and compaction of what was synced, each of which removes the file it was in. `SyncedPersists` needs
`SyncsCovered` besides: a `sync` while the frozen memtable's log is not synced yet (`freeze.swapped`)
reaches the new memtable's log only and returns too early.

`RefineStep` maps a write to `Append`, `sync` and a clean close to `Promise`, a crash to `Lose`, and
freeze, flush, compaction and open to no step. For a crash, what is recorded afterwards is some
`1..n` (`CrashKeepsRecorded`) within what could be read (`RecordedReadable`) and with all that was
promised (`CrashKeepsPromised`).

### 5.3 Levels

`IInv` (`LevelsProofs`) is inductive for every strategy and every value of the options that
`LevelsAssumption` allows, `max_levels` and level sizes included, for any batches and any number of
flushes, compactions and reopens. TLC checked it with the bounds of the run `levels` before it was
proved. `Inductive` has a lemma per action (`FlushKeeps`, `CompactKeeps`, `InstallKeeps`,
`ReopenKeeps`, `ReadersLeaveKeeps`). The parts, and why each is needed:

| Part | Says | Needed, because |
| --- | --- | --- |
| `Places` | no table is listed twice; under the tiered controller L0 is empty and no tier is; the others have `max_levels` levels | `Without` removes the inputs and nothing else only if ids are distinct |
| `IdsFresh` | ids to come are not in use and, after a restart, will not be | an output under an id in use would replace a table, which nothing in the code checks |
| `Replays` | the records yield the same L0, and the same ids in each level, though perhaps in another order | the leveled controller does not sort in recovery: equality holds only after `open` has sorted, and is not inductive |
| `VersionsUnique` | no two versions have one key and one timestamp | the newest version is the one a merge keeps |
| `LevelsFollow` | the tables of a level follow each other, the versions of a key in one of them | `SortedRuns` only relates the ends of tables |
| `PlacesAge` | simple and tiered: what is in front is later | a tombstone dropped at the bottom must have nothing behind it |
| `Scheduled` | the inputs of the task are where they were, whatever was flushed in front of them (`Fits`); its output is new, in order, and lacks only what `Dropped` allows (`Made`) | the controller chooses in one state and the result is applied in another |
| `Reads` | `SameReads`, and nothing in the history is from the future | |

For each controller there is a lemma that every task it can choose fits the levels (`SimpleFits`,
`LeveledFits`, `TieredFits`). For the leveled one this is about what `find_overlapping_ssts` leaves
behind: the tables of the lower level that are not taken lie apart from the inputs (`Apart`), so that
the sorted level is again a run. `Apart` is in the order of (key, timestamp); apart in that order
does not mean without a common key, which is the finding of `levels_leveled`, and why `Reads` has
`~deleted` for this controller: a version then goes only if a newer one of its key at or below the
watermark stays, and no allowed read can tell, wherever other versions of the key are.
`MergedInto` and `MergePreservesReads` turn `Dropped` into "no read changes" at the moment of the merge,
and `After` carries that to the moment of installation, when flushes may have added tables in front.

The hypothesis of `ReadsArePreserved` is that no tiered controller is used or `MaxTs`, which bounds the
number of tiers, is at most `MaxMergeWidth`: `max_merge_width` is then as good as `None`,
which it is everywhere in the repository but in the simulator. With a smaller one the theorem is false (section 3). The other
six theorems hold for every width.

`Split` and `TargetSizes` are functions defined by recursion on a bounded domain. What such a
function yields is proved without induction over an operator: if it were wrong for some argument it
would be wrong for a smallest one, and one unfolding there contradicts it.

### 5.4 Merges and filters

`LevelsProofs` proves `MergePreservesReads`, for every set of versions, every watermark and
both values of `compact_to_bottom_level`: a read at or above the watermark finds in `Kept(S, bottom)`
what it finds in `S`. A version that such a read finds has no newer one at or below the
watermark, so it stays, unless it is a tombstone; and a version that hides another is itself
hidden only by a newer one at or below the watermark, the newest of which (`NewestExists`, by
well-founded induction) stays or is a tombstone below which nothing stays. A merge of all tables is
therefore always right, and what can go wrong is which tables are merged with which.

`BloomProofs` proves `NoFalseNegatives`: `MayContain(BuildFilter(hashes), h)` for every sequence of
hashes, each `h` in it, every `HashBits` and `RotateBits` allowed by `BloomAssumption`. Lookup makes
the same probes as construction, and the two remainders agree while the length of the filter in
bits fits a hash, which the theorem assumes: lookup casts the length to `u32`, construction does
not, so a filter of 2^32 bits (some 400 million keys in one SST) would be beyond it.

### 5.5 Week2

`Week2Assumption` allows any clients, keys, settings, ranges, triggers, limits and numbers of levels, and
a setting any number of calls of each kind; the seven theorems need nothing else. `Engine` is the
inductive invariant they all rest on (`EngineHolds`), in three parts.

- `Control`: of each thread, its place, its locals, the mode and the owner of `state_lock` fit
  (`ThreadOK`); at most one client closes, and once it has passed a join that thread has stopped
  (`OneCloses`). That nothing is frozen or flushed beside the drain of close follows from this.
- `Store`: memory, files and records fit (the table below).
- `CurrentTyped`: the latest entries are entries.

| Part of `Store` | Says | Needed, because |
| --- | --- | --- |
| `Memtables` | the memtables of the state exist, in the order of their ids, the current one last; a writer that has inserted and not yet appended has the current one | `FlushInstall` takes the last in the queue, and open sorts by id |
| `TablesApart`, `TablesHeld` | no table is in two places; what a state, clone, task or thread refers to exists and has no memtable's id | an output or a flush under an id in use would replace a table under a reader |
| `Jobs`, `TasksFit` | what a thread has built is nobody else's; what it is about to install is the state as it is now with the change made; a removed input is in no state | merges run without the lock, and files are removed after it is released |
| `InputsLast` | only newer tables have come in front of the inputs from L0 | the task was chosen in a state that has changed since |
| `Clones` | the memtables of a clone exist, none younger than the current one | a reader reads on, whatever is flushed and compacted |
| `LogsKept` | with logs, every memtable of the state has one | open reads logs only |
| `Replays` | replaying the manifest yields the tables in memory, and the memtables with perhaps some whose logs are empty; after a full compaction it fails | `OpenSucceeds` |

`Typing` and `Reopening` follow from `Engine`; `Freezing` needs in addition that only insertions write
to memtables and logs, and that a writer past its guard has the current one (`NextKinds` splits a step into a few kinds,
and most arguments are one per kind).

`Contented` adds `Faithfuls` (the tables a compaction has written hold what is to be left of
its inputs) and `ContentHolds`. It is needed because a merge and its installation are separate steps:
`Faithful` carries what the merge knew to the moment of installation, and `InputsLast` says that by
then the inputs are still behind all that is newer. A tombstone may go in a merge to the bottom,
because behind the inputs there is nothing; elsewhere the entry it leaves is the same.

`Watching` is the invariant of `ReadsInWindow`: of each reader, what its clone says for each key, in the
memtable as it is now and behind it, what it has found so far and the item its iterator has read
ahead, are all in `seen`, or hidden by something that is. The memtable of the clone goes
on changing while it is the current one and never afterwards (`Freezing`): that is why the answer,
though no snapshot, was current at some moment of the call.

`Guarded` is the invariant of `PanicsExplained`. It says what is in order as long as no call was
made that could upset it:

| Part | Says |
| --- | --- |
| `Counted` | no call is taken back |
| `Singly`, `NoneFull` | while at most one full compaction was called, one thread compacts and its inputs are in place |
| `NoneDeleted` | while no deletion was called, no entry anywhere is one, so a merge leaves something |
| `Sized`, `FlushFit` | while no `force_flush` was called, every frozen memtable has an entry and who comes to flush finds one |

`Restartable` is the invariant of `RestartKeepsReturned`: `Fresh` (the latest entry of a key was not
replaced and is written to the end or under way; no entry is used twice), `Stands` (with logs, the
last record of a key in the newest log that has one, or else what the tables hold, is a write
that no completed one replaced) and `Drained` (without logs, close has flushed the memtable before it
returns). `Stands` is weaker than equality with memory on purpose: two writers may reach memtable and log in
different orders, and then the two differ for good.

`Descending`, `Recovered`, `Without` and `Scanned` are explicit functions, since nothing can be proved about
`SetToSortSeq` and `SelectSeq`. Two mistakes of the model came to light in the proofs and were put
right: `Merge` took for its outputs every id from `nextId` on, where another thread's may lie, and
`TypeOK` bounded the ids of all tables ever written, where those of a compaction that panicked may be
given out again after open.

### 5.6 Only model-checked

- Liveness (`CommitReturns`, `Quiesces`, `CallsReturn`): fairness and ENABLED are out of the
  prover's reach.
- `ReadPath`: it recurses over trees of iterators with `RECURSIVE` operators, which the prover does not
  accept; the files below it are functions over bounded domains.

## 6. Not modelled, and the plan

Planned next, in this order:

1. `Levels`: a bottom level that shrinks (`compact/leveled.rs:103`), compaction filters.
2. `Durability`: both kinds of crash in one behaviour, an append to the manifest that is cut short.

Not modelled, with the reason:

- A `Transaction` used by several threads (`mvcc/txn.rs:145`): no test or driver shares one.
- Writes after `close`, or beside it (`lsm_storage.rs:232`): the tests and the command line stop first.
- Changing `enable_wal` between two opens of a directory: open then looks for logs that were never
  written (`lsm_storage.rs:434`); options are taken as fixed for a directory.
- Write skew over scanned ranges (`mvcc/txn.rs:285`): conceded by the book; `Serializability` is about keys
  read with `get`.
- Read errors at open and I/O errors of writes and syncs, apart from the failed write of `MvccTxn`.
- The skip list (crossbeam, taken as linearizable), the moka block cache (immutable blocks under
  unique keys), checksums (assumed to detect what they are for), the bytes of logs and manifest.
- The command line, the simulator and xtask, which keep no state of the engine; the starter crate,
  whose bodies are `unimplemented!()`; the course text.
