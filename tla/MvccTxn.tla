------------------------------ MODULE MvccTxn ------------------------------
(***************************************************************************)
(* The transaction layer of the mini-lsm-mvcc crate over its in-memory     *)
(* engine state: LsmMvccInner (commit timestamp, watermark, the two locks, *)
(* the validation table), Transaction (get, put, delete, commit, drop),    *)
(* write_batch_inner, memtables that are frozen and flushed under readers, *)
(* and the full compaction that discards versions below the watermark.     *)
(*                                                                         *)
(* A step of a client is the code between two points where another thread  *)
(* can interfere.  Regions under state_lock whose only effect on shared    *)
(* memory is one `*state.write() = ...` are single steps, so state_lock    *)
(* itself needs no variable.  A byte string is a member of Key or Value; a *)
(* memtable's size is its number of entries; the SSTs of L0 and L1 are     *)
(* one set of versions, because reads and the full compaction merge them   *)
(* all.  Write-ahead logs, the manifest and scans are in other modules.    *)
(***************************************************************************)
EXTENDS Integers, FiniteSets, FiniteSetsExt

CONSTANTS
    Key,              \* user keys
    Value,            \* non-empty values
    Empty,            \* the empty value, which marks a deletion; also "no value" as a result
    NoWrite,          \* "this batch does not write that key"
    NotRead,          \* "this transaction has not read that key"
    Client,           \* threads that use the engine, one transaction each at a time
    NoClient,         \* the owner of a free lock
    HashVal,          \* range of farmhash::hash32
    Hash,             \* key hashes: [Key -> HashVal], not necessarily injective
    Serializable,     \* LsmStorageOptions::serializable
    MemtableLimit,    \* LsmStorageOptions::target_sst_size, in entries
    MaxTs,            \* bound: number of batches ever committed
    MaxBatch,         \* bound: number of keys in one batch
    MaxTables,        \* bound: number of memtables ever frozen
    MaxWriteErrors    \* bound: number of I/O errors met by writes (0: none)

\* A failed batch leaves versions behind whose timestamp is used again; which
\* of two equal versions a read returns is modelled within one memtable only.
ASSUME MvccTxnAssumption ==
    /\ Empty \notin Value
    /\ NoWrite \notin Value \cup {Empty}
    /\ NotRead \notin Value \cup {Empty}
    /\ NoClient \notin Client
    /\ IsFiniteSet(Client)
    /\ Hash \in [Key -> HashVal]
    /\ Serializable \in BOOLEAN
    /\ MemtableLimit \in Nat \ {0}
    /\ MaxTs \in Nat
    /\ MaxBatch \in Nat
    /\ MaxTables \in Nat
    /\ MaxWriteErrors \in Nat
    /\ MaxWriteErrors > 0 => MaxTables = 0

VARIABLES
    ts,             \* LsmMvccInner.ts.0: the latest commit timestamp
    readers,        \* LsmMvccInner.ts.1: Watermark.readers, a count for each read_ts
    writeLock,      \* LsmMvccInner.write_lock: its owner
    commitLock,     \* LsmMvccInner.commit_lock: its owner
    committedTxns,  \* LsmMvccInner.committed_txns: commit timestamps and write sets
    tables,         \* the entries of each memtable ever created
    state,          \* LsmStorageState: which memtables and which SST entries are live
    compaction,     \* a running full compaction: its progress, input and output
    pc,             \* where each client is
    open,           \* clients whose Transaction object is alive
    readTs,         \* Transaction.read_ts
    readSet,        \* Transaction.key_hashes.1
    local,          \* Transaction.local_storage, or the batch being written
    batchTs,        \* the timestamp a client in write_batch_inner has taken
    pending,        \* the keys it has still to insert
    target,         \* the key a client in get_with_ts looks up
    snapshot,       \* the LsmStorageState it has cloned
    seen,           \* what each get of the current transaction returned
    errors,         \* number of write errors so far
    log             \* history: the batch published at each timestamp

mvccVars  == <<ts, readers, writeLock, commitLock, committedTxns>>
storeVars == <<tables, state, compaction>>
txnVars   == <<open, readTs, readSet, local, seen>>
stepVars  == <<batchTs, pending, target, snapshot>>
vars == <<mvccVars, storeVars, pc, txnVars, stepVars, errors, log>>

-----------------------------------------------------------------------------
Ts      == 0..MaxTs
TableId == 0..MaxTables
Batch   == [Key -> Value \cup {Empty, NoWrite}]
Version == [key : Key, ts : 1..MaxTs, val : Value \cup {Empty}]

\* The memtable is `mem`, the immutable memtables are mem-1 down to oldest, and
\* sst holds the entries of every SST.
State == [mem : TableId, oldest : TableId, sst : SUBSET Version]

NoBatch == [k \in Key |-> NoWrite]
Unread  == [k \in Key |-> NotRead]
NoState == [mem |-> 0, oldest |-> 0, sst |-> {}]
Idle    == [pc |-> "idle", input |-> {}, output |-> {}]

WrittenBy(b) == {k \in Key : b[k] # NoWrite}
Hashes(K)    == {Hash[k] : k \in K}

\* Everything a reader of state s merges.
Versions(s) == s.sst \cup UNION {tables[i] : i \in s.oldest..s.mem}

\* LsmIterator on the merged versions of k: the newest one at or below t.
\* A deletion marker and no version at all both read as Empty.
Visible(S, k, t) ==
    LET candidates == {v \in S : v.key = k /\ v.ts <= t}
    IN  IF candidates = {} THEN Empty
        ELSE (CHOOSE v \in candidates :
                 \A u \in candidates : u.ts <= v.ts).val

\* Mutated form: the watermark ignores the registered readers.
WatermarkWithoutReaders == ts

\* Watermark::watermark, or the latest commit timestamp without readers.
Watermark ==
    LET held == {t \in Ts : readers[t] > 0}
    IN  IF held = {} THEN ts ELSE Min(held)

\* The entries compact_generate_sst_from_iter keeps of one key's versions S when
\* it compacts to the bottom level: all above w, and the newest at or below w
\* unless that is a deletion marker which comes first for its key.
KeepOfKey(S, w) ==
    LET above == {v \in S : v.ts > w}
        below == S \ above
        first == {v \in below : \A u \in below : u.ts <= v.ts}
    IN  above \cup {v \in first : v.val # Empty \/ above # {}}

Compacted(S, w) == UNION {KeepOfKey({v \in S : v.key = k}, w) : k \in Key}

-----------------------------------------------------------------------------
Init ==
    /\ ts = 0
    /\ readers = [t \in Ts |-> 0]
    /\ writeLock = NoClient
    /\ commitLock = NoClient
    /\ committedTxns = {}
    /\ tables = [i \in TableId |-> {}]
    /\ state = NoState
    /\ compaction = Idle
    /\ pc = [c \in Client |-> "idle"]
    /\ open = {}
    /\ readTs = [c \in Client |-> 0]
    /\ readSet = [c \in Client |-> {}]
    /\ local = [c \in Client |-> NoBatch]
    /\ batchTs = [c \in Client |-> 0]
    /\ pending = [c \in Client |-> {}]
    /\ target = [c \in Client |-> {}]
    /\ snapshot = [c \in Client |-> NoState]
    /\ seen = [c \in Client |-> Unread]
    /\ errors = 0
    /\ log = [t \in 1..MaxTs |-> NoBatch]

Goto(c, label) == pc' = [pc EXCEPT ![c] = label]

\* Clients that will take or have taken a timestamp that is not published yet.
Writers == {c \in Client :
              pc[c] \in {"locking", "batching", "writing", "freezing", "publishing"}}

\* Bound: a batch is only started when a timestamp is left for it.
RoomToWrite == ts + Cardinality(Writers) < MaxTs

-----------------------------------------------------------------------------
(* Transactions.                                                           *)

\* Mutated form: new_txn forgets add_reader.
NewTxnUnregistered(c) ==
    /\ pc[c] = "idle"
    /\ Goto(c, "active")
    /\ open' = open \cup {c}
    /\ readTs' = [readTs EXCEPT ![c] = ts]
    /\ UNCHANGED <<mvccVars, storeVars, readSet, local, seen, stepVars, errors, log>>

\* LsmMvccInner::new_txn: read_ts is taken and registered under one lock.
NewTxn(c) ==
    /\ pc[c] = "idle"
    /\ Goto(c, "active")
    /\ open' = open \cup {c}
    /\ readTs' = [readTs EXCEPT ![c] = ts]
    /\ readers' = [readers EXCEPT ![ts] = @ + 1]
    /\ UNCHANGED <<ts, writeLock, commitLock, committedTxns, storeVars,
                   readSet, local, seen, stepVars, errors, log>>

\* Transaction::put and Transaction::delete: a delete stores the empty value.
Put(c, k, v) ==
    /\ pc[c] = "active"
    /\ Cardinality(WrittenBy(local[c]) \cup {k}) <= MaxBatch
    /\ local' = [local EXCEPT ![c][k] = v]
    /\ UNCHANGED <<mvccVars, storeVars, pc, open, readTs, readSet, seen,
                   stepVars, errors, log>>

Delete(c, k) == Put(c, k, Empty)

TrackRead(c, k) ==
    readSet' = IF Serializable
               THEN [readSet EXCEPT ![c] = @ \cup {Hash[k]}]
               ELSE readSet

\* Transaction::get of a key the transaction has written: answered from
\* local_storage, but the key still enters the read set.
GetLocal(c, k) ==
    /\ pc[c] = "active"
    /\ local[c][k] # NoWrite
    /\ TrackRead(c, k)
    /\ UNCHANGED <<mvccVars, storeVars, pc, open, readTs, local, seen,
                   stepVars, errors, log>>

\* Transaction::get of any other key, up to the clone of the state in
\* get_with_ts.
GetStart(c, k) ==
    /\ pc[c] = "active"
    /\ local[c][k] = NoWrite
    /\ TrackRead(c, k)
    /\ target' = [target EXCEPT ![c] = {k}]
    /\ snapshot' = [snapshot EXCEPT ![c] = state]
    /\ Goto(c, "reading")
    /\ UNCHANGED <<mvccVars, storeVars, open, readTs, local, seen,
                   batchTs, pending, errors, log>>

\* The rest of get_with_ts: memtables and SSTs of the cloned state are merged.
\* The cloned state shares its memtable with the writers.
GetFinish(c) ==
    /\ pc[c] = "reading"
    /\ \E k \in target[c] :
         seen' = [seen EXCEPT ![c][k] = Visible(Versions(snapshot[c]), k, readTs[c])]
    /\ target' = [target EXCEPT ![c] = {}]
    /\ snapshot' = [snapshot EXCEPT ![c] = NoState]
    /\ Goto(c, "active")
    /\ UNCHANGED <<mvccVars, storeVars, open, readTs, readSet, local,
                   batchTs, pending, errors, log>>

\* Drop for Transaction, after commit or without it.
Drop(c) ==
    /\ c \in open
    /\ pc[c] \in {"active", "finished"}
    /\ Goto(c, "idle")
    /\ open' = open \ {c}
    /\ readers' = [readers EXCEPT ![readTs[c]] = @ - 1]
    /\ readTs' = [readTs EXCEPT ![c] = 0]
    /\ readSet' = [readSet EXCEPT ![c] = {}]
    /\ local' = [local EXCEPT ![c] = NoBatch]
    /\ seen' = [seen EXCEPT ![c] = Unread]
    /\ UNCHANGED <<ts, writeLock, commitLock, committedTxns, storeVars,
                   stepVars, errors, log>>

\* Transaction::commit sets `committed`, then waits for commit_lock.
Commit(c) ==
    /\ pc[c] = "active"
    /\ RoomToWrite
    /\ Goto(c, "locking")
    /\ UNCHANGED <<mvccVars, storeVars, txnVars, stepVars, errors, log>>

\* Mutated form: the range over committed_txns starts one timestamp late.
ConflictOffByOne(c) ==
    /\ Serializable
    /\ WrittenBy(local[c]) # {}
    /\ \E e \in committedTxns : e.ts > readTs[c] + 1 /\ e.hashes \cap readSet[c] # {}

\* Some transaction committed after c's read_ts wrote a key c has read.
Conflict(c) ==
    /\ Serializable
    /\ WrittenBy(local[c]) # {}
    /\ \E e \in committedTxns : e.ts > readTs[c] /\ e.hashes \cap readSet[c] # {}

\* Mutated form: commit_lock is not released when commit bails out.
ValidateKeepsLock(c) ==
    /\ pc[c] = "locking"
    /\ commitLock = NoClient
    /\ commitLock' = c
    /\ Goto(c, IF Conflict(c) THEN "finished" ELSE "batching")
    /\ UNCHANGED <<ts, readers, writeLock, committedTxns, storeVars, txnVars,
                   stepVars, errors, log>>

\* commit_lock is taken and the read set validated; on a conflict commit
\* bails out and the lock guard is dropped.
Validate(c) ==
    /\ pc[c] = "locking"
    /\ commitLock = NoClient
    /\ IF Conflict(c)
       THEN /\ Goto(c, "finished")
            /\ UNCHANGED commitLock
       ELSE /\ Goto(c, "batching")
            /\ commitLock' = c
    /\ UNCHANGED <<ts, readers, writeLock, committedTxns, storeVars, txnVars,
                   stepVars, errors, log>>

\* Mutated form: entries below the latest timestamp, not the watermark, go.
RecordIgnoresReaders(c) ==
    /\ pc[c] = "recording"
    /\ committedTxns' =
         {e \in committedTxns \cup {[ts |-> batchTs[c],
                                     hashes |-> Hashes(WrittenBy(local[c]))]} :
            e.ts >= ts}
    /\ commitLock' = NoClient
    /\ batchTs' = [batchTs EXCEPT ![c] = 0]
    /\ Goto(c, "finished")
    /\ UNCHANGED <<ts, readers, writeLock, storeVars, txnVars, pending, target,
                   snapshot, errors, log>>

\* The end of commit in serializable mode: the write set is recorded and the
\* entries below the watermark are removed.  c is itself still a reader.
Record(c) ==
    /\ pc[c] = "recording"
    /\ committedTxns' =
         {e \in committedTxns \cup {[ts |-> batchTs[c],
                                     hashes |-> Hashes(WrittenBy(local[c]))]} :
            e.ts >= Watermark}
    /\ commitLock' = NoClient
    /\ batchTs' = [batchTs EXCEPT ![c] = 0]
    /\ Goto(c, "finished")
    /\ UNCHANGED <<ts, readers, writeLock, storeVars, txnVars, pending, target,
                   snapshot, errors, log>>

-----------------------------------------------------------------------------
(* LsmStorageInner::write_batch_inner.                                     *)

\* write_batch, put and delete without serializable mode go straight to
\* write_batch_inner; in serializable mode they are NewTxn, Put, Commit, Drop.
WriteBatch(c) ==
    /\ ~Serializable
    /\ pc[c] = "idle"
    /\ RoomToWrite
    /\ \E b \in Batch :
         /\ Cardinality(WrittenBy(b)) \in 1..MaxBatch
         /\ local' = [local EXCEPT ![c] = b]
    /\ Goto(c, "batching")
    /\ UNCHANGED <<mvccVars, storeVars, open, readTs, readSet, seen, stepVars,
                   errors, log>>

\* Mutated form: write_lock is not taken.
StartBatchUnlocked(c) ==
    /\ pc[c] = "batching"
    /\ batchTs' = [batchTs EXCEPT ![c] = ts + 1]
    /\ pending' = [pending EXCEPT ![c] = WrittenBy(local[c])]
    /\ Goto(c, IF WrittenBy(local[c]) = {} THEN "freezing" ELSE "writing")
    /\ UNCHANGED <<mvccVars, storeVars, txnVars, target, snapshot, errors, log>>

\* Mutated form: update_commit_ts before the batch is inserted.
StartBatchPublishesEarly(c) ==
    /\ pc[c] = "batching"
    /\ writeLock = NoClient
    /\ writeLock' = c
    /\ ts' = ts + 1
    /\ log' = [log EXCEPT ![ts + 1] = local[c]]
    /\ batchTs' = [batchTs EXCEPT ![c] = ts + 1]
    /\ pending' = [pending EXCEPT ![c] = WrittenBy(local[c])]
    /\ Goto(c, IF WrittenBy(local[c]) = {} THEN "freezing" ELSE "writing")
    /\ UNCHANGED <<readers, commitLock, committedTxns, storeVars, txnVars,
                   target, snapshot, errors>>

\* write_lock is taken and the next timestamp read.
StartBatch(c) ==
    /\ pc[c] = "batching"
    /\ writeLock = NoClient
    /\ writeLock' = c
    /\ batchTs' = [batchTs EXCEPT ![c] = ts + 1]
    /\ pending' = [pending EXCEPT ![c] = WrittenBy(local[c])]
    /\ Goto(c, IF WrittenBy(local[c]) = {} THEN "freezing" ELSE "writing")
    /\ UNCHANGED <<ts, readers, commitLock, committedTxns, storeVars, txnVars,
                   target, snapshot, errors, log>>

\* Mutated form: the entries carry the latest published timestamp.
PutEntryAtLatest(c, k) ==
    /\ pc[c] = "writing"
    /\ k \in pending[c]
    /\ tables' = [tables EXCEPT ![state.mem] =
                    {v \in @ : v.key # k \/ v.ts # ts}
                    \cup {[key |-> k, ts |-> ts, val |-> local[c][k]]}]
    /\ pending' = [pending EXCEPT ![c] = @ \ {k}]
    /\ Goto(c, IF pending[c] = {k} THEN "freezing" ELSE "writing")
    /\ UNCHANGED <<mvccVars, state, compaction, txnVars, batchTs, target,
                   snapshot, errors, log>>

\* One iteration of MemTable::put_batch.  The skipmap replaces an entry with
\* the same key and timestamp.
PutEntry(c, k) ==
    /\ pc[c] = "writing"
    /\ k \in pending[c]
    /\ tables' = [tables EXCEPT ![state.mem] =
                    {v \in @ : v.key # k \/ v.ts # batchTs[c]}
                    \cup {[key |-> k, ts |-> batchTs[c], val |-> local[c][k]]}]
    /\ pending' = [pending EXCEPT ![c] = @ \ {k}]
    /\ Goto(c, IF pending[c] = {k} THEN "freezing" ELSE "writing")
    /\ UNCHANGED <<mvccVars, state, compaction, txnVars, batchTs, target,
                   snapshot, errors, log>>

\* freeze_memtable_with_memtable: the memtable becomes the newest immutable one.
FreezeMemtable ==
    /\ state' = [state EXCEPT !.mem = @ + 1]
    /\ UNCHANGED <<tables, compaction>>

\* try_freeze: the size is checked again under state_lock.
TryFreeze(c) ==
    /\ pc[c] = "freezing"
    /\ IF Cardinality(tables[state.mem]) >= MemtableLimit /\ state.mem < MaxTables
       THEN FreezeMemtable
       ELSE UNCHANGED storeVars
    /\ Goto(c, "publishing")
    /\ UNCHANGED <<mvccVars, txnVars, stepVars, errors, log>>

\* A write returns to its caller: commit goes on or ends, a plain write ends.
ReturnFromWrite(c, ok) ==
    /\ writeLock' = NoClient
    /\ pending' = [pending EXCEPT ![c] = {}]
    /\ IF c \in open /\ Serializable /\ ok
       THEN /\ Goto(c, "recording")
            /\ UNCHANGED <<commitLock, batchTs, local>>
       ELSE /\ Goto(c, IF c \in open THEN "finished" ELSE "idle")
            /\ commitLock' = IF c \in open THEN NoClient ELSE commitLock
            /\ batchTs' = [batchTs EXCEPT ![c] = 0]
            /\ local' = IF c \in open THEN local
                        ELSE [local EXCEPT ![c] = NoBatch]

\* update_commit_ts, the last statement of write_batch_inner.
Publish(c) ==
    /\ pc[c] = "publishing"
    /\ ts' = batchTs[c]
    /\ log' = [log EXCEPT ![batchTs[c]] = local[c]]
    /\ ReturnFromWrite(c, TRUE)
    /\ UNCHANGED <<readers, committedTxns, storeVars, open, readTs, readSet,
                   seen, target, snapshot, errors>>

\* The append to the write-ahead log or the freeze fails: `?` returns before
\* update_commit_ts, and what was inserted into the memtable stays there.
FailWrite(c) ==
    /\ pc[c] = "freezing"
    /\ errors < MaxWriteErrors
    /\ errors' = errors + 1
    /\ ReturnFromWrite(c, FALSE)
    /\ UNCHANGED <<ts, readers, committedTxns, storeVars, open, readTs, readSet,
                   seen, target, snapshot, log>>

-----------------------------------------------------------------------------
(* Background work on the engine state.                                    *)

\* force_flush freezes a memtable that is not empty.  It waits for the state
\* read guard that a writer holds during put_batch.
ForceFreeze ==
    /\ \A c \in Client : pc[c] # "writing"
    /\ tables[state.mem] # {}
    /\ state.mem < MaxTables
    /\ FreezeMemtable
    /\ UNCHANGED <<mvccVars, pc, txnVars, stepVars, errors, log>>

\* force_flush_next_imm_memtable: the oldest immutable memtable becomes an SST.
Flush ==
    /\ state.oldest < state.mem
    /\ state' = [state EXCEPT !.oldest = @ + 1,
                              !.sst = @ \cup tables[state.oldest]]
    /\ UNCHANGED <<mvccVars, tables, compaction, pc, txnVars, stepVars, errors, log>>

\* force_full_compaction clones the state and picks every SST.
CompactStart ==
    /\ compaction.pc = "idle"
    /\ state.sst # {}
    /\ compaction' = [pc |-> "started", input |-> state.sst, output |-> {}]
    /\ UNCHANGED <<mvccVars, tables, state, pc, txnVars, stepVars, errors, log>>

\* compact_generate_sst_from_iter reads the watermark and merges.  When nothing
\* is kept, the builder of the last SST is empty and its build panics.
CompactMerge ==
    /\ compaction.pc = "started"
    /\ LET kept == Compacted(compaction.input, Watermark)
       IN  compaction' = IF kept = {} THEN Idle
                         ELSE [pc |-> "merged", input |-> compaction.input,
                               output |-> kept]
    /\ UNCHANGED <<mvccVars, tables, state, pc, txnVars, stepVars, errors, log>>

\* Under state_lock: the outputs replace the inputs; SSTs flushed meanwhile stay.
CompactInstall ==
    /\ compaction.pc = "merged"
    /\ state' = [state EXCEPT !.sst = (@ \ compaction.input) \cup compaction.output]
    /\ compaction' = Idle
    /\ UNCHANGED <<mvccVars, tables, pc, txnVars, stepVars, errors, log>>

-----------------------------------------------------------------------------
TxnStep(c) ==
    \/ NewTxn(c)
    \/ \E k \in Key, v \in Value : Put(c, k, v)
    \/ \E k \in Key : Delete(c, k)
    \/ \E k \in Key : GetLocal(c, k)
    \/ \E k \in Key : GetStart(c, k)
    \/ GetFinish(c)
    \/ Drop(c)
    \/ Commit(c)
    \/ Validate(c)
    \/ Record(c)

WriteStep(c) ==
    \/ WriteBatch(c)
    \/ StartBatch(c)
    \/ \E k \in Key : PutEntry(c, k)
    \/ TryFreeze(c)
    \/ Publish(c)
    \/ FailWrite(c)

EngineStep ==
    \/ ForceFreeze
    \/ Flush
    \/ CompactStart
    \/ CompactMerge
    \/ CompactInstall

Next ==
    \/ \E c \in Client : TxnStep(c) \/ WriteStep(c)
    \/ EngineStep

Spec == Init /\ [][Next]_vars

\* A thread that runs keeps running, and a lock that is released again and
\* again is eventually given to a waiting thread (parking_lot's mutex is fair
\* in the long run): strong fairness where a lock is awaited.
Fairness ==
    \A c \in Client :
        /\ SF_vars(Validate(c))
        /\ SF_vars(StartBatch(c))
        /\ WF_vars(\E k \in Key : PutEntry(c, k))
        /\ WF_vars(TryFreeze(c))
        /\ WF_vars(Publish(c))
        /\ WF_vars(Record(c))

FairSpec == Spec /\ Fairness

-----------------------------------------------------------------------------
(* Properties.                                                             *)

TypeOK ==
    /\ ts \in Ts
    /\ readers \in [Ts -> Nat]
    /\ writeLock \in Client \cup {NoClient}
    /\ commitLock \in Client \cup {NoClient}
    /\ committedTxns \subseteq [ts : 1..MaxTs, hashes : SUBSET HashVal]
    /\ tables \in [TableId -> SUBSET Version]
    /\ state \in State
    /\ compaction \in [pc : {"idle", "started", "merged"},
                       input : SUBSET Version, output : SUBSET Version]
    /\ pc \in [Client -> {"idle", "active", "reading", "locking", "batching",
                          "writing", "freezing", "publishing", "recording",
                          "finished"}]
    /\ open \subseteq Client
    /\ readTs \in [Client -> Ts]
    /\ readSet \in [Client -> SUBSET HashVal]
    /\ local \in [Client -> Batch]
    /\ batchTs \in [Client -> Ts]
    /\ pending \in [Client -> SUBSET Key]
    /\ target \in [Client -> SUBSET Key]
    /\ snapshot \in [Client -> State]
    /\ seen \in [Client -> [Key -> Value \cup {Empty, NotRead}]]
    /\ errors \in 0..MaxWriteErrors
    /\ log \in [1..MaxTs -> Batch]

\* The value of k once the first t batches have been applied in order.
Committed(k, t) ==
    LET writers == {u \in 1..t : log[u][k] # NoWrite}
    IN  IF writers = {} THEN Empty ELSE log[Max(writers)][k]

(***************************************************************************)
(* Every open transaction, and every one that could begin now, reads from  *)
(* the engine's current state exactly the batches published up to its      *)
(* timestamp, and so does a get that still works on an older clone of the  *)
(* state: whatever is half inserted, frozen, flushed or compacted away,    *)
(* get_with_ts returns the snapshot (lsm_storage.rs get_with_ts,           *)
(* compact.rs compact_generate_sst_from_iter, mvcc.rs watermark).          *)
(***************************************************************************)
SnapshotReads ==
    \A k \in Key :
        /\ \A t \in {readTs[c] : c \in open} \cup {ts} :
              Visible(Versions(state), k, t) = Committed(k, t)
        /\ \A c \in Client : pc[c] = "reading" =>
              Visible(Versions(snapshot[c]), k, readTs[c]) = Committed(k, readTs[c])

(***************************************************************************)
(* What a new transaction would read was published by a commit or a write  *)
(* that returned Ok: a batch that is being written, or whose write failed, *)
(* shows in nobody's reads (lsm_storage.rs write_batch_inner).             *)
(***************************************************************************)
OnlyCommittedVisible ==
    \A k \in Key : Visible(Versions(state), k, ts) = Committed(k, ts)

(***************************************************************************)
(* Serializable mode: from validation to publication, everything a writing *)
(* transaction has read with get is still the current value, so it could   *)
(* have run alone at its commit timestamp (txn.rs commit: commit_lock,     *)
(* the range over committed_txns, and the removal below the watermark).    *)
(***************************************************************************)
Serializability ==
    Serializable =>
        \A c \in open :
            /\ pc[c] \in {"batching", "writing", "freezing", "publishing"}
            /\ WrittenBy(local[c]) # {}
            => \A k \in Key : seen[c][k] # NotRead => seen[c][k] = Committed(k, ts)

(***************************************************************************)
(* The validation table still holds the write set of every batch that an   *)
(* open transaction may have to be validated against; the only one missing *)
(* is the batch just published, whose writer still holds commit_lock       *)
(* (txn.rs commit, the while loop that removes entries).                   *)
(***************************************************************************)
ValidationComplete ==
    Serializable =>
        \A c \in open : \A u \in readTs[c] + 1..ts :
            \/ \E e \in committedTxns :
                  e.ts = u /\ e.hashes = Hashes(WrittenBy(log[u]))
            \/ \E d \in open : /\ pc[d] = "recording"
                               /\ batchTs[d] = u
                               /\ local[d] = log[u]

(***************************************************************************)
(* Versions above the latest commit timestamp belong to the one writer     *)
(* that holds write_lock; nobody else's timestamp can be taken twice       *)
(* (lsm_storage.rs write_batch_inner).                                     *)
(***************************************************************************)
UnpublishedVersionsOwned ==
    MaxWriteErrors = 0 =>
        \A i \in TableId : \A v \in tables[i] :
            v.ts > ts => \E c \in Client : /\ writeLock = c
                                           /\ v.ts = batchTs[c]
                                           /\ v.val = local[c][v.key]

(***************************************************************************)
(* commit returns, with or without a conflict: nobody waits for commit_lock*)
(* or write_lock forever (txn.rs commit, lsm_storage.rs write_batch_inner).*)
(***************************************************************************)
CommitReturns == \A c \in Client : pc[c] = "locking" ~> pc[c] = "finished"

(***************************************************************************)
(* The transaction layer implements the log of atomic batches of           *)
(* SnapshotStore: a transaction commits at Publish, aborts when Validate   *)
(* finds a conflict, and reads at GetFinish.                               *)
(***************************************************************************)
Status ==
    [c \in Client |-> IF c \notin open THEN "none"
                      ELSE IF pc[c] \in {"recording", "finished"} THEN "done"
                      ELSE "open"]

Store == INSTANCE SnapshotStore WITH
            latest <- ts,
            status <- Status,
            view   <- readTs,
            local  <- [c \in Client |-> IF c \in open THEN local[c] ELSE NoBatch]

ImplementsSnapshotStore == Store!Spec

=============================================================================
