----------------------------- MODULE Durability -----------------------------
(***************************************************************************)
(* The persistent side of LsmStorageInner: write-ahead logs, SST files,    *)
(* the manifest, freezing, flushing, compaction, sync, close, and open on  *)
(* what a crash left of the directory.                                     *)
(*                                                                         *)
(* freeze, flush and the installation of a compaction hold state_lock from *)
(* their first step to their last, so one record (lock) says which of them *)
(* runs and how far it is; writers, sync, the merging of a compaction and  *)
(* the removal of its inputs run beside it.  A batch is its commit         *)
(* timestamp, a memtable and its log, and an SST, are sets of batches, and *)
(* every batch writes a key of its own, so compaction drops none.  The     *)
(* manifest is what replaying its records yields: records are only         *)
(* appended and every append is synced.                                    *)
(***************************************************************************)
EXTENDS Integers, FiniteSets, Sequences, SequencesExt

CONSTANTS
    Settings,       \* the options and faults a run considers, each a Setting
    Trigger,        \* SimpleLeveledCompactionOptions::level0_file_num_compaction_trigger
    MemtableLimit,  \* LsmStorageOptions::target_sst_size, in batches
    UserFlush,      \* a user calls force_flush beside the writers
    MaxBatches,     \* bound: the largest commit timestamp
    MaxId           \* bound: the largest memtable or SST id

FreezePositions  == {"freeze.created", "freeze.swapped", "freeze.synced", "freeze.recorded"}
FlushPositions   == {"flush.built", "flush.installed", "flush.wal_removed", "flush.recorded"}
CompactPositions == {"compact.installed", "compact.dir_synced"}
OpenPositions    == {"open.fresh", "open.created", "open.recorded"}
Positions == {"free"} \cup FreezePositions \cup FlushPositions
                      \cup CompactPositions \cup OpenPositions

\* wal: LsmStorageOptions::enable_wal.  crash: "kill" if the process stops, "power"
\* if the machine does.  torn: a crash may leave half a batch at the end of a log.
\* crashAt: the positions of state_lock's holder at which a crash may come; syncAt:
\* those at which sync may be called.  crashes: bound on the number of crashes.
Setting == [wal : BOOLEAN, crash : {"kill", "power"}, torn : BOOLEAN,
            crashAt : SUBSET Positions, syncAt : SUBSET Positions, crashes : Nat]

ASSUME DurabilityAssumption ==
    /\ Settings \subseteq Setting
    /\ Trigger \in Nat \ {0}
    /\ MemtableLimit \in Nat \ {0}
    /\ UserFlush \in BOOLEAN
    /\ MaxBatches \in Nat
    /\ MaxId \in Nat \ {0}

VARIABLES
    files,       \* names in the directory
    durable,     \* names in the directory as last synced
    manifest,    \* what replaying the manifest file yields
    data,        \* batches in each memtable, and appended to its log
    written,     \* the part of each log handed to the system: it outlives the process
    synced,      \* the part of each log on the disk: it outlives the machine
    torn,        \* logs that end with half a batch
    sst,         \* batches in each SST file
    status,      \* "down", "opening", "up", "closing" or "failed" (open gave an error)
    mem,         \* LsmStorageState.memtable
    imm,         \* LsmStorageState.imm_memtables, latest first
    l0,          \* LsmStorageState.l0_sstables, latest first
    l1,          \* LsmStorageState.levels[0]
    nextId,      \* next_sst_id
    ts,          \* the latest commit timestamp
    lock,        \* the holder of state_lock: its position and the id it works on
    writer,      \* the holder of write_lock
    compaction,  \* a compaction outside state_lock
    promised,    \* history: every batch up to this one was covered by a sync or close
    crashes,     \* number of crashes so far
    setting      \* the options and faults of this behaviour

diskVars   == <<files, durable, manifest, data, written, synced, torn, sst>>
levelVars  == <<imm, l0, l1>>
memoryVars == <<status, mem, levelVars, nextId, ts>>
threadVars == <<lock, writer, compaction>>
vars == <<diskVars, memoryVars, threadVars, promised, crashes, setting>>

EnableWal == setting.wal

Id == 0..MaxId
Wal(i) == <<"wal", i>>
Sst(i) == <<"sst", i>>
ManifestFile == <<"MANIFEST", 0>>
Ids(s) == {s[i] : i \in 1..Len(s)}

Batches(content, I) == UNION {content[i] : i \in I}

NoLock       == [at |-> "free", id |-> 0]
NoCompaction == [at |-> "idle", l0 |-> <<>>, l1 |-> <<>>, out |-> 0, remove |-> <<>>]

-----------------------------------------------------------------------------
(* The manifest.  ok is FALSE once replaying hits an assertion.            *)

EmptyManifest == [l0 |-> <<>>, l1 |-> <<>>, mems |-> {}, maxId |-> 1, ok |-> TRUE]

\* Mutated form: open makes room for the next id once too often.
AtLeastAndNext(m, i) == i + 1

AtLeast(m, i) == IF i > m.maxId THEN i ELSE m.maxId

\* Mutated form: the id counts, the memtable is not remembered.
RecordNewMemtableForgotten(m, i) == [m EXCEPT !.maxId = AtLeast(m, i)]

RecordNewMemtable(m, i) == [m EXCEPT !.mems = @ \cup {i}, !.maxId = AtLeast(m, i)]

\* Mutated form: the flushed SST goes behind the older ones.
RecordFlushAtEnd(m, i) ==
    [m EXCEPT !.mems = @ \ {i}, !.l0 = @ \o <<i>>, !.maxId = AtLeast(m, i),
              !.ok = @ /\ i \in m.mems]

\* "memtable not exist?" if the id is not that of a recorded memtable.
RecordFlush(m, i) ==
    [m EXCEPT !.mems = @ \ {i}, !.l0 = <<i>> \o @, !.maxId = AtLeast(m, i),
              !.ok = @ /\ i \in m.mems]

\* A finite set of numbers as a sequence, the smallest first.  (SelectSeq and
\* SetToSortSeq would do for TLC; nothing can be proved about them.)
InOrder(S) ==
    [n \in 1..Cardinality(S) |-> CHOOSE i \in S : Cardinality({j \in S : j <= i}) = n]

\* What is left of s, in its order, when the ids in t are taken out.
Without(s, t) ==
    LET kept == InOrder({i \in 1..Len(s) : s[i] \notin Ids(t)})
    IN [n \in DOMAIN kept |-> s[kept[n]]]

\* Mutated form: replaying forgets the SSTs flushed during the compaction.
RecordCompactionClearsL0(m, task) ==
    [m EXCEPT !.l0 = <<>>, !.l1 = <<task.out>>, !.maxId = AtLeast(m, task.out)]

\* apply_compaction_result, with the assertions on the inputs.
RecordCompaction(m, task) ==
    [m EXCEPT !.l0 = Without(@, task.l0), !.l1 = <<task.out>>,
              !.maxId = AtLeast(m, task.out),
              !.ok = @ /\ Ids(task.l0) \subseteq Ids(m.l0) /\ task.l1 = m.l1]

-----------------------------------------------------------------------------
(* What open finds on the disk.                                            *)

RecordedSsts == Ids(manifest.l0) \cup Ids(manifest.l1)

\* LsmStorageInner::open gets through: every record replays, every file it
\* names can be read, and the log of the new memtable can be created.
Recoverable ==
    IF ManifestFile \notin files
    THEN ~(EnableWal /\ Wal(0) \in files)
    ELSE /\ manifest.ok
         /\ \A i \in RecordedSsts : Sst(i) \in files
         /\ EnableWal => /\ \A i \in manifest.mems : Wal(i) \in files /\ i \notin torn
                         /\ Wal(manifest.maxId + 1) \notin files

\* The batches it then loads.
Recovered ==
    IF ManifestFile \notin files \/ ~Recoverable THEN {}
    ELSE Batches(sst, RecordedSsts)
         \cup (IF EnableWal THEN Batches(data, manifest.mems) ELSE {})

\* The batches a reader of the running engine sees, published or not.
Readable == Batches(data, {mem} \cup Ids(imm)) \cup Batches(sst, Ids(l0) \cup Ids(l1))

-----------------------------------------------------------------------------
Init ==
    /\ files = {} /\ durable = {}
    /\ manifest = EmptyManifest
    /\ data = [i \in Id |-> {}] /\ torn = {}
    /\ written = [i \in Id |-> {}] /\ synced = [i \in Id |-> {}]
    /\ sst = [i \in Id |-> {}]
    /\ status = "down"
    /\ mem = 0 /\ imm = <<>> /\ l0 = <<>> /\ l1 = <<>>
    /\ nextId = 1 /\ ts = 0
    /\ lock = NoLock /\ writer = "idle" /\ compaction = NoCompaction
    /\ promised = 0 /\ crashes = 0
    /\ setting \in Settings

\* Every SST and log that open needs is given an id that is left for it.
IdLeft == nextId <= MaxId

Running == status \in {"up", "closing"}

Create(f) == files' = files \cup {f}
SyncDir   == durable' = files

\* Wal::sync: the buffer is flushed and the file synced.
SyncLog(i) ==
    /\ written' = [written EXCEPT ![i] = data[i]]
    /\ synced' = [synced EXCEPT ![i] = data[i]]

At(position) == lock' = [lock EXCEPT !.at = position]

-----------------------------------------------------------------------------
(* Writers, sync.                                                          *)

\* write_batch_inner up to the insertion into memtable and log.
Write ==
    /\ status = "up"
    /\ writer = "idle"
    /\ ts < MaxBatches
    /\ data' = [data EXCEPT ![mem] = @ \cup {ts + 1}]
    /\ writer' = "inserted"
    /\ UNCHANGED <<files, durable, manifest, written, synced, torn, sst, memoryVars, lock,
                   compaction, promised, crashes, setting>>

\* update_commit_ts, after try_freeze had nothing to do or is done.
Publish ==
    /\ status = "up"
    /\ \/ writer = "inserted" /\ (Cardinality(data[mem]) < MemtableLimit \/ ~IdLeft)
       \/ writer = "frozen"
    /\ ts' = ts + 1
    /\ writer' = "idle"
    /\ UNCHANGED <<diskVars, status, mem, levelVars, nextId, lock, compaction,
                   promised, crashes, setting>>

\* LsmStorageInner::sync: the log of the current memtable, nothing else.
Sync ==
    /\ status = "up"
    /\ lock.at \in setting.syncAt
    /\ IF EnableWal
       THEN SyncLog(mem) /\ promised' = ts
       ELSE UNCHANGED <<written, synced, promised>>
    /\ UNCHANGED <<files, durable, manifest, data, torn, sst, memoryVars, threadVars,
                   crashes, setting>>

-----------------------------------------------------------------------------
(* force_freeze_memtable, called by a writer in try_freeze or by           *)
(* force_flush for a memtable that is not empty.                           *)

FreezeCreate ==
    /\ status = "up"
    /\ lock.at = "free"
    /\ IdLeft
    /\ \/ /\ writer = "inserted"
          /\ Cardinality(data[mem]) >= MemtableLimit
          /\ writer' = "freezing"
       \/ /\ UserFlush
          /\ data[mem] # {}
          /\ UNCHANGED writer
    /\ lock' = [at |-> "freeze.created", id |-> nextId]
    /\ nextId' = nextId + 1
    /\ data' = [data EXCEPT ![nextId] = {}]
    /\ written' = [written EXCEPT ![nextId] = {}]
    /\ synced' = [synced EXCEPT ![nextId] = {}]
    /\ IF EnableWal THEN Create(Wal(nextId)) ELSE UNCHANGED files
    /\ UNCHANGED <<durable, manifest, torn, sst, status, mem, levelVars, ts,
                   compaction, promised, crashes, setting>>

\* freeze_memtable_with_memtable: the new memtable is in place ...
FreezeSwap ==
    /\ lock.at = "freeze.created"
    /\ imm' = <<mem>> \o imm
    /\ mem' = lock.id
    /\ At("freeze.swapped")
    /\ UNCHANGED <<diskVars, status, l0, l1, nextId, ts, writer, compaction,
                   promised, crashes, setting>>

\* Mutated form: the log of the frozen memtable is not synced.
FreezeWithoutSync ==
    /\ lock.at = "freeze.swapped"
    /\ At("freeze.synced")
    /\ UNCHANGED <<diskVars, memoryVars, writer, compaction, promised, crashes, setting>>

\* ... before the log of the old one is synced.
FreezeSyncWal ==
    /\ lock.at = "freeze.swapped"
    /\ SyncLog(Head(imm))
    /\ At("freeze.synced")
    /\ UNCHANGED <<files, durable, manifest, data, torn, sst, memoryVars, writer,
                   compaction, promised, crashes, setting>>

FreezeRecord ==
    /\ lock.at = "freeze.synced"
    /\ manifest' = RecordNewMemtable(manifest, lock.id)
    /\ At("freeze.recorded")
    /\ UNCHANGED <<files, durable, data, written, synced, torn, sst, memoryVars, writer,
                   compaction, promised, crashes, setting>>

FreezeSyncDir ==
    /\ lock.at = "freeze.recorded"
    /\ SyncDir
    /\ lock' = NoLock
    /\ writer' = IF writer = "freezing" THEN "frozen" ELSE writer
    /\ UNCHANGED <<files, manifest, data, written, synced, torn, sst, memoryVars,
                   compaction, promised, crashes, setting>>

-----------------------------------------------------------------------------
(* force_flush_next_imm_memtable, called by the flush thread, force_flush  *)
(* and close.                                                              *)

\* The SST file is written and synced.
FlushBuild ==
    /\ Running
    /\ lock.at = "free"
    /\ imm # <<>>
    /\ LET id == Last(imm)
       IN  /\ Create(Sst(id))
           /\ sst' = [sst EXCEPT ![id] = data[id]]
           /\ lock' = [at |-> "flush.built", id |-> id]
    /\ UNCHANGED <<durable, manifest, data, written, synced, torn, memoryVars, writer,
                   compaction, promised, crashes, setting>>

FlushInstall ==
    /\ lock.at = "flush.built"
    /\ imm' = Front(imm)
    /\ l0' = <<lock.id>> \o l0
    /\ At("flush.installed")
    /\ UNCHANGED <<diskVars, status, mem, l1, nextId, ts, writer, compaction,
                   promised, crashes, setting>>

FlushRemoveWal ==
    /\ lock.at = "flush.installed"
    /\ files' = IF EnableWal THEN files \ {Wal(lock.id)} ELSE files
    /\ At("flush.wal_removed")
    /\ UNCHANGED <<durable, manifest, data, written, synced, torn, sst, memoryVars, writer,
                   compaction, promised, crashes, setting>>

FlushRecord ==
    /\ lock.at = "flush.wal_removed"
    /\ manifest' = RecordFlush(manifest, lock.id)
    /\ At("flush.recorded")
    /\ UNCHANGED <<files, durable, data, written, synced, torn, sst, memoryVars, writer,
                   compaction, promised, crashes, setting>>

FlushSyncDir ==
    /\ lock.at = "flush.recorded"
    /\ SyncDir
    /\ lock' = NoLock
    /\ UNCHANGED <<files, manifest, data, written, synced, torn, sst, memoryVars, writer,
                   compaction, promised, crashes, setting>>

-----------------------------------------------------------------------------
(* trigger_compaction of the compaction thread, with the simple controller *)
(* and one level.                                                          *)

CompactStart ==
    /\ status = "up"
    /\ compaction.at = "idle"
    /\ Len(l0) >= Trigger
    /\ compaction' = [NoCompaction EXCEPT !.at = "merging", !.l0 = l0, !.l1 = l1]
    /\ UNCHANGED <<diskVars, memoryVars, lock, writer, promised, crashes, setting>>

\* The output is written and synced under an id of its own.
CompactMerge ==
    /\ compaction.at = "merging"
    /\ IdLeft
    /\ Create(Sst(nextId))
    /\ sst' = [sst EXCEPT ![nextId] =
                 Batches(sst, Ids(compaction.l0) \cup Ids(compaction.l1))]
    /\ nextId' = nextId + 1
    /\ compaction' = [compaction EXCEPT !.at = "merged", !.out = nextId]
    /\ UNCHANGED <<durable, manifest, data, written, synced, torn, status, mem, levelVars, ts,
                   lock, writer, promised, crashes, setting>>

\* Mutated form: the level takes the output, L0 loses whatever it holds now.
CompactInstallClearsL0 ==
    /\ compaction.at = "merged"
    /\ lock.at = "free"
    /\ l0' = <<>>
    /\ l1' = <<compaction.out>>
    /\ lock' = [at |-> "compact.installed", id |-> compaction.out]
    /\ UNCHANGED <<diskVars, status, mem, imm, nextId, ts, writer, compaction,
                   promised, crashes, setting>>

\* state_lock is taken; SSTs flushed to L0 meanwhile stay.
CompactInstall ==
    /\ compaction.at = "merged"
    /\ lock.at = "free"
    /\ l0' = Without(l0, compaction.l0)
    /\ l1' = <<compaction.out>>
    /\ lock' = [at |-> "compact.installed", id |-> compaction.out]
    /\ UNCHANGED <<diskVars, status, mem, imm, nextId, ts, writer, compaction,
                   promised, crashes, setting>>

\* Mutated form: the directory is not synced before the record.
CompactWithoutSync ==
    /\ lock.at = "compact.installed"
    /\ At("compact.dir_synced")
    /\ UNCHANGED <<diskVars, memoryVars, writer, compaction, promised, crashes, setting>>

CompactSyncDir ==
    /\ lock.at = "compact.installed"
    /\ SyncDir
    /\ At("compact.dir_synced")
    /\ UNCHANGED <<files, manifest, data, written, synced, torn, sst, memoryVars, writer,
                   compaction, promised, crashes, setting>>

\* The record is written and state_lock released.
CompactRecord ==
    /\ lock.at = "compact.dir_synced"
    /\ manifest' = RecordCompaction(manifest, compaction)
    /\ lock' = NoLock
    /\ compaction' = [compaction EXCEPT !.at = "removing",
                                        !.remove = compaction.l0 \o compaction.l1]
    /\ UNCHANGED <<files, durable, data, written, synced, torn, sst, memoryVars, writer,
                   promised, crashes, setting>>

\* The inputs are removed one by one and the directory synced at the end.
CompactRemove ==
    /\ compaction.at = "removing"
    /\ IF compaction.remove # <<>>
       THEN /\ files' = files \ {Sst(Head(compaction.remove))}
            /\ compaction' = [compaction EXCEPT !.remove = Tail(@)]
            /\ UNCHANGED durable
       ELSE /\ compaction' = NoCompaction
            /\ SyncDir
            /\ UNCHANGED files
    /\ UNCHANGED <<manifest, data, written, synced, torn, sst, memoryVars, lock, writer,
                   promised, crashes, setting>>

-----------------------------------------------------------------------------
(* close, crash, open.                                                     *)

\* What the process held is gone.
Stopped ==
    /\ status' = "down"
    /\ mem' = 0 /\ imm' = <<>> /\ l0' = <<>> /\ l1' = <<>>
    /\ nextId' = 1 /\ ts' = 0
    /\ lock' = NoLock /\ writer' = "idle" /\ compaction' = NoCompaction

\* Bound: an id is left for the memtable that open creates.
RoomToReopen == manifest.maxId < MaxId

\* MiniLsm::close, called when no writer is left: the threads have ended.  The
\* directory and the memtable's log are synced; without logs the memtable is
\* frozen, with no record of the new one ...
Close ==
    /\ status = "up"
    /\ lock.at = "free" /\ writer = "idle" /\ compaction.at = "idle"
    /\ RoomToReopen
    /\ durable' = files
    /\ IF EnableWal
       THEN /\ SyncLog(mem)
            /\ promised' = ts
            /\ Stopped
            /\ UNCHANGED data
       ELSE /\ status' = "closing"
            /\ IF data[mem] # {}
               THEN /\ IdLeft
                    /\ imm' = <<mem>> \o imm
                    /\ mem' = nextId
                    /\ nextId' = nextId + 1
                    /\ data' = [data EXCEPT ![nextId] = {}]
               ELSE UNCHANGED <<imm, mem, nextId, data>>
            /\ UNCHANGED <<written, synced, l0, l1, ts, threadVars, promised>>
    /\ UNCHANGED <<files, manifest, torn, sst, crashes, setting>>

\* Mutated form: close does not wait until everything is flushed.
CloseEndEarly ==
    /\ status = "closing"
    /\ lock.at = "free"
    /\ SyncDir
    /\ promised' = ts
    /\ Stopped
    /\ UNCHANGED <<files, manifest, data, written, synced, torn, sst, crashes, setting>>

\* ... and every immutable memtable flushed (FlushBuild and so on).
CloseEnd ==
    /\ status = "closing"
    /\ lock.at = "free"
    /\ imm = <<>>
    /\ SyncDir
    /\ promised' = ts
    /\ Stopped
    /\ UNCHANGED <<files, manifest, data, written, synced, torn, sst, crashes, setting>>

\* The process or the machine stops.  Of each log a prefix is left: all that had
\* reached the system or the disk, and perhaps more.  A name whose creation or
\* removal was not synced may be as it was before when the machine stops.
Crash ==
    /\ status \in {"up", "closing", "opening"}
    /\ lock.at \in setting.crashAt
    /\ RoomToReopen
    /\ crashes < setting.crashes
    /\ LET safe    == IF setting.crash = "power" THEN synced ELSE written
           partial == {i \in Id : data[i] # safe[i]}
           moved   == (files \ durable) \cup (durable \ files)
       IN  /\ \E undone \in IF setting.crash = "power" THEN SUBSET moved ELSE {{}} :
                 files' = (files \ undone) \cup (undone \ files)
           /\ \E cut \in [partial -> 0..MaxBatches] :
                 LET left == [i \in Id |-> IF i \in partial /\ EnableWal
                                           THEN {b \in data[i] : b \in safe[i] \/ b <= cut[i]}
                                           ELSE IF EnableWal THEN data[i] ELSE {}]
                 IN  /\ data' = left
                     /\ written' = left
                     /\ synced' = IF setting.crash = "power" THEN left ELSE synced
                     /\ torn' \in IF setting.torn
                                  THEN SUBSET {i \in partial : left[i] # data[i]}
                                  ELSE {{}}
    /\ durable' = IF setting.crash = "power" THEN files' ELSE durable
    /\ Stopped
    /\ crashes' = crashes + 1
    /\ UNCHANGED <<manifest, sst, promised, setting>>

\* open without a MANIFEST: the first memtable has the id 0.
OpenFresh ==
    /\ status = "down"
    /\ ManifestFile \notin files
    /\ IF Recoverable
       THEN /\ status' = "opening"
            /\ IF EnableWal THEN Create(Wal(0)) ELSE UNCHANGED files
            /\ data' = [data EXCEPT ![0] = {}]
            /\ written' = [written EXCEPT ![0] = {}]
            /\ synced' = [synced EXCEPT ![0] = {}]
            /\ lock' = [at |-> "open.fresh", id |-> 0]
       ELSE /\ status' = "failed"
            /\ UNCHANGED <<files, data, written, synced, lock>>
    /\ UNCHANGED <<durable, manifest, torn, sst, mem, levelVars, nextId, ts, writer,
                   compaction, promised, crashes, setting>>

\* Manifest::create.
OpenManifest ==
    /\ lock.at = "open.fresh"
    /\ Create(ManifestFile)
    /\ manifest' = EmptyManifest
    /\ At("open.created")
    /\ UNCHANGED <<durable, data, written, synced, torn, sst, memoryVars, writer,
                   compaction, promised, crashes, setting>>

\* Mutated form: memtables are pushed behind the ones with smaller ids.
RecoveredMemtablesReversed ==
    IF EnableWal THEN InOrder({i \in manifest.mems : data[i] # {}}) ELSE <<>>

\* The memtables open rebuilds, latest first: those that are not empty.
RecoveredMemtables ==
    IF EnableWal THEN Reverse(InOrder({i \in manifest.mems : data[i] # {}})) ELSE <<>>

LatestOf(S) == IF S = {} THEN 0 ELSE CHOOSE b \in S : \A a \in S : a <= b

\* open with a MANIFEST: replay, load the SSTs and the logs, create the log of
\* the new memtable.
OpenRecover ==
    /\ status = "down"
    /\ ManifestFile \in files
    /\ LET id == manifest.maxId + 1
       IN  IF Recoverable
           THEN /\ status' = "opening"
                /\ imm' = RecoveredMemtables
                /\ l0' = manifest.l0
                /\ l1' = manifest.l1
                /\ ts' = LatestOf(Recovered)
                /\ mem' = id
                /\ nextId' = id
                /\ IF EnableWal THEN Create(Wal(id)) ELSE UNCHANGED files
                /\ data' = [data EXCEPT ![id] = {}]
                /\ written' = [written EXCEPT ![id] = {}]
                /\ synced' = [synced EXCEPT ![id] = {}]
                /\ lock' = [at |-> "open.created", id |-> id]
           ELSE /\ status' = "failed"
                /\ UNCHANGED <<files, data, written, synced, mem, levelVars, nextId,
                               ts, lock>>
    /\ UNCHANGED <<durable, manifest, torn, sst, writer, compaction, promised, crashes,
                   setting>>

OpenRecord ==
    /\ lock.at = "open.created"
    /\ manifest' = RecordNewMemtable(manifest, lock.id)
    /\ nextId' = lock.id + 1
    /\ At("open.recorded")
    /\ UNCHANGED <<files, durable, data, written, synced, torn, sst, status, mem,
                   levelVars, ts, writer, compaction, promised, crashes, setting>>

OpenSyncDir ==
    /\ lock.at = "open.recorded"
    /\ SyncDir
    /\ lock' = NoLock
    /\ status' = "up"
    /\ UNCHANGED <<files, manifest, data, written, synced, torn, sst, mem, levelVars,
                   nextId, ts, writer, compaction, promised, crashes, setting>>

-----------------------------------------------------------------------------
WriterStep == Write \/ Publish \/ Sync

FreezeStep ==
    FreezeCreate \/ FreezeSwap \/ FreezeSyncWal \/ FreezeRecord \/ FreezeSyncDir

FlushStep ==
    FlushBuild \/ FlushInstall \/ FlushRemoveWal \/ FlushRecord \/ FlushSyncDir

CompactStep ==
    CompactStart \/ CompactMerge \/ CompactInstall \/ CompactSyncDir \/ CompactRecord
    \/ CompactRemove

RestartStep ==
    \/ Close \/ CloseEnd
    \/ Crash
    \/ OpenFresh \/ OpenManifest \/ OpenRecover \/ OpenRecord \/ OpenSyncDir

Next == WriterStep \/ FreezeStep \/ FlushStep \/ CompactStep \/ RestartStep

Spec == Init /\ [][Next]_vars

-----------------------------------------------------------------------------
(* Properties.                                                             *)

Name == {ManifestFile} \cup {Wal(i) : i \in Id} \cup {Sst(i) : i \in Id}

IdSeq(s) == Len(s) <= MaxId + 1 /\ Ids(s) \subseteq Id

TypeOK ==
    /\ files \subseteq Name /\ durable \subseteq Name
    /\ IdSeq(manifest.l0) /\ IdSeq(manifest.l1)
    /\ manifest.mems \subseteq Id /\ manifest.maxId \in Id /\ manifest.ok \in BOOLEAN
    /\ data \in [Id -> SUBSET (1..MaxBatches)]
    /\ written \in [Id -> SUBSET (1..MaxBatches)]
    /\ synced \in [Id -> SUBSET (1..MaxBatches)]
    /\ torn \subseteq Id
    /\ sst \in [Id -> SUBSET (1..MaxBatches)]
    /\ status \in {"down", "opening", "up", "closing", "failed"}
    /\ mem \in Id /\ IdSeq(imm) /\ IdSeq(l0) /\ IdSeq(l1)
    /\ nextId \in 1..MaxId + 1
    /\ ts \in 0..MaxBatches
    /\ lock.at \in Positions /\ lock.id \in Id
    /\ writer \in {"idle", "inserted", "freezing", "frozen"}
    /\ compaction.at \in {"idle", "merging", "merged", "removing"}
    /\ IdSeq(compaction.l0) /\ IdSeq(compaction.l1) /\ IdSeq(compaction.remove)
    /\ compaction.out \in Id
    /\ promised \in 0..MaxBatches
    /\ crashes \in 0..setting.crashes
    /\ setting \in Settings

(***************************************************************************)
(* open never gives an error on the directory that a clean close, or a     *)
(* crash where the setting allows one, leaves behind (lsm_storage.rs open, *)
(* manifest.rs recover, wal.rs create and recover).                        *)
(***************************************************************************)
RecoverySucceeds == status # "failed"

(***************************************************************************)
(* After a stop, whatever sync or close had promised is loaded again: an   *)
(* open that fails loads nothing (lsm_storage.rs sync, close, open).       *)
(***************************************************************************)
SyncedRecovered == status \in {"down", "failed"} => 1..promised \subseteq Recovered

(***************************************************************************)
(* What sync has promised is on the disk from then on, in the synced part  *)
(* of a log or in an SST (lsm_storage.rs sync, force_freeze_memtable,      *)
(* force_flush_next_imm_memtable).  Logs that open found are the exception *)
(* a setting with process crashes would show: sync does not reach them.    *)
(***************************************************************************)
SyncPersists ==
    EnableWal /\ setting.crash = "power" =>
        1..promised \subseteq Batches(synced, {i \in Id : Wal(i) \in files})
                              \cup Batches(sst, {i \in Id : Sst(i) \in files})

(***************************************************************************)
(* While the engine runs it holds every batch up to the commit timestamp   *)
(* and none beyond but the one being written: no freeze, flush, compaction *)
(* or recovery loses a batch, leaves a gap, or brings back a timestamp     *)
(* that is going to be used again (lsm_storage.rs, compact.rs).            *)
(***************************************************************************)
NothingLost ==
    status \in {"up", "closing"} =>
        Readable = 1..(IF writer = "idle" THEN ts ELSE ts + 1)

(***************************************************************************)
(* Whenever nobody holds state_lock, replaying the manifest yields the     *)
(* levels in memory, in the same order, and the memtables in memory up to  *)
(* empty ones (manifest.rs records against the assignments to state).      *)
(***************************************************************************)
ManifestMatches ==
    status = "up" /\ lock.at = "free" =>
        /\ manifest.l0 = l0
        /\ manifest.l1 = l1
        /\ manifest.ok
        /\ EnableWal => {mem} \cup {i \in manifest.mems : data[i] # {}} = {mem} \cup Ids(imm)
        /\ mem \in manifest.mems
        /\ \A i \in manifest.mems \cup RecordedSsts : i < nextId

(***************************************************************************)
(* A newer memtable or SST comes before an older one, in memory and as     *)
(* recovered: what is behind holds only earlier batches (lsm_storage.rs    *)
(* imm_memtables "from latest to earliest", l0_sstables likewise).         *)
(***************************************************************************)
LatestFirst ==
    status \in {"up", "closing"} =>
        LET sources == <<data[mem]>> \o [i \in 1..Len(imm) |-> data[imm[i]]]
                       \o [i \in 1..Len(l0) |-> sst[l0[i]]]
                       \o [i \in 1..Len(l1) |-> sst[l1[i]]]
        IN  \A i, j \in 1..Len(sources) : i < j =>
               \A a \in sources[i], b \in sources[j] : a > b

(***************************************************************************)
(* Whatever the manifest records as the output of a compaction was listed  *)
(* in the directory when it was last synced and is still there: the sync   *)
(* comes before the record, and the removal of the inputs never takes a    *)
(* recorded output (compact.rs trigger_compaction).                        *)
(***************************************************************************)
CompactedFilesDurable == \A i \in Ids(manifest.l1) : Sst(i) \in durable \cap files

(***************************************************************************)
(* The engine implements the log of batches of DurableLog: freezing,       *)
(* flushing, compaction and recovery do not show, a stop loses only a      *)
(* suffix, and never what was promised.                                    *)
(***************************************************************************)
Log == INSTANCE DurableLog WITH
           contents <- IF status \in {"opening", "up", "closing"} THEN Readable
                       ELSE Recovered

ImplementsDurableLog == Log!Spec

=============================================================================
