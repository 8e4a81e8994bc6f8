---------------------- MODULE DurabilityRecoveryProofs ----------------------
(***************************************************************************)
(* Proofs about Durability for the settings in which open can succeed:     *)
(* that it does, that it finds all that sync and close promised, and that  *)
(* the engine therefore implements DurableLog.                             *)
(*                                                                         *)
(* Whether a crash loses data depends on where it comes.  The windows      *)
(* below are those in which the code leaves a directory that open cannot   *)
(* read; Survivable says that a setting has no crash in them.  Two of the  *)
(* windows are findings of the runs DurabilityFlushWindow and              *)
(* DurabilityTornLog.  The invariant relates the names in the directory,   *)
(* and the names in the directory as last synced, to what the manifest     *)
(* records, and what is promised to what is safe.                          *)
(***************************************************************************)
EXTENDS DurabilityProofs

\* With logs: a crash while a log exists that the manifest does not record (open
\* refuses to create it again), or while the manifest records one that is removed.
LogWindows == {"freeze.created", "freeze.swapped", "freeze.synced", "flush.wal_removed",
               "open.fresh", "open.created"}

\* With logs and machine crashes: the record of a new log is on the disk, its
\* name in the directory is not.
LogPowerWindows == {"freeze.recorded", "open.recorded"}

\* With machine crashes: the same of a flushed SST.
TablePowerWindows == {"flush.recorded"}

Survivable(s) ==
    /\ s.wal => s.crashAt \cap LogWindows = {} /\ ~s.torn
    /\ s.crash = "power" => s.crashAt \cap TablePowerWindows = {}
    /\ s.wal /\ s.crash = "power" => s.crashAt \cap LogPowerWindows = {}

\* No sync while the newest frozen log is not synced: sync reaches the current
\* memtable's log alone.
SyncsCovered(s) == "freeze.swapped" \notin s.syncAt

Power == setting.crash = "power"

\* Positions at which a log exists that is not recorded yet.
Unrecorded == {"freeze.created", "freeze.swapped", "freeze.synced", "open.created"}

\* The manifest is in the directory, and stays there once the first open is done;
\* without it there is no log.
ManifestThere ==
    /\ Alive /\ lock.at # "open.fresh" => ManifestFile \in files
    /\ status \in {"up", "closing"} => ManifestFile \in durable
    /\ EnableWal /\ ManifestFile \notin files =>
          \A i \in Id : Wal(i) \in files \cup durable => i = 0 /\ lock.at = "open.fresh"
    /\ Power /\ status = "down" => durable = files

\* The logs the manifest records are in the directory.
LogsListed ==
    EnableWal /\ Alive /\ lock.at # "open.fresh" =>
        \A i \in manifest.mems :
            \/ lock.at = "flush.wal_removed" /\ i = lock.id
            \/ /\ Wal(i) \in files
               /\ \/ Wal(i) \in durable \/ status = "opening"
                  \/ lock.at = "freeze.recorded" /\ i = mem

\* So are those of the current memtable and of the next.
LogsOpen ==
    EnableWal =>
        /\ Alive => Wal(mem) \in files
        /\ lock.at = "freeze.created" => Wal(lock.id) \in files

\* No log has a number that open will give out.
LogsNumbered ==
    EnableWal =>
        /\ torn = {}
        /\ \A i \in Id : Wal(i) \in files \cup durable =>
              i <= manifest.maxId \/ (lock.at \in Unrecorded /\ i = lock.id)

\* The tables the manifest records are in the directory.
TablesListed ==
    Alive /\ lock.at # "open.fresh" =>
        /\ \A i \in RecordedSsts :
              /\ Sst(i) \in files
              /\ Power => Sst(i) \in durable \/ (lock.at = "flush.recorded" /\ i = lock.id)
        /\ lock.at \in FlushPositions => Sst(lock.id) \in files

\* What a compaction is going to remove is not in use, nor will be.
Removing ==
    /\ compaction.at # "idle" =>
          \A i \in Ids(compaction.l0) \cup Ids(compaction.l1) \cup Ids(compaction.remove) :
             i < nextId
    /\ compaction.at = "removing" =>
          /\ Ids(compaction.remove) \cap (Listed \cup {mem} \cup manifest.mems \cup RecordedSsts)
                = {}
          /\ lock.at = "freeze.created" => lock.id \notin Ids(compaction.remove)

\* open gets through.
DiskReady ==
    /\ status # "failed"
    /\ status = "down" => Recoverable

DirInv == ManifestThere /\ LogsListed /\ LogsOpen /\ LogsNumbered /\ TablesListed
             /\ Removing /\ DiskReady

\* What is promised has been acknowledged, and nothing is before the first open.
PromiseBounded ==
    /\ Alive => promised <= ts
    /\ promised > 0 => ManifestFile \in durable

\* What is promised of the current memtable is in the safe part of its log.
PromiseSafe ==
    Alive /\ EnableWal => \A b \in data[mem] : b <= promised => b \in Safe[mem]

\* Without logs, what is promised is in the recorded tables; so it is while the
\* engine is down, whose logs are all safe.
PromiseRecorded ==
    /\ ~EnableWal \/ status = "down" => 1..promised \subseteq RecordedBatches
    /\ status = "closing" => data[mem] = {}

RInv == DirInv /\ PromiseBounded /\ PromiseSafe /\ PromiseRecorded

-----------------------------------------------------------------------------
(* Names and positions.                                                    *)

\* Names of different kinds, or of different numbers, differ.
LEMMA NamesDiffer ==
    /\ \A i, j : Sst(i) # Wal(j) /\ (Sst(i) = Sst(j) => i = j) /\ (Wal(i) = Wal(j) => i = j)
    /\ \A i : ManifestFile # Wal(i) /\ ManifestFile # Sst(i)
BY DEF Sst, Wal, ManifestFile

\* An engine that is down does nothing but open.
LEMMA DownSteps ==
    ASSUME IInv, Next, ~Alive
    PROVE  status = "down" /\ (OpenFresh \/ OpenRecover)
<1>1. /\ lock.at = "free" /\ compaction.at = "idle" /\ imm = <<>>
      /\ status \notin {"opening", "up", "closing"}
  BY DEF IInv, Phases, Alive, NoLock, NoCompaction
<1>2. ~WriterStep
  BY <1>1 DEF WriterStep, Write, Publish, Sync
<1>3. ~FreezeStep
  BY <1>1 DEF FreezeStep, FreezeCreate, FreezeSwap, FreezeSyncWal, FreezeRecord, FreezeSyncDir
<1>4. ~FlushStep
  BY <1>1 DEF FlushStep, FlushBuild, FlushInstall, FlushRemoveWal, FlushRecord, FlushSyncDir
<1>5. ~CompactStep
  BY <1>1 DEF CompactStep, CompactStart, CompactMerge, CompactInstall, CompactSyncDir,
              CompactRecord, CompactRemove
<1>6. OpenFresh \/ OpenRecover
  BY <1>1, <1>2, <1>3, <1>4, <1>5 DEF Next, RestartStep, Close, CloseEnd, Crash, OpenManifest,
     OpenRecord, OpenSyncDir
<1> QED BY <1>6 DEF OpenFresh, OpenRecover

\* The holder of state_lock, or of its equivalent in open, goes on.
Holder ==
    \/ FreezeSwap \/ FreezeSyncWal \/ FreezeRecord \/ FreezeSyncDir
    \/ FlushInstall \/ FlushRemoveWal \/ FlushRecord \/ FlushSyncDir
    \/ CompactSyncDir \/ CompactRecord
    \/ OpenManifest \/ OpenRecord \/ OpenSyncDir

\* Only its holder moves state_lock once it is taken.
LEMMA LockMoves ==
    ASSUME IInv, Next, Alive, ~Crash
    PROVE  lock' = lock \/ lock.at = "free" \/ Holder
<1> USE DEF vars, diskVars, memoryVars, levelVars, threadVars
<1>1. CASE WriterStep
  BY <1>1 DEF WriterStep, Write, Publish, Sync
<1>2. CASE FreezeStep
  BY <1>2 DEF FreezeStep, FreezeCreate, Holder
<1>3. CASE FlushStep
  BY <1>3 DEF FlushStep, FlushBuild, Holder
<1>4. CASE CompactStep
  BY <1>4 DEF CompactStep, CompactStart, CompactMerge, CompactInstall, CompactRemove, Holder
<1>5. CASE RestartStep
  BY <1>5 DEF RestartStep, Close, CloseEnd, OpenFresh, OpenRecover, Holder, Alive
<1> QED BY <1>1, <1>2, <1>3, <1>4, <1>5 DEF Next

\* The steps that change the status.
LEMMA StatusMoves ==
    ASSUME Next
    PROVE  \/ status' = status
           \/ Crash \/ Close \/ CloseEnd \/ OpenFresh \/ OpenRecover \/ OpenSyncDir
<1> USE DEF vars, diskVars, memoryVars, levelVars, threadVars
<1>1. CASE WriterStep
  BY <1>1 DEF WriterStep, Write, Publish, Sync
<1>2. CASE FreezeStep
  BY <1>2 DEF FreezeStep, FreezeCreate, FreezeSwap, FreezeSyncWal, FreezeRecord, FreezeSyncDir
<1>3. CASE FlushStep
  BY <1>3 DEF FlushStep, FlushBuild, FlushInstall, FlushRemoveWal, FlushRecord, FlushSyncDir
<1>4. CASE CompactStep
  BY <1>4 DEF CompactStep, CompactStart, CompactMerge, CompactInstall, CompactSyncDir,
              CompactRecord, CompactRemove
<1>5. CASE RestartStep
  BY <1>5 DEF RestartStep, OpenManifest, OpenRecord
<1> QED BY <1>1, <1>2, <1>3, <1>4, <1>5 DEF Next

\* Which names each step adds to the directory and takes from it.
LEMMA FilesKept ==
    ASSUME IInv, Next, ~Crash
    PROVE  /\ durable' = durable \/ (durable' = files /\ files' = files)
           /\ ManifestFile \in files => ManifestFile \in files'
           /\ \A i : Wal(i) \in files => Wal(i) \in files' \/ (FlushRemoveWal /\ i = lock.id)
           /\ \A i : Sst(i) \in files =>
                 Sst(i) \in files' \/ (CompactRemove /\ i \in Ids(compaction.remove))
           /\ ManifestFile \in files' => ManifestFile \in files \/ OpenManifest
           /\ \A i : Wal(i) \in files' =>
                 \/ Wal(i) \in files
                 \/ FreezeCreate /\ i = nextId
                 \/ OpenFresh /\ i = 0 /\ Recoverable
                 \/ OpenRecover /\ i = manifest.maxId + 1 /\ Recoverable
<1> USE DEF vars, diskVars, memoryVars, levelVars, threadVars, Create, SyncDir
<1>n. /\ \A i, j : /\ Sst(i) # Wal(j) /\ (Sst(i) = Sst(j) => i = j)
                   /\ (Wal(i) = Wal(j) => i = j)
      /\ \A i : ManifestFile # Wal(i) /\ ManifestFile # Sst(i)
  BY NamesDiffer
<1>f. ASSUME files' = files, durable' \in {durable, files}
      PROVE  /\ durable' = durable \/ (durable' = files /\ files' = files)
             /\ \A x : x \in files <=> x \in files'
  BY <1>f
<1>1. CASE WriterStep
  BY <1>1, <1>f DEF WriterStep, Write, Publish, Sync
<1>2. CASE FreezeStep
  <2>1. CASE FreezeCreate
    BY <2>1, <1>n DEF FreezeCreate
  <2>2. CASE ~FreezeCreate
    BY <1>2, <2>2, <1>f DEF FreezeStep, FreezeSwap, FreezeSyncWal, FreezeRecord, FreezeSyncDir
  <2> QED BY <2>1, <2>2
<1>3. CASE FlushStep
  <2>1. CASE FlushBuild
    BY <2>1, <1>n DEF FlushBuild
  <2>2. CASE FlushRemoveWal
    <3>1. /\ durable' = durable
          /\ files' = files \ {Wal(lock.id)} \/ files' = files
      BY <2>2 DEF FlushRemoveWal
    <3> QED BY <2>2, <3>1, <1>n
  <2>3. CASE FlushInstall \/ FlushRecord \/ FlushSyncDir
    BY <2>3, <1>f DEF FlushInstall, FlushRecord, FlushSyncDir
  <2> QED BY <1>3, <2>1, <2>2, <2>3 DEF FlushStep
<1>4. CASE CompactStep
  <2>1. CASE CompactMerge
    BY <2>1, <1>n DEF CompactMerge
  <2>2. CASE CompactRemove
    <3>1. CASE compaction.remove # <<>>
      <4>1. /\ files' = files \ {Sst(Head(compaction.remove))} /\ durable' = durable
        BY <2>2, <3>1 DEF CompactRemove
      <4>2. Head(compaction.remove) \in Ids(compaction.remove)
        <5>1. compaction.remove \in Seq(Id)
          BY Fields DEF IInv
        <5> QED BY <3>1, <5>1 DEF Ids
      <4> QED BY <2>2, <4>1, <4>2, <1>n
    <3>2. CASE compaction.remove = <<>>
      BY <2>2, <3>2, <1>f DEF CompactRemove
    <3> QED BY <3>1, <3>2
  <2>3. CASE ~CompactMerge /\ ~CompactRemove
    BY <1>4, <2>3, <1>f DEF CompactStep, CompactStart, CompactInstall, CompactSyncDir,
       CompactRecord
  <2> QED BY <2>1, <2>2, <2>3
<1>5. CASE RestartStep
  <2>1. CASE Close \/ CloseEnd
    BY <2>1, <1>f DEF Close, CloseEnd
  <2>2. CASE OpenFresh
    <3>1. /\ durable' = durable
          /\ files' = files \/ (files' = files \cup {Wal(0)} /\ Recoverable)
      BY <2>2 DEF OpenFresh
    <3> QED BY <2>2, <3>1, <1>n
  <2>3. CASE OpenManifest
    BY <2>3, <1>n DEF OpenManifest
  <2>4. CASE OpenRecover
    <3>1. /\ durable' = durable
          /\ files' = files \/ (files' = files \cup {Wal(manifest.maxId + 1)} /\ Recoverable)
      BY <2>4 DEF OpenRecover
    <3> QED BY <2>4, <3>1, <1>n
  <2>5. CASE OpenRecord \/ OpenSyncDir
    BY <2>5, <1>f DEF OpenRecord, OpenSyncDir
  <2> QED BY <1>5, <2>1, <2>2, <2>3, <2>4, <2>5 DEF RestartStep
<1> QED BY <1>1, <1>2, <1>3, <1>4, <1>5 DEF Next

\* What a crash does to the directory.
LEMMA CrashDirectory ==
    ASSUME IInv, Crash
    PROVE  /\ lock.at \in setting.crashAt
           /\ \A x : x \in files /\ x \in durable => x \in files'
           /\ \A x : x \in files' => x \in files \/ x \in durable
           /\ ~Power => files' = files /\ durable' = durable
           /\ Power => durable' = files'
           /\ ~setting.torn => torn' = {}
           /\ status' = "down" /\ lock' = NoLock /\ compaction' = NoCompaction
           /\ mem' = 0 /\ imm' = <<>> /\ l0' = <<>> /\ l1' = <<>>
           /\ UNCHANGED <<manifest, sst, promised, setting>>
<1>1. /\ lock.at \in setting.crashAt
      /\ Power => durable' = files'
      /\ ~Power => durable' = durable
      /\ ~setting.torn => torn' = {}
      /\ status' = "down" /\ lock' = NoLock /\ compaction' = NoCompaction
      /\ mem' = 0 /\ imm' = <<>> /\ l0' = <<>> /\ l1' = <<>>
      /\ UNCHANGED <<manifest, sst, promised, setting>>
  BY DEF Crash, Stopped, Power
<1>2. PICK undone \in IF Power THEN SUBSET ((files \ durable) \cup (durable \ files)) ELSE {{}} :
         files' = (files \ undone) \cup (undone \ files)
  BY DEF Crash, Power
<1> QED BY <1>1, <1>2

\* The numbers the manifest knows do not go down once it is there.
LEMMA MaxIdGrows ==
    ASSUME IInv, Next, ~OpenManifest
    PROVE  manifest'.maxId \in Nat /\ manifest.maxId \in Nat /\ manifest.maxId <= manifest'.maxId
<1>1. Typed
  BY DEF IInv
<1>2. manifest.maxId \in Nat /\ mem \in Nat /\ compaction.out \in Nat
  <2>1. /\ manifest.maxId \in Id /\ mem \in Id /\ compaction.out \in Id
        /\ Id = 0..MaxId /\ MaxId \in Nat
    BY <1>1, Fields
  <2> QED BY <2>1
<1>3. CASE FreezeRecord \/ OpenRecord
  BY <1>2, <1>3, MemtableRecorded DEF AtLeast
<1>4. CASE FlushRecord
  BY <1>2, <1>4, FlushRecorded
<1>5. CASE CompactRecord
  BY <1>2, <1>5, CompactionRecorded DEF AtLeast
<1>6. CASE ~FreezeRecord /\ ~OpenRecord /\ ~FlushRecord /\ ~CompactRecord
  BY <1>2, <1>6, ManifestKept
<1> QED BY <1>3, <1>4, <1>5, <1>6

-----------------------------------------------------------------------------
(* The directory.                                                          *)

\* Once the first open is done, the manifest is in the directory.
LEMMA ManifestThereStep ==
    ASSUME IInv, DirInv, Next, Survivable(setting)
    PROVE  ManifestThere'
<1> USE DEF vars, diskVars, memoryVars, levelVars, threadVars
<1>a. /\ ManifestThere /\ (ManifestFile \in durable => ManifestFile \in files)
      /\ EnableWal' = EnableWal /\ Power' = Power /\ setting' = setting
  BY SettingKept DEF DirInv, IInv, Directory, Power
<1>b. /\ Alive /\ lock.at # "open.fresh" => ManifestFile \in files
      /\ status \in {"up", "closing"} => ManifestFile \in durable
      /\ EnableWal /\ ManifestFile \notin files =>
            \A i \in Id : Wal(i) \in files \cup durable => i = 0 /\ lock.at = "open.fresh"
      /\ Power /\ status = "down" => durable = files
  BY <1>a DEF ManifestThere
<1>c. lock \in Position /\ (status = "opening" <=> lock.at \in OpenPositions)
      /\ (~Alive => lock = NoLock)
  BY DEF IInv, Typed, Phases
<1>1. CASE Crash
  <2>1. /\ status' = "down" /\ ~Alive' /\ (Power => durable' = files')
        /\ (~Power => files' = files /\ durable' = durable)
    BY <1>1, CrashDirectory DEF Alive
  <2>2. ASSUME EnableWal PROVE ManifestFile \in files'
    <3>1. /\ lock.at \notin LogWindows
          /\ Power => lock.at \notin LogPowerWindows
      BY <1>1, <2>2, CrashDirectory DEF Survivable, EnableWal, Power
    <3>2. Alive /\ lock.at # "open.fresh"
      BY <1>1, <3>1, CrashCuts DEF LogWindows
    <3>3. Power => status # "opening"
      BY <1>c, <3>1 DEF OpenPositions, LogWindows, LogPowerWindows
    <3>4. Power => ManifestFile \in durable
      BY <1>b, <3>2, <3>3 DEF Alive
    <3> QED BY <1>1, <1>b, <2>1, <3>2, <3>4, CrashDirectory
  <2> QED BY <1>a, <2>1, <2>2 DEF ManifestThere
<1>2. CASE ~Crash /\ ~Alive
  <2>1. status = "down" /\ (OpenFresh \/ OpenRecover) /\ lock.at = "free"
    BY <1>2, <1>c, DownSteps DEF NoLock
  <2>2. CASE OpenFresh
    <3>1. CASE Recoverable
      <4>1. /\ status' = "opening" /\ lock'.at = "open.fresh" /\ durable' = durable
            /\ ManifestFile \notin files
            /\ EnableWal => files' = files \cup {Wal(0)}
        BY <2>2, <3>1 DEF OpenFresh, Create
      <4>2. EnableWal => \A i \in Id : Wal(i) \in files' \cup durable' => i = 0
        BY <1>b, <2>1, <4>1, NamesDiffer
      <4> QED BY <1>a, <4>1, <4>2 DEF ManifestThere
    <3>2. CASE ~Recoverable
      <4>1. /\ status' = "failed" /\ UNCHANGED <<files, durable, lock>>
        BY <2>2, <3>2 DEF OpenFresh
      <4> QED BY <1>a, <1>b, <4>1 DEF ManifestThere, Alive
    <3> QED BY <3>1, <3>2
  <2>3. CASE OpenRecover
    <3>1. /\ status' \in {"opening", "failed"} /\ ManifestFile \in files
      BY <2>3 DEF OpenRecover
    <3>2. ManifestFile \in files'
      BY <1>2, <3>1, FilesKept
    <3> QED BY <3>1, <3>2 DEF ManifestThere
  <2> QED BY <2>1, <2>2, <2>3
<1>3. CASE ~Crash /\ Alive
  <2>1. /\ durable' = durable \/ (durable' = files /\ files' = files)
        /\ ManifestFile \in files => ManifestFile \in files'
    BY <1>3, FilesKept
  <2>2. ~OpenFresh /\ ~OpenRecover
    BY <1>3 DEF Alive, OpenFresh, OpenRecover
  <2>3. Alive' /\ lock'.at # "open.fresh" => ManifestFile \in files'
    <3>1. CASE lock.at # "open.fresh"
      BY <1>3, <1>b, <2>1, <3>1
    <3>2. CASE lock.at = "open.fresh"
      <4>1. lock' = lock \/ OpenManifest
        BY <1>3, <3>2, LockMoves DEF Holder, FreezeSwap, FreezeSyncWal, FreezeRecord,
           FreezeSyncDir, FlushInstall, FlushRemoveWal, FlushRecord, FlushSyncDir,
           CompactSyncDir, CompactRecord, OpenRecord, OpenSyncDir
      <4>2. OpenManifest => ManifestFile \in files'
        BY DEF OpenManifest, Create
      <4> QED BY <3>2, <4>1, <4>2
    <3> QED BY <3>1, <3>2
  <2>4. status' \in {"up", "closing"} => ManifestFile \in durable'
    <3>1. CASE status \in {"up", "closing"}
      BY <1>a, <1>b, <2>1, <3>1
    <3>2. CASE status \notin {"up", "closing"}
      <4>1. status' \in {"up", "closing"} => OpenSyncDir
        <5>1. Crash \/ Close \/ CloseEnd => status \in {"up", "closing"} \/ Crash
          BY DEF Close, CloseEnd
        <5> QED BY <1>3, <2>2, <3>2, <5>1, StatusMoves
      <4>2. OpenSyncDir => durable' = files /\ ManifestFile \in files
        BY <1>3, <1>b DEF OpenSyncDir, SyncDir
      <4> QED BY <4>1, <4>2
    <3> QED BY <3>1, <3>2
  <2>5. EnableWal /\ ManifestFile \notin files' =>
           \A i \in Id : Wal(i) \in files' \cup durable' => i = 0 /\ lock'.at = "open.fresh"
    <3> SUFFICES ASSUME EnableWal, ManifestFile \notin files', NEW i \in Id,
                        Wal(i) \in files' \cup durable'
                 PROVE  i = 0 /\ lock'.at = "open.fresh"
      OBVIOUS
    <3>1. ManifestFile \notin files /\ lock.at = "open.fresh" /\ status = "opening"
      BY <1>3, <1>b, <1>c, <2>1 DEF OpenPositions
    <3>2. ~FreezeCreate
      BY <3>1 DEF FreezeCreate
    <3>3. Wal(i) \in files \cup durable
      BY <1>3, <2>1, <2>2, <3>2, FilesKept
    <3>4. lock' = lock
      <4>1. ~OpenManifest
        BY DEF OpenManifest, Create
      <4> QED BY <1>3, <3>1, <4>1, LockMoves DEF Holder, FreezeSwap, FreezeSyncWal,
           FreezeRecord, FreezeSyncDir, FlushInstall, FlushRemoveWal, FlushRecord, FlushSyncDir,
           CompactSyncDir, CompactRecord, OpenRecord, OpenSyncDir
    <3> QED BY <1>b, <3>1, <3>3, <3>4
  <2>6. status' = "down" => durable' = files'
    <3>1. status' = "down" => Close \/ CloseEnd
      BY <1>3, <2>2, StatusMoves DEF Alive, OpenSyncDir
    <3>2. Close \/ CloseEnd => durable' = files /\ files' = files
      BY DEF Close, CloseEnd, SyncDir
    <3> QED BY <3>1, <3>2
  <2> QED BY <1>a, <2>3, <2>4, <2>5, <2>6 DEF ManifestThere
<1> QED BY <1>1, <1>2, <1>3

\* The log of the current memtable is never removed, nor that of the next one.
LEMMA LogsOpenStep ==
    ASSUME IInv, DirInv, Next
    PROVE  LogsOpen'
<1> USE DEF vars, diskVars, memoryVars, levelVars, threadVars
<1>a. LogsOpen /\ EnableWal' = EnableWal
  BY SettingKept DEF DirInv
<1>b. /\ lock \in Position /\ lock.id \in Nat /\ mem \in Nat
      /\ ~Alive => mem = 0 /\ lock.at = "free"
      /\ FlushMid => lock.id < mem
  <2>1. Typed /\ (~Alive => mem = 0 /\ lock = NoLock) /\ Id \subseteq Nat
    <3>1. Typed
      BY DEF IInv
    <3>2. Id = 0..MaxId /\ MaxId \in Nat
      BY <3>1, Fields
    <3> QED BY <3>1, <3>2 DEF IInv, Phases
  <2>2. lock \in Position /\ lock.id \in Id /\ mem \in Id
    BY <2>1, Fields DEF Typed
  <2>3. lock.id \in Nat /\ mem \in Nat
    BY <2>1, <2>2
  <2>4. FlushMid => lock.id < mem
    BY DEF IInv, Holding
  <2>5. ~Alive => mem = 0 /\ lock.at = "free"
    BY <2>1 DEF NoLock
  <2> QED BY <2>2, <2>3, <2>4, <2>5
<1> SUFFICES ASSUME EnableWal
             PROVE  /\ Alive' => Wal(mem') \in files'
                    /\ lock'.at = "freeze.created" => Wal(lock'.id) \in files'
  BY <1>a DEF LogsOpen
<1>c. /\ Alive => Wal(mem) \in files
      /\ lock.at = "freeze.created" => Wal(lock.id) \in files
  BY <1>a DEF LogsOpen
<1>1. CASE Crash
  <2>1. ~Alive' /\ lock'.at = "free"
    BY <1>1, CrashDirectory DEF Alive, NoLock
  <2> QED BY <2>1
<1>2. CASE ~Crash /\ ~Alive
  <2>1. OpenFresh \/ OpenRecover
    BY <1>2, DownSteps
  <2>2. CASE OpenFresh
    <3>1. \/ ~Alive' /\ lock' = lock
          \/ lock'.at = "open.fresh" /\ mem' = mem /\ files' = files \cup {Wal(0)}
      BY <1>2, <2>2 DEF OpenFresh, Create, Alive
    <3> QED BY <1>2, <1>b, <3>1
  <2>3. CASE OpenRecover
    <3>1. \/ ~Alive' /\ lock' = lock
          \/ /\ lock'.at = "open.created" /\ mem' = manifest.maxId + 1
             /\ files' = files \cup {Wal(manifest.maxId + 1)}
      BY <1>2, <2>3 DEF OpenRecover, Create, Alive
    <3> QED BY <1>2, <1>b, <3>1
  <2> QED BY <2>1, <2>2, <2>3
<1>3. CASE ~Crash /\ Alive
  <2>1. \A i : Wal(i) \in files => Wal(i) \in files' \/ (FlushRemoveWal /\ i = lock.id)
    BY <1>3, FilesKept
  <2>2. FlushRemoveWal => lock.id # mem /\ lock.at = "flush.installed"
    BY <1>b DEF FlushRemoveWal, FlushMid
  <2>3. Wal(mem) \in files'
    BY <1>3, <1>c, <2>1, <2>2
  <2>4. CASE FreezeSwap
    <3>1. mem' = lock.id /\ lock.at = "freeze.created" /\ lock'.at = "freeze.swapped"
      BY <1>b, <2>4 DEF FreezeSwap, At, Position
    <3> QED BY <1>c, <2>1, <2>2, <3>1
  <2>5. CASE FreezeCreate
    <3>1. files' = files \cup {Wal(nextId)} /\ lock'.id = nextId /\ mem' = mem
      BY <2>5 DEF FreezeCreate, Create
    <3> QED BY <2>3, <3>1
  <2>6. CASE Close \/ CloseEnd
    <3>1. ~Alive' /\ lock'.at = "free"
      BY <2>6 DEF Close, CloseEnd, Stopped, Alive, NoLock, IInv, Phases
    <3> QED BY <3>1
  <2>7. CASE ~FreezeSwap /\ ~FreezeCreate /\ ~Close /\ ~CloseEnd
    <3>1. mem' = mem
      <4>1. CASE WriterStep
        BY <4>1 DEF WriterStep, Write, Publish, Sync
      <4>2. CASE FreezeStep
        BY <2>7, <4>2 DEF FreezeStep, FreezeSyncWal, FreezeRecord, FreezeSyncDir
      <4>3. CASE FlushStep
        BY <4>3 DEF FlushStep, FlushBuild, FlushInstall, FlushRemoveWal, FlushRecord,
           FlushSyncDir
      <4>4. CASE CompactStep
        BY <4>4 DEF CompactStep, CompactStart, CompactMerge, CompactInstall, CompactSyncDir,
           CompactRecord, CompactRemove
      <4>5. CASE RestartStep
        BY <1>3, <2>7, <4>5 DEF RestartStep, OpenManifest, OpenRecord, OpenSyncDir, OpenFresh,
           OpenRecover, Alive
      <4> QED BY <4>1, <4>2, <4>3, <4>4, <4>5 DEF Next
    <3>2. lock'.at = "freeze.created" => lock' = lock
      <4>1. CASE WriterStep
        BY <4>1 DEF WriterStep, Write, Publish, Sync
      <4>2. CASE FreezeStep
        BY <1>b, <2>7, <4>2 DEF FreezeStep, FreezeSyncWal, FreezeRecord, FreezeSyncDir, At, NoLock,
           Position
      <4>3. CASE FlushStep
        BY <1>b, <4>3 DEF FlushStep, FlushBuild, FlushInstall, FlushRemoveWal, FlushRecord,
           FlushSyncDir, At, NoLock, Position
      <4>4. CASE CompactStep
        BY <1>b, <4>4 DEF CompactStep, CompactStart, CompactMerge, CompactInstall, CompactSyncDir,
           CompactRecord, CompactRemove, At, NoLock, Position
      <4>5. CASE RestartStep
        BY <1>b, <1>3, <2>7, <4>5 DEF RestartStep, OpenManifest, OpenRecord, OpenSyncDir, OpenFresh,
           OpenRecover, Alive, At, NoLock, Position
      <4> QED BY <4>1, <4>2, <4>3, <4>4, <4>5 DEF Next
    <3>3. FlushRemoveWal => lock'.at # "freeze.created"
      BY <1>b DEF FlushRemoveWal, At, Position
    <3> QED BY <1>c, <2>1, <2>3, <3>1, <3>2, <3>3
  <2> QED BY <2>4, <2>5, <2>6, <2>7
<1> QED BY <1>1, <1>2, <1>3

\* A log is recorded before its number can be given out again.
LEMMA LogsNumberedStep ==
    ASSUME IInv, DirInv, Next, Survivable(setting)
    PROVE  LogsNumbered'
<1> USE DEF vars, diskVars, memoryVars, levelVars, threadVars
<1>a. LogsNumbered /\ ManifestThere /\ EnableWal' = EnableWal /\ lock \in Position
      /\ (~Alive => lock.at = "free")
  <2>1. ~Alive => lock = NoLock
    BY DEF IInv, Phases
  <2> QED BY <2>1, SettingKept DEF DirInv, IInv, Typed, NoLock
<1>b. /\ manifest.maxId \in Nat /\ manifest'.maxId \in Nat
      /\ ~OpenManifest => manifest.maxId <= manifest'.maxId
      /\ \A i \in Id : i \in Nat
  <2>1. Typed /\ Typed'
    BY TypedStep DEF IInv
  <2>2. manifest.maxId \in Id /\ Id = 0..MaxId /\ MaxId \in Nat
    BY <2>1, Fields
  <2>3. manifest'.maxId \in Id
    BY <2>1 DEF Typed, Manifest
  <2> QED BY <2>2, <2>3, MaxIdGrows
<1> SUFFICES ASSUME EnableWal
             PROVE  /\ torn' = {}
                    /\ \A i \in Id : Wal(i) \in files' \cup durable' =>
                          i <= manifest'.maxId \/ (lock'.at \in Unrecorded /\ i = lock'.id)
  BY <1>a DEF LogsNumbered
<1>c. /\ torn = {}
      /\ \A i \in Id : Wal(i) \in files \cup durable =>
            i <= manifest.maxId \/ (lock.at \in Unrecorded /\ i = lock.id)
  BY <1>a DEF LogsNumbered
<1>1. torn' = {}
  <2>1. CASE Crash
    BY <2>1, CrashDirectory DEF Survivable, EnableWal
  <2>2. CASE WriterStep
    BY <1>c, <2>2 DEF WriterStep, Write, Publish, Sync
  <2>3. CASE FreezeStep
    BY <1>c, <2>3 DEF FreezeStep, FreezeCreate, FreezeSwap, FreezeSyncWal, FreezeRecord,
       FreezeSyncDir
  <2>4. CASE FlushStep
    BY <1>c, <2>4 DEF FlushStep, FlushBuild, FlushInstall, FlushRemoveWal, FlushRecord,
       FlushSyncDir
  <2>5. CASE CompactStep
    BY <1>c, <2>5 DEF CompactStep, CompactStart, CompactMerge, CompactInstall, CompactSyncDir,
       CompactRecord, CompactRemove
  <2>6. CASE RestartStep
    BY <1>c, <2>1, <2>6 DEF RestartStep, Close, CloseEnd, OpenFresh, OpenManifest, OpenRecover,
       OpenRecord, OpenSyncDir
  <2> QED BY <2>1, <2>2, <2>3, <2>4, <2>5, <2>6 DEF Next
<1>2. ASSUME NEW i \in Id, Wal(i) \in files' \cup durable'
      PROVE  i <= manifest'.maxId \/ (lock'.at \in Unrecorded /\ i = lock'.id)
  <2>1. CASE Crash
    <3>1. lock.at \notin Unrecorded
      BY <2>1, CrashDirectory DEF Survivable, EnableWal, LogWindows, Unrecorded
    <3>2. Wal(i) \in files \cup durable
      BY <1>2, <2>1, CrashDirectory DEF Power
    <3> QED BY <1>c, <2>1, <3>1, <3>2, CrashDirectory
  <2>2. CASE OpenManifest
    <3>1. ManifestFile \notin files /\ lock.at = "open.fresh"
      BY <2>2 DEF IInv, Directory, OpenManifest
    <3>2. Wal(i) \in files \cup durable
      BY <1>2, <2>2, NamesDiffer DEF OpenManifest, Create
    <3>3. i = 0
      BY <1>a, <3>1, <3>2 DEF ManifestThere
    <3> QED BY <1>b, <3>3
  <2>3. CASE ~Crash /\ ~OpenManifest /\ Wal(i) \notin files \cup durable
    <3>1. Wal(i) \in files'
      BY <1>2, <2>3, FilesKept
    <3>2. \/ FreezeCreate /\ i = nextId
          \/ OpenFresh /\ i = 0
          \/ OpenRecover /\ i = manifest.maxId + 1 /\ Recoverable
      BY <2>3, <3>1, FilesKept
    <3>3. CASE FreezeCreate /\ i = nextId
      <4>1. lock'.at = "freeze.created" /\ lock'.id = nextId
        BY <3>3 DEF FreezeCreate
      <4> QED BY <3>3, <4>1 DEF Unrecorded
    <3>4. CASE OpenFresh /\ i = 0
      BY <1>b, <3>4
    <3>5. CASE OpenRecover /\ i = manifest.maxId + 1 /\ Recoverable
      <4>1. lock'.at = "open.created" /\ lock'.id = manifest.maxId + 1
        BY <3>5 DEF OpenRecover
      <4> QED BY <3>5, <4>1 DEF Unrecorded
    <3> QED BY <3>2, <3>3, <3>4, <3>5
  <2>4. CASE ~Crash /\ ~OpenManifest /\ i <= manifest.maxId
    BY <1>b, <2>4
  <2>5. CASE ~Crash /\ ~OpenManifest /\ lock.at \in Unrecorded /\ i = lock.id
    <3>1. Alive
      BY <1>a, <2>5 DEF Unrecorded
    <3>2. lock' = lock \/ FreezeSwap \/ FreezeSyncWal \/ FreezeRecord \/ OpenRecord
      BY <2>5, <3>1, LockMoves DEF Unrecorded, Holder, FreezeSyncDir, FlushInstall,
         FlushRemoveWal, FlushRecord, FlushSyncDir, CompactSyncDir, CompactRecord, OpenManifest,
         OpenSyncDir
    <3>3. CASE FreezeSwap \/ FreezeSyncWal
      <4>1. lock'.at \in {"freeze.swapped", "freeze.synced"} /\ lock'.id = lock.id
        BY <1>a, <3>3 DEF FreezeSwap, FreezeSyncWal, At, Position
      <4> QED BY <2>5, <4>1 DEF Unrecorded
    <3>4. CASE FreezeRecord \/ OpenRecord
      <4>1. manifest'.maxId = AtLeast(manifest, lock.id)
        BY <3>4, MemtableRecorded
      <4> QED BY <1>b, <2>5, <4>1 DEF AtLeast
    <3> QED BY <2>5, <3>2, <3>3, <3>4
  <2> QED BY <1>c, <2>1, <2>2, <2>3, <2>4, <2>5
<1> QED BY <1>1, <1>2

\* The logs the manifest records stay until the record of the flush is written, and
\* their names are on the disk but in two windows.
LEMMA LogsListedStep ==
    ASSUME IInv, DirInv, Next
    PROVE  LogsListed'
<1> USE DEF vars, diskVars, memoryVars, levelVars, threadVars
<1>a. /\ LogsListed /\ LogsOpen /\ EnableWal' = EnableWal /\ lock \in Position
      /\ (~Alive => lock.at = "free") /\ Phases /\ Holding
  <2>1. ~Alive => lock = NoLock
    BY DEF IInv, Phases
  <2> QED BY <2>1, SettingKept DEF DirInv, IInv, Typed, NoLock
<1> DEFINE There(i) == \/ lock.at = "flush.wal_removed" /\ i = lock.id
                       \/ /\ Wal(i) \in files
                          /\ \/ Wal(i) \in durable \/ status = "opening"
                             \/ lock.at = "freeze.recorded" /\ i = mem
<1> SUFFICES ASSUME EnableWal, Alive', lock'.at # "open.fresh", NEW i \in manifest'.mems
             PROVE  There(i)'
  BY <1>a DEF LogsListed
<1>1. ~Crash /\ ~Close /\ ~CloseEnd
  BY CrashDirectory DEF Close, CloseEnd, Stopped, Alive, IInv, Phases
<1>2. CASE ~Alive
  <2>1. OpenFresh \/ OpenRecover
    BY <1>2, DownSteps
  <2>2. ~OpenFresh
    BY <1>2 DEF OpenFresh, Alive
  <2>3. OpenRecover /\ Recoverable
    BY <1>2, <2>1, <2>2 DEF OpenRecover, Alive
  <2>4. status' = "opening" /\ manifest' = manifest /\ files' = files \cup {Wal(manifest.maxId + 1)}
    BY <2>3 DEF OpenRecover, Create
  <2>5. Wal(i) \in files
    BY <2>3, <2>4 DEF Recoverable, OpenRecover
  <2> QED BY <2>4, <2>5
<1>3. CASE Alive /\ (OpenManifest \/ FreezeRecord \/ OpenRecord \/ FlushRecord)
  <2>1. CASE OpenManifest
    BY <2>1 DEF OpenManifest, EmptyManifest
  <2>2. CASE FreezeRecord \/ OpenRecord
    <3>1. /\ files' = files /\ durable' = durable /\ mem' = mem /\ status' = status
          /\ lock.at # "flush.wal_removed" /\ lock.at # "freeze.recorded"
          /\ lock.at # "open.fresh"
          /\ FreezeRecord => lock'.at = "freeze.recorded"
          /\ OpenRecord => status = "opening"
      BY <1>a, <2>2 DEF FreezeRecord, OpenRecord, At, Position, Phases, OpenPositions
    <3>2. i \in manifest.mems \/ i = mem
      BY <2>2, MemtableRecorded
    <3>3. Wal(mem) \in files
      BY <1>3, <1>a DEF LogsOpen
    <3>4. i \in manifest.mems => There(i)
      BY <1>3, <1>a, <3>1 DEF LogsListed
    <3> QED BY <2>2, <3>1, <3>2, <3>3, <3>4
  <2>3. CASE FlushRecord
    <3>1. files' = files /\ durable' = durable /\ status' = status /\ mem' = mem
      BY <2>3 DEF FlushRecord
    <3>2. /\ i \in manifest.mems /\ i # lock.id
          /\ lock.at = "flush.wal_removed" /\ lock'.at = "flush.recorded"
      BY <2>3, FlushRecorded
    <3>3. There(i)
      BY <1>3, <1>a, <3>2 DEF LogsListed
    <3> QED BY <3>1, <3>2, <3>3
  <2> QED BY <1>3, <2>1, <2>2, <2>3
<1>4. CASE Alive /\ ~OpenManifest /\ ~FreezeRecord /\ ~OpenRecord /\ ~FlushRecord
  <2>1. i \in manifest.mems
    <3>1. manifest'.mems = manifest.mems
      BY <1>4, ManifestKept, CompactionRecorded
    <3> QED BY <3>1
  <2>2. lock.at # "open.fresh"
    <3>1. lock.at = "open.fresh" => lock' = lock
      BY <1>1, <1>4, LockMoves DEF Holder, FreezeSwap, FreezeSyncWal, FreezeRecord,
         FreezeSyncDir, FlushInstall, FlushRemoveWal, FlushRecord, FlushSyncDir,
         CompactSyncDir, CompactRecord, OpenRecord, OpenSyncDir
    <3> QED BY <3>1
  <2>3. There(i)
    BY <1>4, <1>a, <2>1, <2>2 DEF LogsListed
  <2>4. /\ durable' = durable \/ (durable' = files /\ files' = files)
        /\ Wal(i) \in files => Wal(i) \in files' \/ (FlushRemoveWal /\ i = lock.id)
    BY <1>1, FilesKept
  <2>5. FlushRemoveWal => lock'.at = "flush.wal_removed" /\ lock'.id = lock.id
    BY <1>a DEF FlushRemoveWal, At, Position
  <2>6. lock.at = "flush.wal_removed" => lock' = lock
    BY <1>1, <1>4, LockMoves DEF Holder, FreezeSwap, FreezeSyncWal, FreezeRecord,
         FreezeSyncDir, FlushInstall, FlushRemoveWal, FlushRecord, FlushSyncDir,
         CompactSyncDir, CompactRecord, OpenRecord, OpenSyncDir
  <2>7. lock.at = "freeze.recorded" =>
           (lock' = lock /\ mem' = mem) \/ (durable' = files /\ files' = files)
    <3> SUFFICES ASSUME lock.at = "freeze.recorded"
                 PROVE  (lock' = lock /\ mem' = mem) \/ (durable' = files /\ files' = files)
      OBVIOUS
    <3>1. CASE WriterStep
      BY <3>1 DEF WriterStep, Write, Publish, Sync
    <3>2. CASE FreezeStep
      BY <3>2 DEF FreezeStep, FreezeCreate, FreezeSwap, FreezeSyncWal, FreezeRecord,
         FreezeSyncDir, SyncDir
    <3>3. CASE FlushStep
      BY <3>3 DEF FlushStep, FlushBuild, FlushInstall, FlushRemoveWal, FlushRecord,
         FlushSyncDir
    <3>4. CASE CompactStep
      BY <3>4 DEF CompactStep, CompactStart, CompactMerge, CompactInstall, CompactSyncDir,
         CompactRecord, CompactRemove
    <3>5. CASE RestartStep
      BY <1>1, <1>4, <3>5 DEF RestartStep, OpenManifest, OpenRecord, OpenSyncDir, OpenFresh,
         OpenRecover, Alive
    <3> QED BY <3>1, <3>2, <3>3, <3>4, <3>5 DEF Next
  <2>8. status = "opening" => status' = status \/ (durable' = files /\ files' = files)
    <3>1. OpenSyncDir => durable' = files /\ files' = files
      BY DEF OpenSyncDir, SyncDir
    <3>2. status = "opening" => ~OpenFresh /\ ~OpenRecover
      BY DEF OpenFresh, OpenRecover
    <3> QED BY <1>1, <3>1, <3>2, StatusMoves
  <2>9. CASE FlushRemoveWal /\ i = lock.id
    BY <2>5, <2>9
  <2>10. CASE ~(FlushRemoveWal /\ i = lock.id)
    BY <2>3, <2>4, <2>6, <2>7, <2>8, <2>10
  <2> QED BY <2>9, <2>10
<1> QED BY <1>2, <1>3, <1>4

\* The tables the manifest records stay, and are on the disk but in one window.
LEMMA TablesListedStep ==
    ASSUME IInv, DirInv, Next
    PROVE  TablesListed'
<1> USE DEF vars, diskVars, memoryVars, levelVars, threadVars
<1>a. /\ TablesListed /\ Removing /\ ManifestThere /\ Power' = Power /\ lock \in Position
      /\ (~Alive => lock.at = "free") /\ Phases /\ Holding /\ Directory
      /\ compaction \in Compaction /\ l0 \in Seq(Id) /\ imm \in Seq(Id)
  <2>1. ~Alive => lock = NoLock
    BY DEF IInv, Phases
  <2> QED BY <2>1, SettingKept DEF DirInv, IInv, Typed, NoLock, Power
<1> DEFINE There(i) == /\ Sst(i) \in files
                       /\ Power => \/ Sst(i) \in durable
                                   \/ lock.at = "flush.recorded" /\ i = lock.id
<1> SUFFICES ASSUME Alive', lock'.at # "open.fresh"
             PROVE  /\ \A i \in RecordedSsts' : There(i)'
                    /\ lock'.at \in FlushPositions => Sst(lock'.id) \in files'
  BY <1>a DEF TablesListed
<1>1. ~Crash
  BY CrashDirectory DEF Alive
<1>2. CASE ~Alive
  <2>1. OpenRecover /\ Recoverable
    <3>1. OpenFresh \/ OpenRecover
      BY <1>2, DownSteps
    <3> QED BY <1>2, <3>1 DEF OpenFresh, OpenRecover, Alive
  <2>2. /\ manifest' = manifest /\ durable' = durable /\ lock'.at = "open.created"
        /\ \A x : x \in files => x \in files'
        /\ ManifestFile \in files /\ status = "down"
    BY <2>1 DEF OpenRecover, Create
  <2>3. Power => durable = files
    BY <1>a, <2>2 DEF ManifestThere
  <2>4. \A i \in RecordedSsts : Sst(i) \in files
    BY <2>1, <2>2 DEF Recoverable
  <2>5. RecordedSsts' = RecordedSsts
    BY <2>2 DEF RecordedSsts
  <2> QED BY <1>a, <2>2, <2>3, <2>4, <2>5 DEF FlushPositions
<1>3. CASE Alive /\ lock.at = "open.fresh"
  <2>1. OpenManifest
    <3>1. lock' = lock \/ OpenManifest
      BY <1>1, <1>3, LockMoves DEF Holder, FreezeSwap, FreezeSyncWal, FreezeRecord,
         FreezeSyncDir, FlushInstall, FlushRemoveWal, FlushRecord, FlushSyncDir,
         CompactSyncDir, CompactRecord, OpenRecord, OpenSyncDir
    <3> QED BY <1>3, <3>1
  <2>2. lock'.at = "open.created" /\ manifest'.l0 = <<>> /\ manifest'.l1 = <<>>
    BY <1>a, <2>1 DEF OpenManifest, At, Position, EmptyManifest
  <2>3. RecordedSsts' = {}
    BY <2>2, IdsOf DEF RecordedSsts
  <2> QED BY <2>2, <2>3 DEF FlushPositions
<1>4. CASE Alive /\ lock.at # "open.fresh"
  <2>1. /\ \A i \in RecordedSsts : There(i)
        /\ lock.at \in FlushPositions => Sst(lock.id) \in files
    BY <1>4, <1>a DEF TablesListed
  <2>2. /\ durable' = durable \/ (durable' = files /\ files' = files)
        /\ \A i : Sst(i) \in files =>
              Sst(i) \in files' \/ (CompactRemove /\ i \in Ids(compaction.remove))
    BY <1>1, FilesKept
  <2>3. CompactRemove => Ids(compaction.remove) \cap (Listed \cup RecordedSsts) = {}
    BY <1>a DEF Removing, CompactRemove
  <2>4. \A i \in Listed \cup RecordedSsts : Sst(i) \in files => Sst(i) \in files'
    BY <2>2, <2>3
  <2>5. lock.at \in FlushPositions => lock.id \in Listed
    <3>1. CASE lock.at = "flush.built"
      <4>1. imm # <<>> /\ lock.id = Last(imm)
        BY <1>a, <3>1 DEF Holding
      <4>2. Last(imm) \in Ids(imm)
        BY <1>a, <4>1, FrontOf
      <4> QED BY <4>1, <4>2 DEF Listed
    <3>2. CASE lock.at \in FlushPositions \ {"flush.built"}
      <4>1. l0 # <<>> /\ lock.id = l0[1]
        BY <1>a, <3>2 DEF Holding
      <4>2. l0[1] \in Ids(l0)
        BY <1>a, <4>1 DEF Ids
      <4> QED BY <4>1, <4>2 DEF Listed
    <3> QED BY <3>1, <3>2 DEF FlushPositions
  <2>6. lock.at = "flush.recorded" => lock' = lock \/ FlushSyncDir
    BY <1>1, <1>4, LockMoves DEF Holder, FreezeSwap, FreezeSyncWal, FreezeRecord,
         FreezeSyncDir, FlushInstall, FlushRemoveWal, FlushRecord,
         CompactSyncDir, CompactRecord, OpenManifest, OpenRecord, OpenSyncDir
  <2>7. FlushSyncDir => durable' = files /\ files' = files
    BY DEF FlushSyncDir, SyncDir
  <2>8. ASSUME NEW i \in RecordedSsts
        PROVE  /\ Sst(i) \in files'
               /\ Power => Sst(i) \in durable' \/ (lock'.at = "flush.recorded" /\ i = lock'.id)
    BY <2>1, <2>2, <2>4, <2>6, <2>7
  <2>9. \A i \in RecordedSsts' : There(i)'
    <3>1. CASE FlushRecord
      <4>1. /\ RecordedSsts' = Ids(l0) \cup Ids(l1) /\ manifest.l1 = l1
            /\ l0 = <<lock.id>> \o manifest.l0 /\ lock.at = "flush.wal_removed"
            /\ lock'.at = "flush.recorded" /\ lock'.id = lock.id
        BY <3>1, FlushRecorded DEF RecordedSsts
      <4>2. files' = files
        BY <3>1 DEF FlushRecord
      <4>3. Ids(l0) = {lock.id} \cup Ids(manifest.l0)
        <5>1. lock.id \in Id /\ manifest.l0 \in Seq(Id)
          BY Fields DEF IInv
        <5> QED BY <4>1, <5>1, Prepended
      <4>4. Sst(lock.id) \in files
        BY <2>1, <4>1 DEF FlushPositions
      <4>5. \A i \in RecordedSsts' : i = lock.id \/ i \in RecordedSsts
        BY <4>1, <4>3 DEF RecordedSsts
      <4> QED BY <1>a, <2>8, <4>1, <4>2, <4>4, <4>5
    <3>2. CASE CompactRecord
      <4>1. /\ RecordedSsts' = Ids(l0) \cup {compaction.out}
            /\ Ids(l0) \subseteq RecordedSsts
            /\ compaction.at = "merged"
        <5>1. /\ manifest'.l0 = l0 /\ manifest'.l1 = l1 /\ l1 = <<compaction.out>>
              /\ Ids(l0) \subseteq Ids(manifest.l0) /\ compaction.at = "merged"
          BY <3>2, CompactionRecorded
        <5>2. compaction.out \in Id
          BY Fields DEF IInv
        <5>3. Ids(manifest'.l1) = {compaction.out}
          BY <5>1, <5>2, IdsOf
        <5> QED BY <5>1, <5>3 DEF RecordedSsts
      <4>2. /\ files' = files /\ durable' = durable /\ lock.at = "compact.dir_synced"
        BY <3>2 DEF CompactRecord
      <4>3. Sst(compaction.out) \in files /\ Sst(compaction.out) \in durable
        BY <1>a, <4>1, <4>2 DEF Directory
      <4> QED BY <1>a, <2>8, <4>1, <4>2, <4>3
    <3>3. CASE ~FlushRecord /\ ~CompactRecord
      <4>1. RecordedSsts' = RecordedSsts
        <5>1. ~OpenManifest
          BY <1>4 DEF OpenManifest
        <5>2. manifest'.l0 = manifest.l0 /\ manifest'.l1 = manifest.l1
          BY <3>3, <5>1, ManifestKept, MemtableRecorded
        <5> QED BY <5>2 DEF RecordedSsts
      <4> QED BY <1>a, <2>8, <4>1
    <3> QED BY <3>1, <3>2, <3>3
  <2>10. lock'.at \in FlushPositions => Sst(lock'.id) \in files'
    <3> SUFFICES ASSUME lock'.at \in FlushPositions PROVE Sst(lock'.id) \in files'
      OBVIOUS
    <3>1. CASE lock' = lock
      BY <2>1, <2>4, <2>5, <3>1
    <3>2. CASE lock.at = "free" /\ lock' # lock
      <4>1. FlushBuild
        <5>1. ~WriterStep
          BY <3>2 DEF WriterStep, Write, Publish, Sync
        <5>2. ~FreezeStep
          BY <3>2, <1>a DEF FreezeStep, FreezeCreate, FreezeSwap, FreezeSyncWal, FreezeRecord,
             FreezeSyncDir, FlushPositions
        <5>3. ~CompactStep
          BY <3>2, <1>a DEF CompactStep, CompactStart, CompactMerge, CompactInstall,
             CompactSyncDir, CompactRecord, CompactRemove, FlushPositions
        <5>4. ~RestartStep
          BY <1>1, <1>4, <3>2 DEF RestartStep, Close, CloseEnd, Stopped, NoLock, OpenManifest,
             OpenRecord, OpenSyncDir, OpenFresh, OpenRecover, Alive
        <5> QED BY <3>2, <5>1, <5>2, <5>3, <5>4 DEF Next, FlushStep, FlushInstall,
             FlushRemoveWal, FlushRecord, FlushSyncDir
      <4>2. files' = files \cup {Sst(Last(imm))} /\ lock'.id = Last(imm)
        BY <4>1 DEF FlushBuild, Create
      <4> QED BY <4>2
    <3>3. CASE lock.at # "free" /\ lock' # lock
      <4>1. Holder
        BY <1>1, <1>4, <3>3, LockMoves
      <4>2. FlushInstall \/ FlushRemoveWal \/ FlushRecord
        BY <1>a, <4>1 DEF Holder, FreezeSwap, FreezeSyncWal, FreezeRecord,
           FreezeSyncDir, FlushSyncDir, At, NoLock, Position, FlushPositions,
           CompactSyncDir, CompactRecord, OpenManifest, OpenRecord, OpenSyncDir
      <4>3. lock'.id = lock.id /\ lock.at \in FlushPositions
        BY <1>a, <4>2 DEF FlushInstall, FlushRemoveWal, FlushRecord, At, Position, FlushPositions
      <4> QED BY <2>1, <2>4, <2>5, <4>3
    <3> QED BY <3>1, <3>2, <3>3
  <2> QED BY <2>9, <2>10
<1> QED BY <1>2, <1>3, <1>4

\* Once a compaction is recorded, its inputs are in use nowhere.
LEMMA InputsRetired ==
    ASSUME IInv, CompactRecord
    PROVE  (Ids(compaction.l0) \cup Ids(compaction.l1))
              \cap (Listed \cup {mem} \cup manifest'.mems \cup RecordedSsts') = {}
<1>a. /\ Typed /\ Holding /\ Phases /\ Compacting /\ Recording /\ ManifestShape
  BY DEF IInv
<1>t. /\ l0 \in Seq(Id) /\ compaction.l0 \in Seq(Id) /\ compaction.l1 \in Seq(Id)
      /\ compaction.out \in Id
  BY <1>a, Fields
<1>1. /\ manifest'.l0 = l0 /\ manifest'.l1 = l1 /\ l1 = <<compaction.out>>
      /\ manifest'.mems = manifest.mems
      /\ manifest.l0 = l0 \o compaction.l0 /\ manifest.l1 = compaction.l1
      /\ compaction.at = "merged" /\ CompactMid /\ Alive
  BY CompactionRecorded
<1>2. /\ Ids(manifest.l0) = Ids(l0) \cup Ids(compaction.l0) /\ Ids(l1) = {compaction.out}
  BY <1>1, <1>t, IdsOf
<1>3. Ids(l0) \cap Ids(compaction.l0) = {}
  <2>1. ASSUME NEW p \in 1..Len(l0), NEW q \in 1..Len(compaction.l0), l0[p] = compaction.l0[q]
        PROVE  FALSE
    <3> DEFINE s == l0 \o compaction.l0
               r == Len(l0) + q
    <3>1. Len(l0) \in Nat /\ Len(compaction.l0) \in Nat
      BY <1>t
    <3>2. p \in 1..Len(s) /\ r \in 1..Len(s) /\ s[p] = l0[p] /\ s[r] = compaction.l0[q]
      BY <1>t, <3>1
    <3>3. p # r
      BY <3>1
    <3>4. Distinct(s)
      BY <1>a, <1>1 DEF ManifestShape
    <3> HIDE DEF s, r
    <3> QED BY <2>1, <3>2, <3>3, <3>4 DEF Distinct
  <2> QED BY <2>1 DEF Ids
<1>4. Ids(manifest.l0) \cap Ids(manifest.l1) = {}
      /\ manifest.mems \cap (Ids(manifest.l0) \cup Ids(manifest.l1)) = {}
  BY <1>a DEF ManifestShape, RecordedSsts
<1>5. compaction.out \notin Ids(compaction.l0) \cup Ids(compaction.l1)
  BY <1>a, <1>1 DEF Compacting
<1>6. /\ Ids(imm) \subseteq manifest.mems /\ mem \in manifest.mems
  <2>1. status = "up" /\ lock.at = "compact.dir_synced"
    BY InputsLastRecorded, <1>1 DEF CompactRecord
  <2> QED BY <1>a, <1>1, <2>1 DEF Recording
<1>7. RecordedSsts' = Ids(l0) \cup Ids(l1)
  BY <1>1 DEF RecordedSsts
<1> QED BY <1>1, <1>2, <1>3, <1>4, <1>5, <1>6, <1>7 DEF Listed

\* What a compaction is going to remove stays out of use.
LEMMA RemovingStep ==
    ASSUME IInv, DirInv, Next
    PROVE  Removing'
<1> USE DEF vars, diskVars, memoryVars, levelVars, threadVars
<1> DEFINE named == Ids(compaction.l0) \cup Ids(compaction.l1) \cup Ids(compaction.remove)
           used  == Listed \cup {mem} \cup manifest.mems \cup RecordedSsts
<1>a. /\ Removing /\ Phases /\ IdsFresh /\ lock \in Position /\ Holding
      /\ compaction \in Compaction
  BY DEF DirInv, IInv, Typed
<1>t. /\ nextId \in Nat /\ nextId' \in Nat /\ Id \subseteq Nat
      /\ compaction.l0 \in Seq(Id) /\ compaction.l1 \in Seq(Id) /\ compaction.remove \in Seq(Id)
      /\ l0 \in Seq(Id) /\ l1 \in Seq(Id) /\ imm \in Seq(Id)
      /\ Ids(compaction.l0) \subseteq Nat /\ Ids(compaction.l1) \subseteq Nat
      /\ Ids(compaction.remove) \subseteq Nat
  <2>1. Typed /\ Typed'
    BY TypedStep DEF IInv
  <2>2. /\ compaction.l0 \in Seq(Id) /\ compaction.l1 \in Seq(Id)
        /\ compaction.remove \in Seq(Id) /\ Id = 0..MaxId /\ MaxId \in Nat
        /\ l0 \in Seq(Id) /\ l1 \in Seq(Id) /\ imm \in Seq(Id) /\ nextId \in 1..MaxId + 1
    BY <2>1, Fields
  <2>3. nextId' \in 1..MaxId + 1
    BY <2>1 DEF Typed
  <2>4. Id \subseteq Nat
    BY <2>2
  <2>5. /\ Ids(compaction.l0) \subseteq Id /\ Ids(compaction.l1) \subseteq Id
        /\ Ids(compaction.remove) \subseteq Id
    BY <2>2, IdsOf
  <2> QED BY <2>2, <2>3, <2>4, <2>5
<1>b. /\ compaction.at # "idle" => \A i \in named : i < nextId
      /\ compaction.at = "removing" =>
            /\ Ids(compaction.remove) \cap used = {}
            /\ lock.at = "freeze.created" => lock.id \notin Ids(compaction.remove)
  BY <1>a DEF Removing
<1> SUFFICES /\ compaction'.at # "idle" => \A i \in named' : i < nextId'
             /\ compaction'.at = "removing" =>
                   /\ Ids(compaction'.remove) \cap used' = {}
                   /\ lock'.at = "freeze.created" => lock'.id \notin Ids(compaction'.remove)
  BY DEF Removing
<1>1. CASE CompactStart
  <2>1. compaction' = [NoCompaction EXCEPT !.at = "merging", !.l0 = l0, !.l1 = l1]
        /\ nextId' = nextId
    BY <1>1 DEF CompactStart
  <2>2. /\ compaction'.at = "merging" /\ compaction'.l0 = l0 /\ compaction'.l1 = l1
        /\ compaction'.remove = <<>>
    BY <2>1 DEF NoCompaction
  <2>3. named' = Ids(l0) \cup Ids(l1)
    BY <2>2, IdsOf
  <2>4. \A i \in Ids(l0) \cup Ids(l1) : i < nextId
    BY <1>a DEF IdsFresh, Listed
  <2> QED BY <2>1, <2>2, <2>3, <2>4
<1>2. CASE CompactMerge
  <2>1. /\ nextId' = nextId + 1 /\ compaction.at = "merging"
        /\ compaction' = [compaction EXCEPT !.at = "merged", !.out = nextId]
    BY <1>2 DEF CompactMerge
  <2>2. /\ compaction'.at = "merged" /\ compaction'.l0 = compaction.l0
        /\ compaction'.l1 = compaction.l1 /\ compaction'.remove = compaction.remove
    BY <1>a, <2>1 DEF Compaction
  <2>3. \A i \in named : i \in Nat /\ i < nextId
    BY <1>b, <1>t, <2>1
  <2>4. \A i \in named : i < nextId'
    BY <1>t, <2>1, <2>3
  <2> QED BY <2>2, <2>4
<1>3. CASE CompactRecord
  <2>1. /\ compaction.at = "merged" /\ lock' = NoLock /\ nextId' = nextId
        /\ mem' = mem /\ Listed' = Listed
        /\ compaction' = [compaction EXCEPT !.at = "removing",
                                            !.remove = compaction.l0 \o compaction.l1]
    BY <1>3, CompactionRecorded DEF CompactRecord, Listed
  <2>2. /\ compaction'.at = "removing" /\ compaction'.l0 = compaction.l0
        /\ compaction'.l1 = compaction.l1
        /\ compaction'.remove = compaction.l0 \o compaction.l1
    BY <1>a, <2>1 DEF Compaction
  <2>3. Ids(compaction'.remove) = Ids(compaction.l0) \cup Ids(compaction.l1)
    BY <1>t, <2>2, IdsOf
  <2>4. Ids(compaction'.remove) \cap used' = {}
    BY <1>3, <2>1, <2>3, InputsRetired
  <2>5. \A i \in named' : i < nextId'
    BY <1>b, <2>1, <2>2, <2>3
  <2> QED BY <2>1, <2>4, <2>5 DEF NoLock
<1>4. CASE CompactRemove
  <2>1. /\ compaction.at = "removing" /\ nextId' = nextId /\ lock' = lock /\ used' = used
    BY <1>4 DEF CompactRemove, Listed, RecordedSsts
  <2>2. CASE compaction.remove # <<>>
    <3>1. compaction' = [compaction EXCEPT !.remove = Tail(@)]
      BY <1>4, <2>2 DEF CompactRemove
    <3>2. /\ compaction'.l0 = compaction.l0 /\ compaction'.l1 = compaction.l1
          /\ compaction'.remove = Tail(compaction.remove) /\ compaction'.at = "removing"
      BY <1>a, <2>1, <3>1 DEF Compaction
    <3>3. Ids(Tail(compaction.remove)) \subseteq Ids(compaction.remove)
      BY <1>t, <2>2 DEF Ids
    <3> QED BY <1>b, <2>1, <3>2, <3>3
  <2>3. CASE compaction.remove = <<>>
    <3>1. compaction'.at = "idle"
      BY <1>4, <2>3 DEF CompactRemove, NoCompaction
    <3> QED BY <3>1
  <2> QED BY <2>2, <2>3
<1>5. CASE Crash \/ Close \/ CloseEnd
  <2>1. compaction'.at = "idle"
    BY <1>5, <1>a, CrashDirectory DEF Close, CloseEnd, Stopped, NoCompaction, Phases
  <2> QED BY <2>1
<1>6. CASE compaction' = compaction /\ nextId <= nextId'
  <2>1. compaction'.at # "idle" => \A i \in named' : i < nextId'
    <3>1. ASSUME compaction.at # "idle", NEW i \in named PROVE i < nextId'
      BY <1>6, <1>b, <1>t, <3>1
    <3> QED BY <1>6, <3>1
  <2>2. ASSUME compaction.at = "removing"
        PROVE  /\ Ids(compaction.remove) \cap used' = {}
               /\ lock'.at = "freeze.created" => lock'.id \notin Ids(compaction.remove)
    <3> DEFINE gone == Ids(compaction.remove)
    <3>1. status = "up" /\ Alive
      BY <1>a, <2>2 DEF Phases, NoCompaction, Alive
    <3>2. gone \cap used = {} /\ (\A i \in gone : i \in Nat /\ i < nextId)
          /\ (lock.at = "freeze.created" => lock.id \notin gone)
      BY <1>b, <1>t, <2>2
    <3>3. CASE FreezeCreate
      <4>1. lock'.id = nextId /\ used' = used
        BY <3>3 DEF FreezeCreate, Listed, RecordedSsts
      <4>2. nextId \notin gone
        BY <1>t, <3>2
      <4> QED BY <3>2, <4>1, <4>2
    <3>4. CASE FreezeSwap
      <4>1. /\ lock.at = "freeze.created" /\ lock'.at = "freeze.swapped" /\ mem' = lock.id
            /\ imm' = <<mem>> \o imm /\ l0' = l0 /\ l1' = l1 /\ manifest' = manifest
        BY <1>a, <3>4 DEF FreezeSwap, At, Position
      <4>2. Ids(imm') = {mem} \cup Ids(imm)
        <5>1. mem \in Id
          BY Fields DEF IInv
        <5> QED BY <1>t, <4>1, <5>1, Prepended
      <4>3. used' \subseteq used \cup {lock.id}
        BY <4>1, <4>2 DEF Listed, RecordedSsts
      <4> QED BY <3>2, <4>1, <4>3
    <3>5. CASE FreezeRecord
      <4>1. /\ lock'.at = "freeze.recorded" /\ mem' = mem /\ Listed' = Listed
            /\ manifest'.mems = manifest.mems \cup {mem}
            /\ manifest'.l0 = manifest.l0 /\ manifest'.l1 = manifest.l1
        BY <1>a, <3>5, MemtableRecorded DEF FreezeRecord, At, Position, Listed
      <4>2. used' = used
        BY <4>1 DEF RecordedSsts
      <4> QED BY <3>2, <4>1, <4>2
    <3>6. CASE FlushInstall
      <4>1. /\ lock.at = "flush.built" /\ lock'.at = "flush.installed"
            /\ imm' = Front(imm) /\ l0' = <<lock.id>> \o l0
            /\ l1' = l1 /\ mem' = mem /\ manifest' = manifest
        BY <1>a, <3>6 DEF FlushInstall, At, Position
      <4>2. imm # <<>> /\ lock.id = Last(imm)
        BY <1>a, <4>1 DEF Holding
      <4>3. Ids(imm) = Ids(imm') \cup {lock.id}
        BY <1>t, <4>1, <4>2, FrontOf
      <4>4. Ids(l0') = {lock.id} \cup Ids(l0)
        <5>1. lock.id \in Id
          BY Fields DEF IInv
        <5> QED BY <1>t, <4>1, <5>1, Prepended
      <4>5. used' = used
        BY <4>1, <4>3, <4>4 DEF Listed, RecordedSsts
      <4> QED BY <3>2, <4>1, <4>5
    <3>7. CASE FlushRecord
      <4>1. /\ lock'.at = "flush.recorded" /\ mem' = mem /\ Listed' = Listed
            /\ manifest'.mems \subseteq manifest.mems
            /\ manifest'.l0 = l0 /\ manifest'.l1 = l1
        BY <3>7, FlushRecorded DEF FlushRecord, Listed
      <4>2. used' \subseteq used
        BY <4>1 DEF RecordedSsts, Listed
      <4> QED BY <3>2, <4>1, <4>2
    <3>8. CASE WriterStep \/ FreezeSyncWal \/ FreezeSyncDir \/ FlushBuild \/ FlushRemoveWal
               \/ FlushSyncDir
      <4>1. used' = used
        BY <3>8 DEF WriterStep, Write, Publish, Sync, FreezeSyncWal, FreezeSyncDir, FlushBuild,
           FlushRemoveWal, FlushSyncDir, Listed, RecordedSsts
      <4>2. lock' = lock \/ lock'.at # "freeze.created"
        BY <1>a, <3>8 DEF WriterStep, Write, Publish, Sync, FreezeSyncWal, FreezeSyncDir,
           FlushBuild, FlushRemoveWal, FlushSyncDir, At, NoLock, Position
      <4> QED BY <3>2, <4>1, <4>2
    <3>9. ~CompactInstall /\ ~CompactSyncDir
      <4>1. ~CompactMid
        BY <1>a, <2>2 DEF Holding
      <4> QED BY <2>2, <4>1 DEF CompactInstall, CompactSyncDir, CompactMid, CompactPositions
    <3>10. ~OpenFresh /\ ~OpenManifest /\ ~OpenRecover /\ ~OpenRecord /\ ~OpenSyncDir
      <4>1. lock.at \notin OpenPositions
        BY <1>a, <3>1 DEF Phases
      <4> QED BY <3>1, <4>1 DEF OpenFresh, OpenManifest, OpenRecover, OpenRecord, OpenSyncDir,
           OpenPositions
    <3>11. CASE CompactStart \/ CompactMerge \/ CompactRecord \/ CompactRemove
                \/ Crash \/ Close \/ CloseEnd
      <4>1. ~CompactStart /\ ~CompactMerge /\ ~Close /\ ~CloseEnd
        BY <2>2, <3>1 DEF CompactStart, CompactMerge, Close, CloseEnd
      <4>2. ~CompactRecord
        BY <2>2, CompactionRecorded
      <4>3. ~Crash
        BY <1>6, <2>2, CrashDirectory DEF NoCompaction
      <4>4. CompactRemove => used' = used /\ lock' = lock
        BY DEF CompactRemove, Listed, RecordedSsts
      <4> QED BY <3>2, <3>11, <4>1, <4>2, <4>3, <4>4
    <3>12. \/ FreezeCreate \/ FreezeSwap \/ FreezeRecord \/ FlushInstall \/ FlushRecord
           \/ WriterStep \/ FreezeSyncWal \/ FreezeSyncDir \/ FlushBuild \/ FlushRemoveWal
           \/ FlushSyncDir
           \/ CompactStart \/ CompactMerge \/ CompactRecord \/ CompactRemove
           \/ Crash \/ Close \/ CloseEnd
      BY <3>9, <3>10 DEF Next, FreezeStep, FlushStep, CompactStep, RestartStep
    <3> QED BY <3>3, <3>4, <3>5, <3>6, <3>7, <3>8, <3>11, <3>12
  <2> QED BY <1>6, <2>1, <2>2
<1>7. CASE ~CompactStart /\ ~CompactMerge /\ ~CompactRecord /\ ~CompactRemove
           /\ ~Crash /\ ~Close /\ ~CloseEnd
  <2>1. compaction' = compaction
    <3>1. CASE WriterStep \/ FreezeStep
      BY <3>1 DEF WriterStep, Write, Publish, Sync, FreezeStep, FreezeCreate, FreezeSwap,
         FreezeSyncWal, FreezeRecord, FreezeSyncDir
    <3>2. CASE FlushStep \/ CompactStep
      BY <1>7, <3>2 DEF FlushStep, FlushBuild, FlushInstall, FlushRemoveWal, FlushRecord,
         FlushSyncDir, CompactStep, CompactInstall, CompactSyncDir
    <3>3. CASE RestartStep
      BY <1>7, <3>3 DEF RestartStep, OpenFresh, OpenManifest, OpenRecover, OpenRecord,
         OpenSyncDir
    <3> QED BY <3>1, <3>2, <3>3 DEF Next
  <2>2. CASE compaction.at = "idle"
    BY <2>1, <2>2
  <2>3. CASE compaction.at # "idle"
    <3>1. status = "up"
      BY <1>a, <2>3 DEF Phases, NoCompaction, Alive
    <3>2. nextId' = nextId \/ nextId' = nextId + 1
      <4>1. CASE WriterStep \/ FreezeStep
        BY <4>1 DEF WriterStep, Write, Publish, Sync, FreezeStep, FreezeCreate, FreezeSwap,
           FreezeSyncWal, FreezeRecord, FreezeSyncDir
      <4>2. CASE FlushStep \/ CompactStep
        BY <1>7, <4>2 DEF FlushStep, FlushBuild, FlushInstall, FlushRemoveWal, FlushRecord,
           FlushSyncDir, CompactStep, CompactInstall, CompactSyncDir
      <4>3. CASE RestartStep
        <5>1. ~OpenRecord
          BY <1>a, <3>1 DEF Phases, OpenPositions, OpenRecord
        <5> QED BY <1>7, <3>1, <4>3, <5>1 DEF RestartStep, OpenFresh, OpenManifest, OpenRecover,
             OpenSyncDir
      <4> QED BY <4>1, <4>2, <4>3 DEF Next
    <3> QED BY <1>6, <1>t, <2>1, <3>2
  <2> QED BY <2>2, <2>3
<1> QED BY <1>1, <1>2, <1>3, <1>4, <1>5, <1>7

\* What a crash or a close leaves, open gets through.
LEMMA DiskReadyStep ==
    ASSUME IInv, DirInv, Next, IInv', ManifestThere', LogsNumbered', Survivable(setting)
    PROVE  DiskReady'
<1> USE DEF vars, diskVars, memoryVars, levelVars, threadVars
<1>a. /\ DiskReady /\ TablesListed /\ LogsListed /\ EnableWal' = EnableWal /\ Power' = Power
      /\ lock \in Position
  BY SettingKept DEF DirInv, Power, IInv, Typed
<1>b. status # "failed" /\ (status = "down" => Recoverable)
  BY <1>a DEF DiskReady
<1>1. CASE ~Alive
  <2>1. status' = "opening"
    <3>1. status = "down" /\ (OpenFresh \/ OpenRecover) /\ Recoverable
      BY <1>1, <1>b, DownSteps
    <3> QED BY <3>1 DEF OpenFresh, OpenRecover
  <2> QED BY <2>1 DEF DiskReady
<1>2. CASE Alive
  <2>1. status' \in {"failed", "down"} => status' = "down" /\ (Crash \/ Close \/ CloseEnd)
    <3>1. ~OpenFresh /\ ~OpenRecover
      BY <1>2 DEF Alive, OpenFresh, OpenRecover
    <3>2. Crash \/ Close \/ CloseEnd \/ OpenSyncDir => status' # "failed"
      BY DEF Crash, Close, CloseEnd, Stopped, OpenSyncDir
    <3> QED BY <1>2, <3>1, <3>2, StatusMoves DEF Alive, OpenSyncDir
  <2> SUFFICES ASSUME status' = "down", Crash \/ Close \/ CloseEnd
               PROVE  Recoverable'
    BY <2>1 DEF DiskReady
  <2>2. ~Alive' /\ lock'.at = "free"
    <3>1. ~Alive'
      BY DEF Alive
    <3> QED BY <3>1 DEF IInv, Phases, NoLock
  <2>3. manifest' = manifest
    BY DEF Crash, Close, CloseEnd
  <2>4. CASE ManifestFile \notin files'
    <3>1. ~(EnableWal /\ Wal(0) \in files')
      <4>1. 0 \in Id
        <5>1. Id = 0..MaxId /\ MaxId \in Nat
          BY Fields DEF IInv
        <5> QED BY <5>1
      <4> QED BY <1>a, <2>2, <2>4, <4>1 DEF ManifestThere
    <3> QED BY <1>a, <2>4, <3>1 DEF Recoverable
  <2>5. CASE ManifestFile \in files'
    <3>1. manifest'.ok
      BY <2>2, <2>5 DEF IInv, OnDisk, Recorded
    <3>2. lock.at # "open.fresh"
      <4>1. Close \/ CloseEnd => lock.at = "free"
        BY DEF Close, CloseEnd
      <4> QED BY <2>5, <4>1, CrashCuts
    <3>3. /\ Close \/ CloseEnd => files' = files /\ lock.at = "free"
          /\ Crash => /\ \A x : x \in files /\ x \in durable => x \in files'
                      /\ ~Power => files' = files
                      /\ lock.at \in setting.crashAt
      BY CrashDirectory DEF Close, CloseEnd
    <3>4. \A i \in RecordedSsts' : Sst(i) \in files'
      <4>1. RecordedSsts' = RecordedSsts
        BY <2>3 DEF RecordedSsts
      <4>2. \A i \in RecordedSsts : /\ Sst(i) \in files
                                    /\ Power => \/ Sst(i) \in durable
                                                \/ lock.at = "flush.recorded" /\ i = lock.id
        BY <1>2, <1>a, <3>2 DEF TablesListed
      <4>3. Crash /\ Power => lock.at # "flush.recorded"
        BY <3>3 DEF Survivable, Power, TablePowerWindows
      <4> QED BY <3>3, <4>1, <4>2, <4>3
    <3>5. ASSUME EnableWal, NEW i \in manifest.mems
          PROVE  Wal(i) \in files' /\ i \notin torn'
      <4>1. \/ lock.at = "flush.wal_removed" /\ i = lock.id
            \/ /\ Wal(i) \in files
               /\ \/ Wal(i) \in durable \/ status = "opening"
                  \/ lock.at = "freeze.recorded" /\ i = mem
        BY <1>2, <1>a, <3>2, <3>5 DEF LogsListed
      <4>2. Crash => /\ lock.at \notin LogWindows
                     /\ Power => lock.at \notin LogPowerWindows
        BY <3>3, <3>5 DEF Survivable, Power, EnableWal
      <4>3. lock.at # "flush.wal_removed"
        BY <3>3, <4>2 DEF LogWindows
      <4>4. Crash /\ Power => status # "opening" /\ lock.at # "freeze.recorded"
        <5>1. status = "opening" => lock.at \in OpenPositions
          BY DEF IInv, Phases
        <5> QED BY <4>2, <5>1 DEF LogWindows, LogPowerWindows, OpenPositions
      <4>5. Wal(i) \in files'
        BY <3>3, <4>1, <4>3, <4>4
      <4>6. torn' = {}
        BY <1>a, <3>5 DEF LogsNumbered
      <4> QED BY <4>5, <4>6
    <3>6. EnableWal => Wal(manifest'.maxId + 1) \notin files'
      <4>1. ASSUME EnableWal, Wal(manifest'.maxId + 1) \in files' PROVE FALSE
        <5>1. manifest'.maxId < MaxId /\ manifest'.maxId \in Nat /\ manifest'.maxId + 1 \in Id
          <6>1. manifest'.maxId < MaxId /\ manifest'.maxId \in Id
            BY <2>2, <2>5 DEF IInv, OnDisk, Typed, Manifest
          <6>2. Id = 0..MaxId /\ MaxId \in Nat
            BY Fields DEF IInv
          <6> QED BY <6>1, <6>2
        <5>2. manifest'.maxId + 1 <= manifest'.maxId
          BY <1>a, <2>2, <4>1, <5>1 DEF LogsNumbered, Unrecorded
        <5> QED BY <5>1, <5>2
      <4> QED BY <4>1
    <3> QED BY <1>a, <2>3, <2>5, <3>1, <3>4, <3>5, <3>6 DEF Recoverable
  <2> QED BY <2>4, <2>5
<1> QED BY <1>1, <1>2

\* The part of the invariant about the directory.
LEMMA DirStep ==
    ASSUME IInv, DirInv, Next, Survivable(setting)
    PROVE  DirInv'
<1>1. IInv'
  BY IInvStep
<1>2. ManifestThere' /\ LogsNumbered'
  BY ManifestThereStep, LogsNumberedStep
<1> QED BY <1>1, <1>2, LogsListedStep, LogsOpenStep, TablesListedStep, RemovingStep, DiskReadyStep
     DEF DirInv

-----------------------------------------------------------------------------
(* Promises.                                                               *)

\* The steps that promise, and what they promise.
LEMMA PromisedMoves ==
    ASSUME Next
    PROVE  \/ promised' = promised
           \/ (Sync \/ Close) /\ EnableWal /\ promised' = ts
           \/ CloseEnd /\ promised' = ts
<1> USE DEF vars, diskVars, memoryVars, levelVars, threadVars
<1>1. CASE WriterStep
  BY <1>1 DEF WriterStep, Write, Publish, Sync
<1>2. CASE FreezeStep
  BY <1>2 DEF FreezeStep, FreezeCreate, FreezeSwap, FreezeSyncWal, FreezeRecord, FreezeSyncDir
<1>3. CASE FlushStep
  BY <1>3 DEF FlushStep, FlushBuild, FlushInstall, FlushRemoveWal, FlushRecord, FlushSyncDir
<1>4. CASE CompactStep
  BY <1>4 DEF CompactStep, CompactStart, CompactMerge, CompactInstall, CompactSyncDir,
              CompactRecord, CompactRemove
<1>5. CASE RestartStep
  BY <1>5 DEF RestartStep, Close, CloseEnd, Crash, OpenFresh, OpenManifest, OpenRecover,
     OpenRecord, OpenSyncDir
<1> QED BY <1>1, <1>2, <1>3, <1>4, <1>5 DEF Next

\* Commit timestamps go up by one; only a stop takes them back.
LEMMA TimestampMoves ==
    ASSUME Next
    PROVE  ts' = ts \/ ts' = ts + 1 \/ Crash \/ Close \/ CloseEnd \/ OpenRecover
<1> USE DEF vars, diskVars, memoryVars, levelVars, threadVars
<1>1. CASE WriterStep
  BY <1>1 DEF WriterStep, Write, Publish, Sync
<1>2. CASE FreezeStep
  BY <1>2 DEF FreezeStep, FreezeCreate, FreezeSwap, FreezeSyncWal, FreezeRecord, FreezeSyncDir
<1>3. CASE FlushStep
  BY <1>3 DEF FlushStep, FlushBuild, FlushInstall, FlushRemoveWal, FlushRecord, FlushSyncDir
<1>4. CASE CompactStep
  BY <1>4 DEF CompactStep, CompactStart, CompactMerge, CompactInstall, CompactSyncDir,
              CompactRecord, CompactRemove
<1>5. CASE RestartStep
  BY <1>5 DEF RestartStep, OpenFresh, OpenManifest, OpenRecord, OpenSyncDir
<1> QED BY <1>1, <1>2, <1>3, <1>4, <1>5 DEF Next

\* An engine that closes only flushes.
LEMMA ClosingSteps ==
    ASSUME IInv, Next, status = "closing"
    PROVE  FlushStep \/ CloseEnd \/ Crash
<1>1. lock.at \in {"free"} \cup FlushPositions /\ writer = "idle" /\ compaction.at = "idle"
  BY DEF IInv, Phases
<1>2. ~WriterStep
  BY DEF WriterStep, Write, Publish, Sync
<1>3. ~FreezeStep
  BY <1>1 DEF FreezeStep, FreezeCreate, FreezeSwap, FreezeSyncWal, FreezeRecord, FreezeSyncDir,
     FlushPositions
<1>4. ~CompactStep
  BY <1>1 DEF CompactStep, CompactStart, CompactMerge, CompactInstall, CompactSyncDir,
              CompactRecord, CompactRemove, FlushPositions
<1>5. RestartStep => CloseEnd \/ Crash
  BY <1>1 DEF RestartStep, Close, OpenFresh, OpenManifest, OpenRecover, OpenRecord, OpenSyncDir,
     FlushPositions
<1> QED BY <1>2, <1>3, <1>4, <1>5 DEF Next

\* What is recorded is readable, and all that is readable is recorded when the
\* current memtable is, with its log, or when it is empty and nothing is frozen.
LEMMA RecordedReadable ==
    ASSUME IInv, Alive, lock.at # "open.fresh"
    PROVE  /\ RecordedBatches \subseteq Readable
           /\ EnableWal /\ mem \in manifest.mems => Readable = RecordedBatches
           /\ ~EnableWal /\ data[mem] = {} /\ imm = <<>> /\ ~FlushMid =>
                 Readable = RecordedBatches
<1>1. Batches(sst, RecordedSsts) \cup (IF FlushMid THEN data[lock.id] ELSE {})
         = Batches(sst, Ids(l0) \cup Ids(l1))
  BY RecordedHolds
<1>2. Readable = Batches(data, {mem} \cup Ids(imm)) \cup Batches(sst, Ids(l0) \cup Ids(l1))
  BY DEF Readable
<1>3. /\ Ids(imm) \subseteq manifest.mems
      /\ FlushMid => lock.id \in manifest.mems
      /\ EnableWal => \A i \in manifest.mems : data[i] # {} =>
            i = mem \/ i \in Ids(imm) \/ (FlushMid /\ i = lock.id)
  BY DEF IInv, Recording
<1>4. ASSUME EnableWal
      PROVE  Batches(data, manifest.mems) \subseteq
                Batches(data, {mem} \cup Ids(imm)) \cup (IF FlushMid THEN data[lock.id] ELSE {})
  BY <1>3, <1>4 DEF Batches
<1>5. ASSUME EnableWal, mem \in manifest.mems
      PROVE  Batches(data, {mem} \cup Ids(imm)) \cup (IF FlushMid THEN data[lock.id] ELSE {})
                \subseteq Batches(data, manifest.mems)
  BY <1>3, <1>5 DEF Batches
<1>6. RecordedBatches =
         Batches(sst, RecordedSsts) \cup (IF EnableWal THEN Batches(data, manifest.mems) ELSE {})
  BY DEF RecordedBatches
<1>7. data[mem] = {} /\ imm = <<>> => Batches(data, {mem} \cup Ids(imm)) = {}
  BY IdsOf DEF Batches
<1> QED BY <1>1, <1>2, <1>4, <1>5, <1>6, <1>7

\* Nothing is promised beyond the timestamp returned last.
LEMMA PromiseBoundedStep ==
    ASSUME IInv, RInv, Next
    PROVE  PromiseBounded'
<1> USE DEF vars, diskVars, memoryVars, levelVars, threadVars
<1>a. /\ PromiseBounded /\ ManifestThere /\ PromiseRecorded /\ DiskReady
      /\ (ManifestFile \in durable => ManifestFile \in files) /\ Power' = Power
      /\ (~Alive => ts = 0)
  BY SettingKept DEF RInv, DirInv, IInv, Directory, Phases, Power
<1>t. promised \in Nat /\ promised' \in Nat /\ ts \in Nat /\ ts' \in Nat
  <2>1. Typed /\ Typed' /\ MaxBatches \in Nat
    BY TypedStep, Fields DEF IInv
  <2>2. /\ promised \in 0..MaxBatches /\ promised' \in 0..MaxBatches
        /\ ts \in 0..MaxBatches /\ ts' \in 0..MaxBatches
    BY <2>1 DEF Typed
  <2> QED BY <2>1, <2>2
<1>b. /\ Alive => promised <= ts
      /\ promised > 0 => ManifestFile \in durable
  BY <1>a DEF PromiseBounded
<1>1. Alive' => promised' <= ts'
  <2> SUFFICES ASSUME Alive' PROVE promised' <= ts'
    OBVIOUS
  <2>1. ~Crash /\ ~CloseEnd
    BY DEF Crash, CloseEnd, Stopped, Alive
  <2>2. CASE ~Alive
    <3>1. promised' = promised
      <4>1. OpenFresh \/ OpenRecover
        BY <2>2, DownSteps
      <4> QED BY <4>1 DEF OpenFresh, OpenRecover
    <3>2. CASE OpenFresh
      <4>1. ManifestFile \notin files
        BY <3>2 DEF OpenFresh
      <4>2. promised = 0
        BY <1>a, <1>b, <1>t, <4>1
      <4> QED BY <1>t, <3>1, <4>2
    <3>3. CASE OpenRecover
      <4>1. /\ status = "down" /\ ManifestFile \in files /\ Recoverable
            /\ ts' = LatestOf(Recovered)
        BY <2>2, <3>3 DEF OpenRecover, Alive
      <4>2. Recovered = 1..ts' /\ ts' \in 0..MaxBatches
        BY <4>1, RecoverFinds
      <4>3. Recovered = RecordedBatches
        BY <4>1 DEF Recovered, RecordedBatches
      <4>4. 1..promised \subseteq 1..ts'
        BY <1>a, <4>1, <4>2, <4>3 DEF PromiseRecorded
      <4>5. CASE promised = 0
        BY <1>t, <3>1, <4>5
      <4>6. CASE promised > 0
        <5>1. promised \in 1..promised
          BY <1>t, <4>6
        <5>2. promised \in 1..ts'
          BY <4>4, <5>1
        <5> QED BY <1>t, <3>1, <5>2
      <4> QED BY <1>t, <4>5, <4>6
    <3> QED BY <2>2, <3>2, <3>3, DownSteps
  <2>3. CASE Alive
    <3>1. ~OpenRecover
      BY <2>3 DEF OpenRecover, Alive
    <3>2. CASE Close
      <4>1. ts' = ts /\ promised' = promised
        BY <3>2 DEF Close, Stopped, Alive
      <4> QED BY <1>b, <2>3, <4>1
    <3>3. CASE ~Close
      <4>1. ts' = ts \/ ts' = ts + 1
        BY <2>1, <3>1, <3>3, TimestampMoves
      <4>2. promised' = promised \/ promised' = ts
        BY <2>1, PromisedMoves
      <4> QED BY <1>b, <1>t, <2>3, <4>1, <4>2
    <3> QED BY <3>2, <3>3
  <2> QED BY <2>2, <2>3
<1>2. promised' > 0 => ManifestFile \in durable'
  <2>1. CASE Crash
    <3>1. promised' = promised
      BY <2>1 DEF Crash
    <3>2. ManifestFile \in durable => ManifestFile \in durable'
      BY <1>a, <2>1, CrashDirectory
    <3> QED BY <1>b, <3>1, <3>2
  <2>2. CASE ~Crash
    <3>1. ManifestFile \in durable => ManifestFile \in durable'
      BY <1>a, <2>2, FilesKept
    <3>2. promised' = promised \/ status \in {"up", "closing"}
      BY PromisedMoves DEF Sync, Close, CloseEnd
    <3> QED BY <1>a, <1>b, <3>1, <3>2 DEF ManifestThere
  <2> QED BY <2>1, <2>2
<1> QED BY <1>1, <1>2 DEF PromiseBounded

\* The current memtable's promised batches are safe: sync makes them so, a
\* memtable that becomes the current one is empty, and later batches are beyond.
LEMMA PromiseSafeStep ==
    ASSUME IInv, RInv, Next, IInv'
    PROVE  PromiseSafe'
<1> USE DEF vars, diskVars, memoryVars, levelVars, threadVars
<1>a. /\ PromiseSafe /\ PromiseBounded /\ EnableWal' = EnableWal /\ setting' = setting
      /\ Phases /\ IdsFresh
  BY SettingKept DEF RInv, IInv
<1>t. /\ promised \in Nat /\ ts \in Nat /\ mem \in Id /\ nextId \in Nat /\ mem \in Nat
      /\ data \in Content /\ written \in Content /\ synced \in Content /\ imm \in Seq(Id)
      /\ lock.id \in Id
  <2>1. Typed
    BY DEF IInv
  <2>2. /\ mem \in Id /\ Id = 0..MaxId /\ MaxId \in Nat /\ MaxBatches \in Nat
        /\ nextId \in 1..MaxId + 1 /\ imm \in Seq(Id) /\ lock.id \in Id
    BY <2>1, Fields
  <2>3. promised \in 0..MaxBatches /\ ts \in 0..MaxBatches
    BY <2>1 DEF Typed
  <2>4. promised \in Nat /\ ts \in Nat /\ mem \in Nat /\ nextId \in Nat
    BY <2>2, <2>3
  <2> QED BY <2>1, <2>2, <2>4 DEF Typed
<1> SUFFICES ASSUME Alive', EnableWal, NEW b \in data'[mem'], b <= promised'
             PROVE  b \in Safe'[mem']
  BY <1>a DEF PromiseSafe
<1>1. ~Crash /\ ~Close /\ ~CloseEnd
  BY DEF Crash, Close, CloseEnd, Stopped, Alive
<1>2. CASE ~Alive
  <2>1. OpenFresh \/ OpenRecover
    BY <1>2, DownSteps
  <2>2. lock'.at \in OpenPositions
    BY <1>2, <2>1 DEF OpenFresh, OpenRecover, Alive, OpenPositions
  <2>3. data'[mem'] = {}
    BY <2>2 DEF IInv, Holding
  <2> QED BY <2>3
<1>3. CASE Alive
  <2>b. \A c \in data[mem] : c <= promised => c \in Safe[mem]
    BY <1>3, <1>a DEF PromiseSafe
  <2>1. CASE Sync
    <3>1. /\ written' = [written EXCEPT ![mem] = data[mem]]
          /\ synced' = [synced EXCEPT ![mem] = data[mem]]
          /\ data' = data /\ mem' = mem
      BY <2>1 DEF Sync, SyncLog
    <3>2. written'[mem] = data[mem] /\ synced'[mem] = data[mem]
      BY <1>t, <3>1 DEF Content
    <3>3. Safe'[mem] = data[mem]
      BY <3>2 DEF Safe
    <3> QED BY <3>1, <3>3
  <2>2. CASE Write
    <3>1. /\ data' = [data EXCEPT ![mem] = @ \cup {ts + 1}] /\ mem' = mem
          /\ UNCHANGED <<written, synced, promised>>
      BY <2>2 DEF Write
    <3>2. data'[mem] = data[mem] \cup {ts + 1} /\ Safe' = Safe
      BY <1>a, <1>t, <3>1 DEF Content, Safe
    <3>3. promised <= ts
      BY <1>3, <1>a DEF PromiseBounded
    <3>4. b # ts + 1
      BY <1>t, <3>1, <3>3
    <3> QED BY <2>b, <3>1, <3>2, <3>4
  <2>3. CASE FreezeSwap
    <3>1. mem' = lock.id /\ lock.at = "freeze.created" /\ data' = data
      BY <2>3 DEF FreezeSwap
    <3>2. data[lock.id] = {}
      BY <3>1 DEF IInv, Holding
    <3> QED BY <3>1, <3>2
  <2>4. CASE FreezeCreate
    <3>1. /\ data' = [data EXCEPT ![nextId] = {}]
          /\ written' = [written EXCEPT ![nextId] = {}]
          /\ synced' = [synced EXCEPT ![nextId] = {}]
          /\ mem' = mem /\ promised' = promised /\ lock.at = "free"
      BY <2>4 DEF FreezeCreate
    <3>2. mem # nextId
      BY <1>a, <1>t, <3>1 DEF IdsFresh
    <3>3. data'[mem] = data[mem] /\ written'[mem] = written[mem] /\ synced'[mem] = synced[mem]
      BY <1>t, <3>1, <3>2 DEF Content
    <3>4. Safe'[mem] = Safe[mem]
      BY <1>a, <3>3 DEF Safe
    <3> QED BY <2>b, <3>1, <3>3, <3>4
  <2>5. CASE FreezeSyncWal
    <3> DEFINE h == Head(imm)
    <3>1. /\ written' = [written EXCEPT ![h] = data[h]]
          /\ synced' = [synced EXCEPT ![h] = data[h]]
          /\ data' = data /\ mem' = mem /\ promised' = promised /\ lock.at = "freeze.swapped"
      BY <2>5 DEF FreezeSyncWal, SyncLog
    <3>2. h # mem
      <4>1. imm # <<>>
        BY <3>1 DEF IInv, Holding
      <4>2. h \in Ids(imm)
        BY <1>t, <4>1 DEF Ids
      <4> QED BY <1>a, <4>2 DEF IdsFresh, Listed
    <3> HIDE DEF h
    <3>3. written'[mem] = written[mem] /\ synced'[mem] = synced[mem]
      BY <1>t, <3>1, <3>2 DEF Content
    <3>4. Safe'[mem] = Safe[mem]
      BY <1>a, <3>3 DEF Safe
    <3> QED BY <2>b, <3>1, <3>4
  <2>6. CASE ~Sync /\ ~Write /\ ~FreezeSwap /\ ~FreezeCreate /\ ~FreezeSyncWal
    <3>1. UNCHANGED <<data, written, synced, mem, promised>>
      <4>1. CASE WriterStep
        BY <2>6, <4>1 DEF WriterStep, Publish
      <4>2. CASE FreezeStep
        BY <2>6, <4>2 DEF FreezeStep, FreezeRecord, FreezeSyncDir
      <4>3. CASE FlushStep
        BY <4>3 DEF FlushStep, FlushBuild, FlushInstall, FlushRemoveWal, FlushRecord,
           FlushSyncDir
      <4>4. CASE CompactStep
        BY <4>4 DEF CompactStep, CompactStart, CompactMerge, CompactInstall, CompactSyncDir,
           CompactRecord, CompactRemove
      <4>5. CASE RestartStep
        BY <1>1, <1>3, <4>5 DEF RestartStep, OpenFresh, OpenManifest, OpenRecover, OpenRecord,
           OpenSyncDir, Alive
      <4> QED BY <4>1, <4>2, <4>3, <4>4, <4>5 DEF Next
    <3>2. Safe' = Safe
      BY <1>a, <3>1 DEF Safe
    <3> QED BY <2>b, <3>1, <3>2
  <2> QED BY <2>1, <2>2, <2>3, <2>4, <2>5, <2>6
<1> QED BY <1>2, <1>3

\* A crash keeps the promised batches where the manifest finds them.
LEMMA CrashKeepsPromised ==
    ASSUME IInv, RInv, Crash, EnableWal, Survivable(setting)
    PROVE  1..promised' \subseteq RecordedBatches'
<1>a. /\ Recording /\ Logs /\ Holdings /\ PromiseSafe /\ PromiseBounded /\ Phases /\ Holding
  BY DEF RInv, IInv
<1>t. promised \in Nat /\ ts \in Nat /\ manifest.mems \subseteq Id /\ lock.id \in Id
      /\ mem \in Id /\ imm \in Seq(Id)
  <2>1. Typed /\ MaxBatches \in Nat
    BY Fields DEF IInv
  <2>2. promised \in 0..MaxBatches /\ ts \in 0..MaxBatches
    BY <2>1 DEF Typed
  <2> QED BY <2>1, <2>2, Fields
<1>1. /\ manifest' = manifest /\ sst' = sst /\ EnableWal' /\ Alive /\ promised' = promised
      /\ \A i \in Id : Safe[i] \subseteq data'[i]
      /\ lock.at \notin LogWindows
  BY CrashCuts, CrashDirectory DEF Survivable, EnableWal
<1>2. RecordedBatches' = Batches(sst, RecordedSsts) \cup Batches(data', manifest.mems)
  BY <1>1 DEF RecordedBatches, RecordedSsts
<1>3. lock.at # "open.fresh" /\ lock.at # "freeze.swapped"
      /\ lock.at \notin {"freeze.swapped", "freeze.synced", "open.created"}
      /\ status # "closing"
  BY <1>1, <1>a DEF LogWindows, Phases
<1>4. Ids(imm) \subseteq manifest.mems /\ mem \in manifest.mems
      /\ (FlushMid => lock.id \in manifest.mems)
  BY <1>a, <1>1, <1>3 DEF Recording
<1>5. ASSUME NEW b \in 1..promised
      PROVE  b \in RecordedBatches'
  <2>1. b \in Readable
    <3>1. Readable = 1..Top /\ promised <= ts
      BY <1>a, <1>1 DEF Holdings, PromiseBounded
    <3>2. Top = ts \/ Top = ts + 1
      BY DEF Top
    <3> QED BY <1>t, <3>1, <3>2
  <2>2. CASE b \in Batches(sst, Ids(l0) \cup Ids(l1))
    <3>1. b \in Batches(sst, RecordedSsts) \/ (FlushMid /\ b \in data[lock.id])
      BY <1>1, <1>3, <2>2, RecordedHolds
    <3>2. FlushMid => Safe[lock.id] = data[lock.id]
      BY <1>a DEF Logs
    <3>3. FlushMid /\ b \in data[lock.id] => b \in data'[lock.id] /\ lock.id \in manifest.mems
      BY <1>1, <1>4, <1>t, <3>2
    <3> QED BY <1>2, <3>1, <3>3 DEF Batches
  <2>3. CASE b \in data[mem]
    <3>1. b <= promised
      BY <1>t
    <3>2. b \in Safe[mem]
      BY <1>a, <1>1, <2>3, <3>1 DEF PromiseSafe
    <3>3. b \in data'[mem]
      BY <1>1, <1>t, <3>2
    <3> QED BY <1>2, <1>4, <3>3 DEF Batches
  <2>4. CASE \E i \in Ids(imm) : b \in data[i]
    <3>1. PICK p \in 1..Len(imm) : b \in data[imm[p]]
      BY <2>4 DEF Ids
    <3>2. Safe[imm[p]] = data[imm[p]]
      BY <1>a, <1>3 DEF Logs
    <3>3. imm[p] \in Id /\ imm[p] \in Ids(imm)
      BY <1>t DEF Ids
    <3>4. b \in data'[imm[p]]
      BY <1>1, <3>1, <3>2, <3>3
    <3> QED BY <1>2, <1>4, <3>3, <3>4 DEF Batches
  <2> QED BY <2>1, <2>2, <2>3, <2>4 DEF Readable, Batches
<1> QED BY <1>1, <1>5

\* A clean close leaves everything where the manifest finds it.
LEMMA CloseRecords ==
    ASSUME IInv, RInv, (Close /\ EnableWal) \/ CloseEnd
    PROVE  RecordedBatches' = 1..ts /\ promised' = ts /\ Readable = 1..ts
<1>a. /\ Recording /\ Holdings /\ PromiseRecorded /\ Phases
  BY DEF RInv, IInv
<1>1. /\ Alive /\ lock.at = "free" /\ writer = "idle" /\ promised' = ts
      /\ UNCHANGED <<manifest, sst, data, setting>>
      /\ Close => status = "up"
      /\ CloseEnd => status = "closing" /\ imm = <<>>
  BY <1>a DEF Close, CloseEnd, Alive, Phases
<1>2. RecordedBatches' = RecordedBatches
  BY <1>1 DEF RecordedBatches, RecordedSsts, EnableWal
<1>3. Readable = 1..ts
  BY <1>a, <1>1 DEF Holdings, Top
<1>4. CASE Close /\ EnableWal
  <2>1. mem \in manifest.mems
    BY <1>a, <1>1, <1>4 DEF Recording
  <2> QED BY <1>1, <1>2, <1>3, <1>4, <2>1, RecordedReadable
<1>5. CASE CloseEnd
  <2>1. ~EnableWal /\ data[mem] = {} /\ imm = <<>> /\ ~FlushMid
    BY <1>a, <1>1, <1>5 DEF Phases, PromiseRecorded, FlushMid
  <2> QED BY <1>1, <1>2, <1>3, <2>1, RecordedReadable
<1> QED BY <1>4, <1>5

\* Without logs, only the steps of a flush, a compaction or an open touch what is
\* recorded, and they lose nothing of it.
LEMMA RecordedGrows ==
    ASSUME IInv, Next, ManifestFile \in files
    PROVE  Batches(sst, RecordedSsts) \subseteq Batches(sst', RecordedSsts')
<1> USE DEF vars, diskVars, memoryVars, levelVars, threadVars
<1>a. Typed /\ Phases /\ IdsFresh /\ Recording /\ ManifestShape /\ Holding
  BY DEF IInv
<1>t. /\ sst \in Content /\ nextId \in Nat /\ imm \in Seq(Id)
  <2>1. nextId \in 1..MaxId + 1 /\ MaxId \in Nat /\ imm \in Seq(Id)
    BY <1>a, Fields
  <2> QED BY <1>a, <2>1 DEF Typed
<1>1. CASE FlushRecord \/ CompactRecord
  <2>1. manifest'.l0 = l0 /\ manifest'.l1 = l1 /\ Alive /\ sst' = sst
        /\ lock.at # "open.fresh"
    BY <1>1, FlushRecorded, CompactionRecorded DEF FlushRecord, CompactRecord
  <2>2. RecordedSsts' = Ids(l0) \cup Ids(l1)
    BY <2>1 DEF RecordedSsts
  <2> QED BY <2>1, <2>2, RecordedHolds
<1>2. CASE OpenManifest
  <2>1. ManifestFile \notin files
    BY <1>2 DEF IInv, Directory, OpenManifest
  <2> QED BY <2>1
<1>3. CASE ~FlushRecord /\ ~CompactRecord /\ ~OpenManifest
  <2>1. RecordedSsts' = RecordedSsts
    <3>1. manifest'.l0 = manifest.l0 /\ manifest'.l1 = manifest.l1
      BY <1>3, ManifestKept, MemtableRecorded
    <3> QED BY <3>1 DEF RecordedSsts
  <2>2. \A i \in RecordedSsts : sst'[i] = sst[i]
    <3>1. CASE FlushBuild
      <4>1. /\ sst' = [sst EXCEPT ![Last(imm)] = data[Last(imm)]]
            /\ imm # <<>> /\ lock.at = "free" /\ Alive
        BY <3>1 DEF FlushBuild, Running, Alive
      <4>2. Last(imm) \in Ids(imm)
        BY <1>t, <4>1, FrontOf
      <4>3. Last(imm) \notin RecordedSsts
        BY <1>a, <4>1, <4>2 DEF Recording, ManifestShape
      <4> HIDE DEF RecordedSsts
      <4>4. \A i : i # Last(imm) => sst'[i] = sst[i]
        BY <1>t, <4>1 DEF Content
      <4> QED BY <4>3, <4>4
    <3>2. CASE CompactMerge
      <4>1. \E X : sst' = [sst EXCEPT ![nextId] = X]
        BY <3>2 DEF CompactMerge
      <4>2. compaction.at = "merging" /\ Alive
        BY <3>2, <1>a DEF CompactMerge, Phases, NoCompaction
      <4>3. nextId \notin RecordedSsts
        <5>1. ~CompactMid /\ lock.at # "open.fresh"
          BY <1>a, <4>2 DEF Holding, Phases, OpenPositions
        <5>2. manifest.l1 = l1 /\ IF FlushMid THEN l0 = <<lock.id>> \o manifest.l0
                                  ELSE manifest.l0 = l0
          BY <1>a, <4>2, <5>1 DEF Recording
        <5>3. Ids(manifest.l0) \subseteq Ids(l0)
          <6>1. lock.id \in Id /\ manifest.l0 \in Seq(Id)
            BY <1>a, Fields
          <6>2. Ids(<<lock.id>> \o manifest.l0) = {lock.id} \cup Ids(manifest.l0)
            BY <6>1, Prepended
          <6> QED BY <5>2, <6>2
        <5>4. \A i \in Ids(l0) \cup Ids(l1) : i < nextId
          BY <1>a DEF IdsFresh, Listed
        <5>5. nextId \notin Ids(l0) \cup Ids(l1)
          BY <1>t, <5>4
        <5> QED BY <5>2, <5>3, <5>5 DEF RecordedSsts
      <4>4. \A i : i # nextId => sst'[i] = sst[i]
        BY <1>t, <4>1 DEF Content
      <4> QED BY <4>3, <4>4
    <3>3. CASE ~FlushBuild /\ ~CompactMerge
      <4>1. sst' = sst
        <5>1. CASE WriterStep \/ FreezeStep
          BY <5>1 DEF WriterStep, Write, Publish, Sync, FreezeStep, FreezeCreate, FreezeSwap,
             FreezeSyncWal, FreezeRecord, FreezeSyncDir
        <5>2. CASE FlushStep \/ CompactStep
          BY <3>3, <5>2 DEF FlushStep, FlushInstall, FlushRemoveWal, FlushRecord,
             FlushSyncDir, CompactStep, CompactStart, CompactInstall, CompactSyncDir,
             CompactRecord, CompactRemove
        <5>3. CASE RestartStep
          BY <5>3 DEF RestartStep, Close, CloseEnd, Crash, OpenFresh, OpenManifest,
             OpenRecover, OpenRecord, OpenSyncDir
        <5> QED BY <5>1, <5>2, <5>3 DEF Next
      <4> QED BY <4>1
    <3> QED BY <3>1, <3>2, <3>3
  <2>3. Batches(sst', RecordedSsts) = Batches(sst, RecordedSsts)
    BY <2>2, BatchesSame
  <2> QED BY <2>1, <2>3
<1> QED BY <1>1, <1>2, <1>3

\* What is promised stays where open will find it.
LEMMA PromiseRecordedStep ==
    ASSUME IInv, RInv, Next, Survivable(setting)
    PROVE  PromiseRecorded'
<1> USE DEF vars, diskVars, memoryVars, levelVars, threadVars
<1>a. /\ PromiseRecorded /\ PromiseBounded /\ EnableWal' = EnableWal /\ Phases
      /\ (ManifestFile \in durable => ManifestFile \in files)
  BY SettingKept DEF RInv, IInv, Directory
<1>t. /\ promised \in Nat /\ ts \in Nat /\ data \in Content /\ nextId \in Nat
  <2>1. Typed /\ MaxBatches \in Nat /\ nextId \in 1..MaxId + 1 /\ MaxId \in Nat
    BY Fields DEF IInv
  <2>2. promised \in 0..MaxBatches /\ ts \in 0..MaxBatches /\ data \in Content
    BY <2>1 DEF Typed
  <2> QED BY <2>1, <2>2
<1>1. ASSUME ~EnableWal
      PROVE  1..promised' \subseteq RecordedBatches'
  <2>1. /\ RecordedBatches = Batches(sst, RecordedSsts)
        /\ RecordedBatches' = Batches(sst', RecordedSsts')
    BY <1>1, <1>a DEF RecordedBatches
  <2>2. CASE CloseEnd
    BY <2>2, CloseRecords
  <2>3. CASE ~CloseEnd
    <3>1. promised' = promised
      BY <1>1, <2>3, PromisedMoves
    <3>2. CASE promised = 0
      BY <3>1, <3>2
    <3>3. CASE promised > 0
      <4>1. ManifestFile \in files
        BY <1>a, <3>3 DEF PromiseBounded
      <4>2. 1..promised \subseteq RecordedBatches
        BY <1>1, <1>a DEF PromiseRecorded
      <4> QED BY <2>1, <3>1, <4>1, <4>2, RecordedGrows
    <3> QED BY <1>t, <3>2, <3>3
  <2> QED BY <2>2, <2>3
<1>2. ASSUME EnableWal, status' = "down"
      PROVE  1..promised' \subseteq RecordedBatches'
  <2>1. Crash \/ Close \/ CloseEnd
    <3>1. CASE ~Alive
      BY <1>2, <3>1, DownSteps DEF OpenFresh, OpenRecover
    <3>2. CASE Alive
      <4>1. ~OpenFresh /\ ~OpenRecover
        BY <3>2 DEF Alive, OpenFresh, OpenRecover
      <4> QED BY <1>2, <3>2, <4>1, StatusMoves DEF Alive, OpenSyncDir
    <3> QED BY <3>1, <3>2
  <2>2. CASE Crash
    BY <1>2, <2>2, CrashKeepsPromised
  <2>3. CASE Close \/ CloseEnd
    BY <1>2, <2>3, CloseRecords
  <2> QED BY <2>1, <2>2, <2>3
<1>3. ASSUME status' = "closing"
      PROVE  data'[mem'] = {}
  <2>1. CASE Close
    <3>1. CASE data[mem] # {}
      <4>1. /\ nextId <= MaxId /\ mem' = nextId /\ data' = [data EXCEPT ![nextId] = {}]
        BY <1>3, <2>1, <3>1 DEF Close, IdLeft, Stopped
      <4>2. nextId \in Id
        <5>1. Id = 0..MaxId /\ MaxId \in Nat
          BY Fields DEF IInv
        <5> QED BY <1>t, <4>1, <5>1
      <4> QED BY <1>t, <4>1, <4>2 DEF Content
    <3>2. CASE data[mem] = {}
      BY <1>3, <2>1, <3>2 DEF Close, Stopped
    <3> QED BY <3>1, <3>2
  <2>2. CASE status = "closing"
    <3>1. FlushStep
      BY <1>3, <2>2, ClosingSteps DEF CloseEnd, Crash, Stopped
    <3>2. data' = data /\ mem' = mem
      BY <3>1 DEF FlushStep, FlushBuild, FlushInstall, FlushRemoveWal, FlushRecord, FlushSyncDir
    <3> QED BY <1>a, <2>2, <3>2 DEF PromiseRecorded
  <2>3. CASE status # "closing" /\ ~Close
    <3>1. Crash \/ CloseEnd \/ OpenFresh \/ OpenRecover \/ OpenSyncDir
      BY <1>3, <2>3, StatusMoves
    <3> QED BY <1>3, <3>1 DEF Crash, CloseEnd, Stopped, OpenFresh, OpenRecover, OpenSyncDir
  <2> QED BY <2>1, <2>2, <2>3
<1> QED BY <1>1, <1>2, <1>3, <1>a DEF PromiseRecorded

-----------------------------------------------------------------------------
(* The invariant, and what follows from it.                                *)

\* It holds of an empty directory.
LEMMA InitRInv == Init => RInv
<1> SUFFICES ASSUME Init PROVE RInv
  OBVIOUS
<1>1. /\ files = {} /\ durable = {} /\ manifest = EmptyManifest /\ torn = {}
      /\ status = "down" /\ lock = NoLock /\ compaction = NoCompaction /\ promised = 0
  BY DEF Init
<1>2. ~Alive /\ lock.at = "free" /\ compaction.at = "idle"
  BY <1>1 DEF Alive, NoLock, NoCompaction
<1>3. ManifestThere
  BY <1>1, <1>2 DEF ManifestThere
<1>4. LogsListed /\ LogsOpen /\ LogsNumbered
  BY <1>1, <1>2 DEF LogsListed, LogsOpen, LogsNumbered
<1>5. TablesListed /\ Removing
  BY <1>1, <1>2 DEF TablesListed, Removing
<1>6. DiskReady
  BY <1>1 DEF DiskReady, Recoverable
<1>7. PromiseBounded /\ PromiseSafe /\ PromiseRecorded
  BY <1>1, <1>2 DEF PromiseBounded, PromiseSafe, PromiseRecorded
<1> QED BY <1>3, <1>4, <1>5, <1>6, <1>7 DEF RInv, DirInv

\* It depends on nothing but the variables.
LEMMA StutterRInv ==
    ASSUME RInv, UNCHANGED vars
    PROVE  RInv'
<1> USE DEF vars, diskVars, memoryVars, levelVars, threadVars
<1>1. /\ Alive' = Alive /\ EnableWal' = EnableWal /\ Safe' = Safe /\ Listed' = Listed
      /\ RecordedSsts' = RecordedSsts /\ Power' = Power
  BY DEF Alive, EnableWal, Safe, Listed, RecordedSsts, Power
<1>2. RecordedBatches' = RecordedBatches /\ Recoverable' = Recoverable
  BY <1>1 DEF RecordedBatches, Recoverable
<1>3. ManifestThere' /\ LogsOpen' /\ LogsNumbered'
  BY <1>1 DEF RInv, DirInv, ManifestThere, LogsOpen, LogsNumbered
<1>4. LogsListed' /\ TablesListed'
  BY <1>1 DEF RInv, DirInv, LogsListed, TablesListed
<1>5. Removing' /\ DiskReady'
  BY <1>1, <1>2 DEF RInv, DirInv, Removing, DiskReady
<1>6. PromiseBounded' /\ PromiseSafe' /\ PromiseRecorded'
  BY <1>1, <1>2 DEF RInv, PromiseBounded, PromiseSafe, PromiseRecorded
<1> QED BY <1>3, <1>4, <1>5, <1>6 DEF RInv, DirInv

\* Every step keeps it.
LEMMA RInvStep ==
    ASSUME IInv, RInv, Next, Survivable(setting)
    PROVE  RInv'
<1>1. IInv'
  BY IInvStep
<1>2. DirInv'
  BY DirStep DEF RInv
<1> QED BY <1>1, <1>2, PromiseBoundedStep, PromiseSafeStep, PromiseRecordedStep DEF RInv

\* The invariant holds in every reachable state.
LEMMA RecoveryInvariance ==
    ASSUME \A s \in Settings : Survivable(s)
    PROVE  Spec => [](IInv /\ RInv)
<1>1. IInv /\ RInv /\ [Next]_vars => IInv' /\ RInv'
  <2>1. IInv => Survivable(setting)
    BY DEF IInv, Typed
  <2> QED BY <2>1, RInvStep, StutterRInv, IInvStep, StutterIInv
<1> QED BY <1>1, InitIInv, InitRInv, PTL DEF Spec

(***************************************************************************)
(* If no crash comes in one of the windows, open never gives an error, as  *)
(* often as the engine crashes or closes, in the middle of whatever else,  *)
(* and whatever of the unsynced names a machine crash undoes (lsm_storage.rs *)
(* open, manifest.rs recover, wal.rs create and recover).                  *)
(***************************************************************************)
THEOREM OpenSucceeds ==
    ASSUME \A s \in Settings : Survivable(s)
    PROVE  Spec => []RecoverySucceeds
<1>1. RInv => RecoverySucceeds
  BY DEF RInv, DirInv, DiskReady, RecoverySucceeds
<1> QED BY <1>1, RecoveryInvariance, PTL

(***************************************************************************)
(* Under the same hypothesis, what sync or close promised is loaded again  *)
(* after every stop (lsm_storage.rs sync, close, open).                    *)
(***************************************************************************)
THEOREM PromisedIsRecovered ==
    ASSUME \A s \in Settings : Survivable(s)
    PROVE  Spec => []SyncedRecovered
<1>1. IInv /\ RInv => SyncedRecovered
  <2> SUFFICES ASSUME IInv, RInv, status \in {"down", "failed"}
               PROVE  1..promised \subseteq Recovered
    BY DEF SyncedRecovered
  <2>1. status = "down" /\ Recoverable
    BY DEF RInv, DirInv, DiskReady
  <2>2. CASE ManifestFile \in files
    <3>1. Recovered = RecordedBatches
      BY <2>1, <2>2 DEF Recovered, RecordedBatches
    <3> QED BY <2>1, <3>1 DEF RInv, PromiseRecorded
  <2>3. CASE ManifestFile \notin files
    <3>1. ~(promised > 0)
      BY <2>3 DEF RInv, PromiseBounded, IInv, Directory
    <3>2. promised \in Nat
      <4>1. promised \in 0..MaxBatches /\ MaxBatches \in Nat
        BY Fields DEF IInv, Typed
      <4> QED BY <4>1
    <3> QED BY <3>1, <3>2
  <2> QED BY <2>2, <2>3
<1> QED BY <1>1, RecoveryInvariance, PTL

-----------------------------------------------------------------------------
(* What sync has promised of a memtable that is being frozen.              *)

FrozenSafe ==
    EnableWal /\ lock.at = "freeze.swapped" =>
        \A b \in data[imm[1]] : b <= promised => b \in Safe[imm[1]]

\* While the log of the memtable just frozen is not synced, it holds no promise
\* that was not safe before.
LEMMA FrozenSafeStep ==
    ASSUME IInv, RInv, FrozenSafe, Next, SyncsCovered(setting)
    PROVE  FrozenSafe'
<1> USE DEF vars, diskVars, memoryVars, levelVars, threadVars
<1>a. /\ EnableWal' = EnableWal /\ setting' = setting /\ Phases /\ IdsFresh /\ Holding
      /\ PromiseSafe /\ (~Alive => lock.at = "free")
  <2>1. ~Alive => lock = NoLock
    BY DEF IInv, Phases
  <2> QED BY <2>1, SettingKept DEF RInv, IInv, NoLock
<1>t. /\ data \in Content /\ imm \in Seq(Id) /\ mem \in Id /\ lock \in Position
  <2>1. Typed
    BY DEF IInv
  <2> QED BY <2>1, Fields DEF Typed
<1> SUFFICES ASSUME EnableWal, lock'.at = "freeze.swapped",
                    NEW b \in data'[imm'[1]], b <= promised'
             PROVE  b \in Safe'[imm'[1]]
  BY <1>a DEF FrozenSafe
<1>1. Alive /\ ~Crash
  <2>1. ~Crash
    BY CrashDirectory DEF NoLock
  <2>2. ~Alive => lock'.at # "freeze.swapped"
    BY <1>a, DownSteps DEF OpenFresh, OpenRecover
  <2> QED BY <2>1, <2>2
<1>2. CASE FreezeSwap
  <2>1. /\ imm' = <<mem>> \o imm /\ UNCHANGED <<data, written, synced, promised>>
    BY <1>2 DEF FreezeSwap
  <2>2. imm'[1] = mem
    BY <1>t, <2>1, Prepended
  <2>3. Safe' = Safe
    BY <1>a, <2>1 DEF Safe
  <2> QED BY <1>1, <1>a, <2>1, <2>2, <2>3 DEF PromiseSafe
<1>3. CASE ~FreezeSwap
  <2>1. lock.at = "freeze.swapped" /\ lock' = lock
    <3>1. CASE lock.at = "free" /\ lock' # lock
      <4>1. ~WriterStep
        BY <3>1 DEF WriterStep, Write, Publish, Sync
      <4>2. ~FreezeStep
        BY <1>3, <3>1 DEF FreezeStep, FreezeCreate, FreezeSyncWal, FreezeRecord, FreezeSyncDir
      <4>3. ~FlushStep
        BY <3>1 DEF FlushStep, FlushBuild, FlushInstall, FlushRemoveWal, FlushRecord,
           FlushSyncDir
      <4>4. ~CompactStep
        BY <3>1 DEF CompactStep, CompactStart, CompactMerge, CompactInstall,
           CompactSyncDir, CompactRecord, CompactRemove
      <4>5. ~RestartStep
        BY <1>1, <3>1 DEF RestartStep, Close, CloseEnd, Stopped, NoLock, OpenManifest,
           OpenRecord, OpenSyncDir, OpenFresh, OpenRecover, Alive
      <4> QED BY <4>1, <4>2, <4>3, <4>4, <4>5 DEF Next
    <3>2. CASE lock.at # "free" /\ lock' # lock
      <4>1. Holder
        BY <1>1, <3>2, LockMoves
      <4> QED BY <1>3, <1>t, <4>1 DEF Holder, FreezeSyncWal, FreezeRecord, FreezeSyncDir,
           FlushInstall, FlushRemoveWal, FlushRecord, FlushSyncDir, At, NoLock, Position,
           CompactSyncDir, CompactRecord, OpenManifest, OpenRecord, OpenSyncDir
    <3>3. CASE lock' = lock
      BY <3>3
    <3> QED BY <3>1, <3>2, <3>3
  <2>2. status = "up"
    BY <1>1, <1>a, <2>1 DEF Phases, Alive, OpenPositions, FlushPositions
  <2>3. ~Sync
    BY <2>1 DEF Sync, SyncsCovered
  <2>4. imm # <<>> /\ imm[1] \in Ids(imm) /\ imm[1] \in Id /\ imm[1] # mem
    <3>1. imm # <<>>
      BY <1>a, <2>1 DEF Holding
    <3>2. imm[1] \in Ids(imm) /\ imm[1] \in Id
      BY <1>t, <3>1 DEF Ids
    <3> QED BY <1>a, <3>1, <3>2 DEF IdsFresh, Listed
  <2>5. /\ UNCHANGED <<written, synced, promised, imm>>
        /\ data' = data \/ data' = [data EXCEPT ![mem] = @ \cup {ts + 1}]
    <3>1. CASE WriterStep
      BY <2>3, <3>1 DEF WriterStep, Write, Publish
    <3>2. CASE FreezeStep
      BY <1>3, <1>t, <2>1, <3>2 DEF FreezeStep, FreezeCreate, FreezeSyncWal, FreezeRecord,
         FreezeSyncDir, At, Position, NoLock
    <3>3. CASE FlushStep
      BY <2>1, <3>3 DEF FlushStep, FlushBuild, FlushInstall, FlushRemoveWal, FlushRecord,
         FlushSyncDir
    <3>4. CASE CompactStep
      BY <2>1, <3>4 DEF CompactStep, CompactStart, CompactMerge, CompactInstall,
         CompactSyncDir, CompactRecord, CompactRemove
    <3>5. CASE RestartStep
      BY <1>1, <2>1, <2>2, <3>5 DEF RestartStep, Close, CloseEnd, OpenFresh, OpenManifest,
         OpenRecover, OpenRecord, OpenSyncDir
    <3> QED BY <3>1, <3>2, <3>3, <3>4, <3>5 DEF Next
  <2>6. data'[imm[1]] = data[imm[1]] /\ Safe' = Safe
    <3>1. Safe' = Safe
      BY <1>a, <2>5 DEF Safe
    <3>2. data'[imm[1]] = data[imm[1]]
      BY <1>t, <2>4, <2>5 DEF Content
    <3> QED BY <3>1, <3>2
  <2> QED BY <2>1, <2>5, <2>6 DEF FrozenSafe
<1> QED BY <1>2, <1>3

\* With machine crashes, a running engine's promised batches are on the disk.
LEMMA RunningPersists ==
    ASSUME IInv, RInv, FrozenSafe, Alive, lock.at # "open.fresh", EnableWal, Power
    PROVE  1..promised \subseteq Batches(synced, {i \in Id : Wal(i) \in files})
                                    \cup Batches(sst, {i \in Id : Sst(i) \in files})
<1>a. /\ Holdings /\ Logs /\ Recording /\ Holding /\ IdsFresh
      /\ LogsListed /\ LogsOpen /\ TablesListed /\ Directory
      /\ PromiseBounded /\ PromiseSafe /\ Safe = synced
  BY DEF IInv, RInv, DirInv, Safe, Power
<1>t. /\ promised \in Nat /\ ts \in Nat /\ imm \in Seq(Id) /\ mem \in Id
      /\ l0 \in Seq(Id) /\ l1 \in Seq(Id) /\ compaction.out \in Id /\ lock.id \in Id
      /\ manifest.l0 \in Seq(Id)
  <2>1. Typed /\ MaxBatches \in Nat
    BY Fields DEF IInv
  <2>2. promised \in 0..MaxBatches /\ ts \in 0..MaxBatches
    BY <2>1 DEF Typed
  <2> QED BY <2>1, <2>2, Fields
<1>1. \A i \in Ids(l0) \cup Ids(l1) : i \in Id /\ Sst(i) \in files
  <2>1. \A i \in RecordedSsts : Sst(i) \in files
    BY <1>a DEF TablesListed
  <2>2. Ids(l0) \cup Ids(l1) \subseteq
           RecordedSsts \cup (IF FlushMid THEN {lock.id} ELSE {})
              \cup (IF CompactMid THEN {compaction.out} ELSE {})
    <3>1. ~(FlushMid /\ CompactMid)
      BY DEF FlushMid, CompactMid, CompactPositions
    <3>2. FlushMid => Ids(l0) = {lock.id} \cup Ids(manifest.l0) /\ l1 = manifest.l1
      <4>1. FlushMid => l0 = <<lock.id>> \o manifest.l0 /\ l1 = manifest.l1
        BY <1>a, <3>1 DEF Recording
      <4>2. Ids(<<lock.id>> \o manifest.l0) = {lock.id} \cup Ids(manifest.l0)
        BY <1>t, Prepended
      <4> QED BY <4>1, <4>2
    <3>3. CompactMid => Ids(l0) \subseteq Ids(manifest.l0) /\ Ids(l1) = {compaction.out}
      <4>1. CompactMid => manifest.l0 = l0 \o compaction.l0 /\ l1 = <<compaction.out>>
        BY <1>a, InputsLastRecorded DEF Holding
      <4>2. compaction.l0 \in Seq(Id)
        BY Fields DEF IInv
      <4>3. Ids(l0 \o compaction.l0) = Ids(l0) \cup Ids(compaction.l0)
            /\ Ids(<<compaction.out>>) = {compaction.out}
        BY <1>t, <4>2, IdsOf
      <4> QED BY <4>1, <4>3
    <3>4. ~FlushMid /\ ~CompactMid => l0 = manifest.l0 /\ l1 = manifest.l1
      BY <1>a DEF Recording
    <3> QED BY <3>1, <3>2, <3>3, <3>4 DEF RecordedSsts
  <2>3. FlushMid => Sst(lock.id) \in files
    BY <1>a DEF TablesListed, FlushMid, FlushPositions
  <2>4. CompactMid => Sst(compaction.out) \in files
    BY <1>a DEF Directory, Holding
  <2>5. Ids(l0) \cup Ids(l1) \subseteq Id
    BY <1>t, IdsOf
  <2> QED BY <2>1, <2>2, <2>3, <2>4, <2>5
<1>2. ASSUME NEW b \in 1..promised
      PROVE  \/ \E i \in Id : Wal(i) \in files /\ b \in synced[i]
             \/ \E i \in Id : Sst(i) \in files /\ b \in sst[i]
  <2>1. b \in Readable
    <3>1. Readable = 1..Top /\ promised <= ts
      BY <1>a DEF Holdings, PromiseBounded
    <3>2. Top = ts \/ Top = ts + 1
      BY DEF Top
    <3> QED BY <1>t, <3>1, <3>2
  <2>2. b <= promised
    BY <1>t
  <2>3. CASE b \in Batches(sst, Ids(l0) \cup Ids(l1))
    BY <1>1, <2>3 DEF Batches
  <2>4. CASE b \in data[mem]
    BY <1>a, <1>t, <2>2, <2>4 DEF PromiseSafe, LogsOpen
  <2>5. CASE \E i \in Ids(imm) : b \in data[i]
    <3>1. PICK p \in 1..Len(imm) : b \in data[imm[p]]
      BY <2>5 DEF Ids
    <3>2. imm[p] \in Ids(imm) /\ imm[p] \in Id
      BY <1>t DEF Ids
    <3>3. b \in synced[imm[p]]
      <4>1. CASE Safe[imm[p]] = data[imm[p]]
        BY <1>a, <3>1, <4>1
      <4>2. CASE p = 1 /\ lock.at = "freeze.swapped"
        BY <1>a, <2>2, <3>1, <4>2 DEF FrozenSafe
      <4> QED BY <1>a, <4>1, <4>2 DEF Logs
    <3>4. lock.at = "flush.wal_removed" => imm[p] # lock.id
      <4>1. lock.at = "flush.wal_removed" => l0 # <<>> /\ lock.id = l0[1]
        BY <1>a DEF Holding, FlushPositions
      <4>2. l0 # <<>> => l0[1] \in Ids(l0)
        BY <1>t DEF Ids
      <4> QED BY <1>a, <3>2, <4>1, <4>2 DEF IdsFresh
    <3>5. imm[p] \in manifest.mems
      BY <1>a, <3>2 DEF Recording
    <3>6. Wal(imm[p]) \in files
      BY <1>a, <3>4, <3>5 DEF LogsListed
    <3> QED BY <3>2, <3>3, <3>6
  <2> QED BY <2>1, <2>3, <2>4, <2>5 DEF Readable, Batches
<1> QED BY <1>2 DEF Batches

(***************************************************************************)
(* If, besides, sync is not called while the log of the memtable just      *)
(* frozen waits for its own sync, what sync returned for is on the disk    *)
(* from then on: in the synced part of a log in the directory, or in an    *)
(* SST in the directory (lsm_storage.rs sync, force_freeze_memtable,       *)
(* force_flush_next_imm_memtable).                                         *)
(***************************************************************************)
THEOREM SyncedPersists ==
    ASSUME \A s \in Settings : Survivable(s) /\ SyncsCovered(s)
    PROVE  Spec => []SyncPersists
<1>1. Init => FrozenSafe
  BY DEF Init, FrozenSafe, NoLock
<1>2. IInv /\ RInv /\ FrozenSafe /\ [Next]_vars => FrozenSafe'
  <2>1. IInv => SyncsCovered(setting)
    BY DEF IInv, Typed
  <2>2. ASSUME FrozenSafe, UNCHANGED vars PROVE FrozenSafe'
    BY <2>2 DEF FrozenSafe, EnableWal, Safe, vars, diskVars, memoryVars, levelVars, threadVars
  <2> QED BY <2>1, <2>2, FrozenSafeStep
<1>3. IInv /\ RInv /\ FrozenSafe => SyncPersists
  <2> DEFINE logs == Batches(synced, {i \in Id : Wal(i) \in files})
             tables == Batches(sst, {i \in Id : Sst(i) \in files})
  <2> SUFFICES ASSUME IInv, RInv, FrozenSafe, EnableWal, Power
               PROVE  1..promised \subseteq logs \cup tables
    BY DEF SyncPersists, Power
  <2>1. promised \in Nat /\ manifest.mems \subseteq Id /\ RecordedSsts \subseteq Id
    <3>1. promised \in 0..MaxBatches /\ MaxBatches \in Nat
      BY Fields DEF IInv, Typed
    <3>2. manifest.l0 \in Seq(Id) /\ manifest.l1 \in Seq(Id) /\ manifest.mems \subseteq Id
      BY Fields DEF IInv
    <3> QED BY <3>1, <3>2, IdsOf DEF RecordedSsts
  <2>2. CASE ManifestFile \notin files
    <3>1. promised = 0
      BY <2>1, <2>2 DEF RInv, PromiseBounded, IInv, Directory
    <3> QED BY <3>1
  <2>3. CASE Alive /\ ManifestFile \in files
    <3>1. lock.at # "open.fresh"
      BY <2>3 DEF IInv, Directory
    <3> QED BY <2>3, <3>1, RunningPersists
  <2>4. CASE ~Alive /\ ManifestFile \in files
    <3>1. status = "down"
      BY <2>4 DEF RInv, DirInv, DiskReady, Alive, IInv, Typed
    <3>2. Recoverable /\ 1..promised \subseteq RecordedBatches
      BY <3>1 DEF RInv, DirInv, DiskReady, PromiseRecorded
    <3>3. \A i \in manifest.mems : synced[i] = data[i]
      BY <2>4 DEF IInv, OnDisk, Safe, Power
    <3>4. /\ \A i \in RecordedSsts : Sst(i) \in files
          /\ \A i \in manifest.mems : Wal(i) \in files
      BY <2>4, <3>2 DEF Recoverable
    <3>5. Batches(data, manifest.mems) \subseteq logs
      BY <2>1, <3>3, <3>4 DEF Batches
    <3>6. Batches(sst, RecordedSsts) \subseteq tables
      BY <2>1, <3>4 DEF Batches
    <3> HIDE DEF logs, tables
    <3> QED BY <3>2, <3>5, <3>6 DEF RecordedBatches
  <2> QED BY <2>2, <2>3, <2>4
<1>4. Spec => [](IInv /\ RInv)
  <2>1. \A s \in Settings : Survivable(s)
    OBVIOUS
  <2> QED BY <2>1, RecoveryInvariance
<1> QED BY <1>1, <1>2, <1>3, <1>4, PTL DEF Spec

-----------------------------------------------------------------------------
(* The log of batches.                                                     *)

\* What the abstract log is taken to hold.
Contents == IF Alive THEN Readable ELSE Recovered

\* While the engine runs, only a write adds to what it holds.
LEMMA TopMoves ==
    ASSUME IInv, Next, Alive, Alive'
    PROVE  Top' = Top \/ (Top' = Top + 1 /\ promised' = promised)
<1> USE DEF vars, diskVars, memoryVars, levelVars, threadVars
<1>1. CASE Write
  BY <1>1 DEF Write, Top
<1>2. CASE Publish
  BY <1>2 DEF Publish, Top
<1>3. CASE Sync
  BY <1>3 DEF Sync, Top
<1>4. CASE FreezeStep
  <2>1. CASE FreezeCreate
    BY <2>1 DEF FreezeCreate, Top
  <2>2. CASE FreezeSyncDir
    BY <2>2 DEF FreezeSyncDir, Top
  <2>3. CASE FreezeSwap \/ FreezeSyncWal \/ FreezeRecord
    BY <2>3 DEF FreezeSwap, FreezeSyncWal, FreezeRecord, Top
  <2> QED BY <1>4, <2>1, <2>2, <2>3 DEF FreezeStep
<1>5. CASE FlushStep
  BY <1>5 DEF FlushStep, FlushBuild, FlushInstall, FlushRemoveWal, FlushRecord, FlushSyncDir, Top
<1>6. CASE CompactStep
  BY <1>6 DEF CompactStep, CompactStart, CompactMerge, CompactInstall, CompactSyncDir,
              CompactRecord, CompactRemove, Top
<1>7. CASE RestartStep
  <2>1. ~Crash /\ ~CloseEnd
    BY DEF Crash, CloseEnd, Stopped, Alive
  <2>2. ~OpenFresh /\ ~OpenRecover
    BY DEF OpenFresh, OpenRecover, Alive
  <2>3. CASE Close
    BY <2>3 DEF Close, Stopped, Alive, Top
  <2>4. CASE OpenManifest \/ OpenRecord \/ OpenSyncDir
    BY <2>4 DEF OpenManifest, OpenRecord, OpenSyncDir, Top
  <2> QED BY <1>7, <2>1, <2>2, <2>3, <2>4 DEF RestartStep
<1> QED BY <1>1, <1>2, <1>3, <1>4, <1>5, <1>6, <1>7 DEF Next, WriterStep

\* A gapless set of batches has as many as its latest says.
LEMMA GaplessSize ==
    ASSUME NEW n \in Nat
    PROVE  Cardinality(1..n) = n
<1>1. Cardinality(1..n) = IF 1 > n THEN 0 ELSE n - 1 + 1
  BY FS_Interval
<1> QED BY <1>1

\* What open loads when it gets through.
LEMMA RecoveredIs ==
    ASSUME Recoverable
    PROVE  Recovered = IF ManifestFile \in files THEN RecordedBatches ELSE {}
BY DEF Recovered, RecordedBatches

\* While the engine runs, the log grows at its end or is promised.
LEMMA RunningRefines ==
    ASSUME IInv, RInv, IInv', Next, Alive, Alive'
    PROVE  \/ Contents' = Contents /\ promised' = promised
           \/ Contents' = Contents /\ promised' \in promised..Cardinality(Contents)
           \/ Contents' = Contents \cup {Cardinality(Contents) + 1} /\ promised' = promised
<1>1. Contents = 1..Top /\ Contents' = 1..Top'
  BY DEF Contents, IInv, Holdings
<1>2. /\ promised \in Nat /\ ts \in Nat /\ Top \in Nat /\ ts <= Top
      /\ promised <= ts
  <2>1. promised \in 0..MaxBatches /\ ts \in 0..MaxBatches /\ MaxBatches \in Nat
    BY Fields DEF IInv, Typed
  <2>2. promised <= ts
    BY DEF RInv, PromiseBounded
  <2> QED BY <2>1, <2>2 DEF Top
<1>3. Cardinality(Contents) = Top
  BY <1>1, <1>2, GaplessSize
<1>4. promised' = promised \/ promised' = ts
  BY PromisedMoves
<1>5. CASE Top' = Top
  BY <1>1, <1>2, <1>3, <1>4, <1>5
<1>6. CASE Top' = Top + 1 /\ promised' = promised
  <2>1. 1..Top + 1 = 1..Top \cup {Top + 1}
    BY <1>2
  <2> QED BY <1>1, <1>3, <1>6, <2>1
<1> QED BY <1>5, <1>6, TopMoves

\* open shows what it found.
LEMMA OpenRefines ==
    ASSUME IInv, RInv, IInv', RInv', Next, ~Alive
    PROVE  Contents' = Contents /\ promised' = promised
<1>1. status = "down" /\ (OpenFresh \/ OpenRecover) /\ Recoverable
  BY DownSteps DEF RInv, DirInv, DiskReady
<1>2. promised' = promised
  BY <1>1 DEF OpenFresh, OpenRecover
<1>3. Contents = IF ManifestFile \in files THEN RecordedBatches ELSE {}
  BY RecoveredIs, <1>1 DEF Contents
<1>4. Alive' /\ writer = "idle" /\ writer' = "idle"
  BY <1>1 DEF OpenFresh, OpenRecover, Alive, IInv, Phases
<1>5. Contents' = 1..ts'
  BY <1>4 DEF Contents, IInv, Holdings, Top
<1>6. CASE OpenFresh
  <2>1. ManifestFile \notin files /\ ts' = 0
    BY <1>6 DEF OpenFresh, memoryVars, IInv, Phases
  <2> QED BY <1>2, <1>3, <1>5, <2>1
<1>7. CASE OpenRecover
  <2>1. ManifestFile \in files /\ ts' = LatestOf(Recovered)
    BY <1>1, <1>7 DEF OpenRecover
  <2>2. Recovered = 1..LatestOf(Recovered) /\ Recovered = RecordedBatches
    BY <1>1, <2>1, RecoverFinds, RecoveredIs
  <2> QED BY <1>2, <1>3, <1>5, <2>1, <2>2
<1> QED BY <1>1, <1>6, <1>7

\* A clean close promises what it keeps: everything.
LEMMA CloseRefines ==
    ASSUME IInv, RInv, IInv', RInv', (Close /\ EnableWal) \/ CloseEnd
    PROVE  Contents' = Contents /\ promised' \in promised..Cardinality(Contents)
<1>1. RecordedBatches' = 1..ts /\ promised' = ts /\ Readable = 1..ts
  BY CloseRecords
<1>2. status' = "down" /\ files' = files /\ status \in {"up", "closing"}
  BY DEF Close, CloseEnd, Stopped
<1>3. Alive /\ ~Alive' /\ lock.at # "open.fresh"
  BY <1>2 DEF Alive, Close, CloseEnd
<1>4. ManifestFile \in files'
  BY <1>2, <1>3 DEF RInv, DirInv, ManifestThere
<1>5. Contents' = 1..ts
  <2>1. Recoverable'
    BY <1>2 DEF RInv, DirInv, DiskReady
  <2>2. Recovered' = RecordedBatches'
    BY <1>4, <2>1 DEF Recovered, RecordedBatches
  <2> QED BY <1>1, <1>3, <2>2 DEF Contents
<1>6. Contents = 1..ts
  BY <1>1, <1>3 DEF Contents
<1>7. promised \in Nat /\ ts \in Nat /\ promised <= ts
  <2>1. promised \in 0..MaxBatches /\ ts \in 0..MaxBatches /\ MaxBatches \in Nat
    BY Fields DEF IInv, Typed
  <2>2. promised <= ts
    BY <1>3 DEF RInv, PromiseBounded
  <2> QED BY <2>1, <2>2
<1>8. Cardinality(Contents) = ts
  BY <1>6, <1>7, GaplessSize
<1> QED BY <1>1, <1>5, <1>6, <1>7, <1>8

\* A crash leaves a prefix with everything promised.
LEMMA CrashRefines ==
    ASSUME IInv, RInv, IInv', RInv', Crash
    PROVE  /\ \E n \in promised..Cardinality(Contents) : Contents' = 1..n
           /\ promised' = promised
<1>1. /\ manifest' = manifest /\ sst' = sst /\ EnableWal' = EnableWal /\ Alive
      /\ EnableWal => \A i \in Id : data'[i] \subseteq data[i]
      /\ lock.at # "open.fresh" \/ ManifestFile \notin files'
  BY CrashCuts
<1>2. promised' = promised /\ status' = "down"
  BY CrashDirectory
<1>3. ~Alive' /\ Recoverable'
  BY <1>2 DEF Alive, RInv, DirInv, DiskReady
<1>4. promised \in Nat /\ Top \in Nat /\ Contents = 1..Top /\ MaxBatches \in Nat
      /\ manifest.mems \subseteq Id
  <2>1. promised \in 0..MaxBatches /\ ts \in 0..MaxBatches /\ MaxBatches \in Nat
        /\ manifest.mems \subseteq Id
    BY Fields DEF IInv, Typed
  <2>2. Contents = 1..Top
    BY <1>1 DEF Contents, IInv, Holdings
  <2> QED BY <2>1, <2>2 DEF Top
<1>5. Cardinality(Contents) = Top
  BY <1>4, GaplessSize
<1>6. CASE ManifestFile \notin files'
  <2>1. Contents' = {}
    BY <1>3, <1>6 DEF Contents, Recovered
  <2>2. promised = 0
    <3>1. ~(promised' > 0)
      BY <1>6 DEF RInv, PromiseBounded, IInv, Directory
    <3> QED BY <1>2, <1>4, <3>1
  <2>3. 0 \in promised..Cardinality(Contents) /\ Contents' = 1..0
    BY <1>4, <1>5, <2>1, <2>2
  <2> QED BY <1>2, <2>3
<1>7. CASE ManifestFile \in files'
  <2>1. Contents' = RecordedBatches'
    BY <1>3, <1>7 DEF Contents, Recovered, RecordedBatches
  <2>2. PICK n \in 0..MaxBatches : RecordedBatches' = 1..n
    BY <1>3, <1>7 DEF IInv, OnDisk, Recorded
  <2>3. 1..promised \subseteq 1..n
    BY <1>2, <2>2 DEF RInv, PromiseRecorded
  <2>4. 1..n \subseteq 1..Top
    <3>1. RecordedBatches \subseteq Contents
      BY <1>1, <1>7, RecordedReadable DEF Contents
    <3>2. EnableWal => Batches(data', manifest.mems) \subseteq Batches(data, manifest.mems)
      BY <1>1, <1>4 DEF Batches
    <3>3. RecordedBatches' = Batches(sst, RecordedSsts)
                             \cup (IF EnableWal THEN Batches(data', manifest.mems) ELSE {})
      BY <1>1 DEF RecordedBatches, RecordedSsts
    <3>4. RecordedBatches' \subseteq RecordedBatches
      BY <3>2, <3>3 DEF RecordedBatches
    <3> QED BY <1>4, <2>2, <3>1, <3>4
  <2>5. promised <= n
    BY <1>4, <2>3
  <2>6. n <= Top
    BY <1>4, <2>4
  <2>7. n \in promised..Cardinality(Contents)
    BY <1>4, <1>5, <2>5, <2>6
  <2> QED BY <1>2, <2>1, <2>2, <2>7
<1> QED BY <1>6, <1>7

\* Every step of the engine is one of the log, or none.
LEMMA RefineStep ==
    ASSUME IInv, RInv, IInv', RInv', [Next]_vars
    PROVE  [Log!Next]_(Log!vars)
<1> DEFINE shown == IF status \in {"opening", "up", "closing"} THEN Readable ELSE Recovered
<1>1. Contents = shown /\ Contents' = shown'
  BY DEF Contents, Alive
<1>c. \A S : Log!Cardinality(S) = Cardinality(S)
  BY DEF Log!Cardinality, Cardinality
<1>f. ASSUME Contents' = Contents, promised' = promised
      PROVE  [Log!Next]_(Log!vars)
  BY <1>1, <1>f DEF Log!vars
<1>p. ASSUME Contents' = Contents, promised' \in promised..Cardinality(Contents)
      PROVE  Log!Next
  BY <1>1, <1>c, <1>p DEF Log!Next, Log!Promise
<1>2. CASE UNCHANGED vars
  BY <1>2, <1>f DEF Contents, Alive, Readable, Recovered, Recoverable, RecordedSsts, EnableWal,
     vars, diskVars, memoryVars, levelVars, threadVars
<1>3. CASE Next /\ Alive /\ Alive'
  <2>1. CASE Contents' = Contents \cup {Cardinality(Contents) + 1} /\ promised' = promised
    BY <1>1, <1>c, <2>1 DEF Log!Next, Log!Append
  <2> QED BY <1>3, <1>f, <1>p, <2>1, RunningRefines
<1>4. CASE Next /\ ~Alive
  BY <1>4, <1>f, OpenRefines
<1>5. CASE Crash
  BY <1>1, <1>c, <1>5, CrashRefines DEF Log!Next, Log!Lose
<1>6. CASE Next /\ Alive /\ ~Alive' /\ ~Crash
  <2>1. (Close /\ EnableWal) \/ CloseEnd
    <3>1. status' # status /\ ~OpenFresh /\ ~OpenRecover /\ ~OpenSyncDir
      BY <1>6 DEF Alive, OpenFresh, OpenRecover, OpenSyncDir
    <3>2. Close /\ ~EnableWal => Alive'
      BY DEF Close, Alive
    <3> QED BY <1>6, <3>1, <3>2, StatusMoves
  <2> QED BY <1>p, <2>1, CloseRefines
<1> QED BY <1>2, <1>3, <1>4, <1>5, <1>6

(***************************************************************************)
(* If no crash comes in one of the windows, the engine implements the log  *)
(* of batches: freezing, flushing, compaction, closing and opening can not *)
(* be told apart from a log that is appended to at its end, that a crash   *)
(* cuts back to a prefix, and of which it never takes what sync or close   *)
(* returned for (lsm_storage.rs, compact.rs, wal.rs, manifest.rs).         *)
(***************************************************************************)
THEOREM EngineImplementsDurableLog ==
    ASSUME \A s \in Settings : Survivable(s)
    PROVE  Spec => ImplementsDurableLog
<1>1. Init => Log!Init
  BY DEF Init, Log!Init, Recovered, ManifestFile
<1>2. IInv /\ RInv /\ (IInv /\ RInv)' /\ [Next]_vars => [Log!Next]_(Log!vars)
  BY RefineStep
<1> QED BY <1>1, <1>2, RecoveryInvariance, PTL DEF Spec, ImplementsDurableLog, Log!Spec

=============================================================================
