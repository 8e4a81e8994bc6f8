------------------------------- MODULE Week2 -------------------------------
(***************************************************************************)
(* The engine of the first two weeks of the course (crate mini-lsm): no    *)
(* timestamps and no write lock.  Several clients write, read, scan, force *)
(* flushes and full compactions while the flush thread and the compaction  *)
(* thread work; one client closes the engine, and it is opened again on    *)
(* what its logs, SST files and manifest hold.                             *)
(*                                                                         *)
(* A step is what a thread does between two points at which others can see *)
(* or change something: memtable and log are written one after the other   *)
(* under the read guard of state, a state is replaced under its write      *)
(* guard, and readers work on the state they cloned.  What a thread still  *)
(* does under state_lock after it replaced the state touches only a log    *)
(* and the manifest, which nothing but open reads, and is part of that     *)
(* step: crashes are the subject of Durability.                            *)
(*                                                                         *)
(* The n-th write of a behaviour stores the entry n if it is a put and -n  *)
(* if it is a deletion; a key without entry has the entry 0.               *)
(***************************************************************************)
EXTENDS Integers, FiniteSets, Sequences, SequencesExt, Functions

CONSTANTS
    Client,      \* application threads
    Flusher,     \* the thread of spawn_flush_thread
    Compactor,   \* the thread of spawn_compaction_thread
    Nobody,      \* the owner of a lock that is free
    MaxKey,      \* bound: keys are 1..MaxKey, in their order
    Settings,    \* the options and amounts of work a run considers, each a Setting
    TableLimit,  \* the same for the tables that compaction writes, in entries
    MemLimit,    \* LsmStorageOptions::num_memtable_limit
    Trigger,     \* SimpleLeveledCompactionOptions::level0_file_num_compaction_trigger
    MaxLevels,   \* SimpleLeveledCompactionOptions::max_levels
    MaxBatch,    \* bound: records in a call of write_batch
    Ranges       \* bound: the ranges that are scanned, pairs of bounds

\* The calls of a behaviour, counted: records put and deleted, get, scan, force_flush,
\* force_full_compaction, and open after close.
Calls == {"put", "del", "get", "scan", "flush", "full", "open"}

\* simple: compaction_options is Simple, otherwise NoCompaction.  wal: enable_wal.
\* limit: target_sst_size, in records of a memtable.  keys: those written and read.
Setting == [simple : BOOLEAN, wal : BOOLEAN, limit : Nat \ {0},
            keys : SUBSET (1..MaxKey), calls : [Calls -> Nat]]

\* std::ops::Bound.
Bound == [kind : {"incl", "excl"}, k : 1..MaxKey] \cup {[kind |-> "none", k |-> 0]}

ASSUME Week2Assumption ==
    /\ Ranges \subseteq Bound \X Bound
    /\ Flusher # Compactor /\ {Flusher, Compactor, Nobody} \cap Client = {}
    /\ Nobody \notin {Flusher, Compactor}
    /\ Settings \subseteq Setting
    /\ {MaxKey, TableLimit, MemLimit, Trigger, MaxLevels, MaxBatch}
          \subseteq Nat \ {0}

VARIABLES
    st,        \* LsmStorageState: memtable, immutable memtables, L0 and levels, by id
    mt,        \* contents and approximate_size of each memtable
    wal,       \* the logs in the directory, each a sequence of records
    sst,       \* contents of each SST
    files,     \* the SST files in the directory
    manifest,  \* the records of the manifest
    nextId,    \* next_sst_id
    lock,      \* the owner of state_lock
    at,        \* where each thread is
    loc,       \* its local variables
    stop,      \* the threads that were sent a stop notification
    mode,      \* "open", "closing", "closed", or "failed" once open gave up
    closed,    \* what close returned: "none", "ok" or "err"
    left,      \* calls that are still to come
    writes,    \* records inserted so far
    current,   \* history: the latest entry inserted for each key
    done,      \* history: entries of records written to the end, for each key
    stale,     \* history: entries that a record begun after their end replaced
    seen,      \* history: entries that were current during a client's read
    setting    \* the options of this behaviour

diskVars    == <<wal, sst, files, manifest>>
engineVars  == <<st, mt, diskVars, nextId>>
threadVars  == <<lock, at, loc>>
controlVars == <<stop, mode, closed>>
historyVars == <<writes, current, done, stale, seen>>
vars == <<engineVars, threadVars, controlVars, historyVars, left, setting>>

Key == 1..MaxKey
Thread == Client \cup {Flusher, Compactor}
Ids(s) == {s[i] : i \in 1..Len(s)}

\* What a caller sees of an entry: its value, or 0 for "no such key".
Visible(e) == IF e > 0 THEN e ELSE 0

Nothing == [k \in Key |-> 0]
IsEmptyTable(d) == d = Nothing

NoOp == [op |-> "none"]
Idle(t) == at[t] = "idle"
Goto(t, place, locals) ==
    /\ at'  = [at  EXCEPT ![t] = place]
    /\ loc' = [loc EXCEPT ![t] = locals]

\* A panic ends the thread; its guards are released, what it installed stays.
Panic(t, cause) == Goto(t, "panicked", [op |-> "none", cause |-> cause])

\* Extend a table of contents by one id.
With(f, i, x) == [j \in DOMAIN f \cup {i} |-> IF j = i THEN x ELSE f[j]]

Call(kind) ==
    /\ left[kind] > 0
    /\ left' = [left EXCEPT ![kind] = @ - 1]

-----------------------------------------------------------------------------
(* Reading a state: the first source that has the key decides.             *)

\* The entry for k in the first of the tables that has one.
Newest(tables, k) ==
    LET having == {i \in 1..Len(tables) : tables[i][k] # 0}
    IN IF having = {} THEN 0
       ELSE tables[CHOOSE i \in having : \A j \in having : i <= j][k]

Contents(ids) == [i \in 1..Len(ids) |-> sst[ids[i]]]
LevelTables(levels) ==
    [i \in 1..Len(levels) |-> [k \in Key |-> Newest(Contents(levels[i]), k)]]
ImmTables(s) == [i \in 1..Len(s.imm) |-> mt[s.imm[i]].data]

\* All sources of a state behind its memtable, in the order of get and scan.
OldTables(s) == ImmTables(s) \o Contents(s.l0) \o LevelTables(s.levels)

\* The ids of a state's SSTs.
TableIds(s) == Ids(s.l0) \cup UNION {Ids(s.levels[i]) : i \in DOMAIN s.levels}

Content(s, k) == Newest(<<mt[s.mem].data>> \o OldTables(s), k)

-----------------------------------------------------------------------------
(* write_batch: each record on its own, under the read guard of state.     *)

Records == [k : setting.keys, del : BOOLEAN]
Batches == UNION {[1..n -> Records] : n \in 1..MaxBatch}
Dels(b) == Cardinality({i \in DOMAIN b : b[i].del})

\* The guard of a writer between its insertion and its append.
GuardHeld == \E c \in Client : at[c] = "append"

\* memtable.put up to the log: map.insert and approximate_size.fetch_add.
Insert(c, b) ==
    LET k == b[1].k
        e == IF b[1].del THEN -(writes + 1) ELSE writes + 1
    IN /\ writes' = writes + 1
       /\ mt' = [mt EXCEPT ![st.mem].data[k] = e, ![st.mem].size = @ + 1]
       /\ Goto(c, "append", [op |-> "write", todo |-> Tail(b), mem |-> st.mem, k |-> k,
                             e |-> e, before |-> done[k], new |-> 0])
       /\ current' = [current EXCEPT ![k] = e]
       /\ seen' = [d \in Client |-> IF loc[d].op \in {"get", "scan"}
                                    THEN [seen[d] EXCEPT ![k] = @ \cup {e}] ELSE seen[d]]
       /\ UNCHANGED <<st, diskVars, nextId, lock, controlVars, done, stale, setting>>

WriteBatch(c) ==
    /\ mode = "open" /\ Idle(c)
    /\ \E b \in Batches :
          /\ Dels(b) <= left["del"] /\ Len(b) - Dels(b) <= left["put"]
          /\ left' = [left EXCEPT !["del"] = @ - Dels(b), !["put"] = @ - (Len(b) - Dels(b))]
          /\ Insert(c, b)

NextRecord(c) == at[c] = "insert" /\ Insert(c, loc[c].todo) /\ UNCHANGED left

\* The next record of the batch, or the end of the call.
AfterRecord(c) == IF loc[c].todo = <<>> THEN Goto(c, "idle", NoOp)
                                        ELSE Goto(c, "insert", loc[c])

\* wal.put, then the size is read and the guard dropped.
AppendRecord(c) ==
    LET k == loc[c].k
    IN /\ at[c] = "append"
       /\ wal' = IF setting.wal
                 THEN [wal EXCEPT ![loc[c].mem] = Append(@, [k |-> k, e |-> loc[c].e])]
                 ELSE wal
       /\ done'  = [done  EXCEPT ![k] = @ \cup {loc[c].e}]
       /\ stale' = [stale EXCEPT ![k] = @ \cup loc[c].before]
       /\ IF mt[loc[c].mem].size >= setting.limit THEN Goto(c, "freeze", loc[c]) ELSE AfterRecord(c)
       /\ UNCHANGED <<st, mt, sst, files, manifest, nextId, lock, controlVars, writes,
                      current, seen, left, setting>>

-----------------------------------------------------------------------------
(* Freezing.                                                               *)

EmptyMemtable == [data |-> Nothing, size |-> 0]

\* The start of force_freeze_memtable: a new memtable, with a log under enable_wal.
CreateMemtable ==
    /\ mt' = With(mt, nextId, EmptyMemtable)
    /\ wal' = IF setting.wal THEN With(wal, nextId, <<>>) ELSE wal
    /\ nextId' = nextId + 1

\* Mutated form: try_freeze does not look at the size again under state_lock.
TryFreezeUnchecked(c) ==
    /\ at[c] = "freeze" /\ lock = Nobody
    /\ CreateMemtable /\ lock' = c
    /\ at' = [at EXCEPT ![c] = "swap"]
    /\ loc' = [loc EXCEPT ![c].new = nextId]
    /\ UNCHANGED <<st, sst, files, manifest, controlVars, historyVars, left, setting>>

\* try_freeze, from state_lock to the new memtable.
TryFreeze(c) ==
    /\ at[c] = "freeze" /\ lock = Nobody
    /\ IF mt[st.mem].size >= setting.limit
       THEN /\ CreateMemtable /\ lock' = c
            /\ at' = [at EXCEPT ![c] = "swap"]
            /\ loc' = [loc EXCEPT ![c].new = nextId]
       ELSE /\ AfterRecord(c)
            /\ UNCHANGED <<mt, wal, nextId, lock>>
    /\ UNCHANGED <<st, sst, files, manifest, controlVars, historyVars, left, setting>>

\* freeze_memtable_with_memtable.
Frozen(s, i) == [s EXCEPT !.mem = i, !.imm = <<s.mem>> \o @]

\* Mutated form: the memtable is replaced without waiting for the writers' guards.
SwapUnguarded(t) ==
    /\ at[t] = "swap"
    /\ st' = Frozen(st, loc[t].new)
    /\ manifest' = Append(manifest, [kind |-> "new", id |-> loc[t].new])
    /\ lock' = Nobody
    /\ IF loc[t].op = "write" THEN AfterRecord(t) ELSE Goto(t, "ff.check", loc[t])
    /\ UNCHANGED <<mt, wal, sst, files, nextId, controlVars, historyVars, left, setting>>

\* The rest of force_freeze_memtable, for try_freeze and force_flush.
Swap(t) ==
    /\ at[t] = "swap" /\ ~GuardHeld
    /\ st' = Frozen(st, loc[t].new)
    /\ manifest' = Append(manifest, [kind |-> "new", id |-> loc[t].new])
    /\ lock' = Nobody
    /\ IF loc[t].op = "write" THEN AfterRecord(t) ELSE Goto(t, "ff.check", loc[t])
    /\ UNCHANGED <<mt, wal, sst, files, nextId, controlVars, historyVars, left, setting>>

-----------------------------------------------------------------------------
(* Flushing.                                                               *)

\* MiniLsm::force_flush looks at the memtable without state_lock.
ForceFlush(c) ==
    /\ mode = "open" /\ Idle(c) /\ Call("flush")
    /\ Goto(c, IF IsEmptyTable(mt[st.mem].data) THEN "ff.check" ELSE "ff.lock",
            [op |-> "force_flush"])
    /\ UNCHANGED <<engineVars, lock, controlVars, historyVars, setting>>

ForceFreeze(c) ==
    /\ at[c] = "ff.lock" /\ lock = Nobody
    /\ CreateMemtable /\ lock' = c
    /\ Goto(c, "swap", [op |-> "force_flush", new |-> nextId])
    /\ UNCHANGED <<st, sst, files, manifest, controlVars, historyVars, left, setting>>

ForceCheck(c) ==
    /\ at[c] = "ff.check"
    /\ IF st.imm = <<>> THEN Goto(c, "idle", NoOp) ELSE Goto(c, "flush", loc[c])
    /\ UNCHANGED <<engineVars, lock, controlVars, historyVars, left, setting>>

\* force_flush_next_imm_memtable up to the SST file.  expect("no imm memtables!")
\* and the block of an empty memtable panic, and release state_lock.
FlushBuild(t) ==
    /\ at[t] = "flush" /\ lock = Nobody
    /\ IF st.imm = <<>> \/ IsEmptyTable(mt[Last(st.imm)].data)
       THEN /\ Panic(t, "nothing to flush")
            /\ UNCHANGED <<sst, files, lock>>
       ELSE LET i == Last(st.imm)
            IN /\ sst' = With(sst, i, mt[i].data)
               /\ files' = files \cup {i}
               /\ lock' = t
               /\ Goto(t, "flush.install", [op |-> loc[t].op, id |-> i])
    /\ UNCHANGED <<st, mt, wal, manifest, nextId, controlVars, historyVars, left, setting>>

\* Mutated form: the new table goes behind the older ones.
FlushedBehind(s) == [s EXCEPT !.imm = Front(@), !.l0 = @ \o <<Last(s.imm)>>]

\* The memtable leaves imm_memtables, its table enters L0.
Flushed(s) == [s EXCEPT !.imm = Front(@), !.l0 = <<Last(s.imm)>> \o @]

\* The rest of force_flush_next_imm_memtable, with assert_eq!(mem.id(), sst_id).
FlushInstall(t) ==
    LET i == loc[t].id
    IN /\ at[t] = "flush.install" /\ ~GuardHeld
       /\ lock' = Nobody
       /\ IF Last(st.imm) # i
          THEN /\ Panic(t, "another memtable")
               /\ UNCHANGED <<st, wal, manifest>>
          ELSE /\ st' = Flushed(st)
               /\ wal' = IF setting.wal THEN [j \in DOMAIN wal \ {i} |-> wal[j]] ELSE wal
               /\ manifest' = Append(manifest, [kind |-> "flush", id |-> i])
               /\ IF loc[t].op = "close" THEN Goto(t, "close.drain", [op |-> "close"])
                                         ELSE Goto(t, "idle", NoOp)
       /\ UNCHANGED <<mt, sst, files, nextId, controlVars, historyVars, left, setting>>

\* trigger_flush, on a tick; a tick that finds nothing to do changes nothing.
FlushTick ==
    /\ Idle(Flusher) /\ Len(st.imm) >= MemLimit
    /\ Goto(Flusher, "flush", [op |-> "tick"])
    /\ UNCHANGED <<engineVars, lock, controlVars, historyVars, left, setting>>

-----------------------------------------------------------------------------
(* Compaction.                                                             *)

NoTask == [upper |-> -1]

\* SimpleLeveledCompactionController::generate_compaction_task with a size ratio of
\* 100 percent: L0 by its number of tables, then the first level that outgrew the
\* next one (0 / 0 is not a number, and no number is below the ratio).
SimpleTask(s) ==
    IF Len(s.l0) >= Trigger
    THEN [upper |-> 0, us |-> s.l0, lower |-> 1, ls |-> s.levels[1], bottom |-> FALSE]
    ELSE LET small == {i \in 1..(MaxLevels - 1) : Len(s.levels[i + 1]) < Len(s.levels[i])}
         IN IF small = {} THEN NoTask
            ELSE LET i == CHOOSE i \in small : \A j \in small : i <= j
                 IN [upper |-> i, us |-> s.levels[i], lower |-> i + 1,
                     ls |-> s.levels[i + 1], bottom |-> i + 1 = MaxLevels]

FullTask(s) ==
    [upper |-> 0, us |-> s.l0, lower |-> 1, ls |-> s.levels[1], bottom |-> TRUE]

Inputs(task) == task.us \o task.ls

\* Mutated form: the older tables are merged as if they were the newer ones.
MergedOldestFirst(task) ==
    [k \in Key |-> Newest(Contents(task.ls) \o Contents(task.us), k)]

\* compact: the iterators over the task's tables, merged.
Merged(task) == [k \in Key |-> Newest(Contents(task.us) \o Contents(task.ls), k)]

Entries(d) == Cardinality({k \in Key : d[k] # 0})

\* compact_generate_sst_from_iter: out are the tables built, cur is the builder in
\* use, if any.  A builder is made for every entry the iterator yields, also for the
\* deletions that the bottom level drops.
Built(m, bottom) ==
    LET add[k \in 0..MaxKey] ==
            IF k = 0 THEN [out |-> <<>>, cur |-> Nothing, open |-> FALSE]
            ELSE LET b == add[k - 1]
                     d == IF bottom /\ m[k] < 0 THEN b.cur ELSE [b.cur EXCEPT ![k] = m[k]]
                 IN CASE m[k] = 0 -> b
                      [] m[k] # 0 /\ Entries(d) >= TableLimit ->
                            [out |-> Append(b.out, d), cur |-> Nothing, open |-> FALSE]
                      [] OTHER -> [b EXCEPT !.cur = d, !.open = TRUE]
    IN add[MaxKey]

\* trigger_compaction up to its task.
CompactTick ==
    LET task == SimpleTask(st)
    IN /\ setting.simple /\ Idle(Compactor) /\ task # NoTask
       /\ Goto(Compactor, "merge", [op |-> "compact", task |-> task])
       /\ UNCHANGED <<engineVars, lock, controlVars, historyVars, left, setting>>

\* force_full_compaction up to its task.
FullCompaction(c) ==
    /\ ~setting.simple /\ mode = "open" /\ Idle(c) /\ Call("full")
    /\ Goto(c, "merge", [op |-> "compact", task |-> FullTask(st)])
    /\ UNCHANGED <<engineVars, lock, controlVars, historyVars, setting>>

\* compact: the tables are built without state_lock.  A builder that was left with
\* no entry panics in BlockBuilder::build, after the tables before it were written.
Merge(t) ==
    LET b    == Built(Merged(loc[t].task), loc[t].task.bottom)
        dead == b.open /\ IsEmptyTable(b.cur)
        out  == IF b.open /\ ~dead THEN Append(b.out, b.cur) ELSE b.out
        ids  == [i \in 1..Len(out) |-> nextId + i - 1]
    IN /\ at[t] = "merge"
       /\ sst' = [i \in DOMAIN sst \cup Ids(ids) |->
                     IF i \in Ids(ids) THEN out[i - nextId + 1] ELSE sst[i]]
       /\ files' = files \cup Ids(ids)
       /\ nextId' = nextId + Len(out) + (IF dead THEN 1 ELSE 0)
       /\ IF dead THEN Panic(t, "empty table")
                  ELSE Goto(t, "apply", [op |-> "compact", task |-> loc[t].task, ids |-> ids])
       /\ UNCHANGED <<st, mt, wal, manifest, lock, controlVars, historyVars, left, setting>>

Without(s, t) ==
    LET kept == {i \in DOMAIN s : s[i] \notin Ids(t)}
    IN [n \in 1..Cardinality(kept) |->
           s[CHOOSE i \in kept : Cardinality({j \in kept : j < i}) = n - 1]]

\* The assertions of apply_compaction_result and of force_full_compaction: the
\* inputs are where the task found them.
InputsInPlace(s, task) ==
    /\ IF task.upper = 0 THEN Ids(task.us) \subseteq Ids(s.l0)
                         ELSE task.us = s.levels[task.upper]
    /\ task.ls = s.levels[task.lower]

\* Mutated form: what was flushed to L0 since the task was made is forgotten.
AppliedClearsL0(s, task, ids) ==
    IF task.upper = 0
    THEN [s EXCEPT !.l0 = <<>>, !.levels[task.lower] = ids]
    ELSE [s EXCEPT !.levels[task.upper] = <<>>, !.levels[task.lower] = ids]

\* SimpleLeveledCompactionController::apply_compaction_result.
Applied(s, task, ids) ==
    IF task.upper = 0
    THEN [s EXCEPT !.l0 = Without(@, task.us), !.levels[task.lower] = ids]
    ELSE [s EXCEPT !.levels[task.upper] = <<>>, !.levels[task.lower] = ids]

\* The clone of the state, changed by the task.
Installing(l) == [op |-> "compact", task |-> l.task, ids |-> l.ids,
                  st |-> Applied(st, l.task, l.ids)]

\* Mutated form: the state is copied and changed without state_lock.
ApplyUnlocked(t) ==
    /\ at[t] = "apply"
    /\ IF InputsInPlace(st, loc[t].task)
       THEN /\ lock' = lock
            /\ Goto(t, "install", Installing(loc[t]))
       ELSE /\ Panic(t, "inputs moved")
            /\ UNCHANGED lock
    /\ UNCHANGED <<engineVars, controlVars, historyVars, left, setting>>

\* Under state_lock the state is cloned and the task applied to the clone.
Apply(t) ==
    /\ at[t] = "apply" /\ lock = Nobody
    /\ IF InputsInPlace(st, loc[t].task)
       THEN /\ lock' = t
            /\ Goto(t, "install", Installing(loc[t]))
       ELSE /\ Panic(t, "inputs moved")
            /\ UNCHANGED lock
    /\ UNCHANGED <<engineVars, controlVars, historyVars, left, setting>>

\* The clone becomes the state, the task is recorded, state_lock is released.
Install(t) ==
    /\ at[t] = "install" /\ ~GuardHeld
    /\ st' = loc[t].st
    /\ manifest' = Append(manifest, [kind |-> IF setting.simple THEN "compact" ELSE "full",
                                     task |-> loc[t].task, ids |-> loc[t].ids])
    /\ lock' = IF lock = t THEN Nobody ELSE lock
    /\ Goto(t, "remove", [op |-> "compact", task |-> loc[t].task])
    /\ UNCHANGED <<mt, wal, sst, files, nextId, controlVars, historyVars, left, setting>>

\* Mutated form: the files of the tables just built go.
RemoveOutputs(t) ==
    /\ at[t] = "remove"
    /\ files' = files \ {i \in files : i >= nextId - 1}
    /\ Goto(t, "idle", NoOp)
    /\ UNCHANGED <<st, mt, wal, sst, manifest, nextId, lock, controlVars, historyVars,
                   left, setting>>

\* The files of the inputs go; readers that opened them keep them.
RemoveInputs(t) ==
    /\ at[t] = "remove"
    /\ files' = files \ Ids(Inputs(loc[t].task))
    /\ Goto(t, "idle", NoOp)
    /\ UNCHANGED <<st, mt, wal, sst, manifest, nextId, lock, controlVars, historyVars,
                   left, setting>>

-----------------------------------------------------------------------------
(* get.                                                                    *)

Reading == mode \in {"open", "closing"}
StartWatching(c) == seen' = [seen EXCEPT ![c] = [k \in Key |-> {current[k]}]]
StopWatching(c)  == seen' = [seen EXCEPT ![c] = [k \in Key |-> {}]]

\* The state is cloned under the read guard, which is dropped at once.
Get(c) ==
    /\ Reading /\ Idle(c) /\ Call("get")
    /\ \E k \in setting.keys : Goto(c, "get.mem", [op |-> "get", k |-> k, snap |-> st])
    /\ StartWatching(c)
    /\ UNCHANGED <<engineVars, lock, controlVars, writes, current, done, stale, setting>>

\* Mutated form: a deletion in the memtable is taken for no entry.
GetMemtableSkipsDeletion(c) ==
    LET e == mt[loc[c].snap.mem].data[loc[c].k]
    IN /\ at[c] = "get.mem"
       /\ IF e > 0 THEN Goto(c, "got", [op |-> "get", k |-> loc[c].k, val |-> Visible(e)])
                   ELSE Goto(c, "get.old", loc[c])
       /\ UNCHANGED <<engineVars, lock, controlVars, historyVars, left, setting>>

\* The memtable of the clone, which writers may still be changing.
GetMemtable(c) ==
    LET e == mt[loc[c].snap.mem].data[loc[c].k]
    IN /\ at[c] = "get.mem"
       /\ IF e # 0 THEN Goto(c, "got", [op |-> "get", k |-> loc[c].k, val |-> Visible(e)])
                   ELSE Goto(c, "get.old", loc[c])
       /\ UNCHANGED <<engineVars, lock, controlVars, historyVars, left, setting>>

\* The frozen memtables and the SSTs of the clone, which nobody changes.
GetOld(c) ==
    /\ at[c] = "get.old"
    /\ Goto(c, "got", [op |-> "get", k |-> loc[c].k,
                       val |-> Visible(Newest(OldTables(loc[c].snap), loc[c].k))])
    /\ UNCHANGED <<engineVars, lock, controlVars, historyVars, left, setting>>

ReadReturns(c) ==
    /\ at[c] \in {"got", "scanned"}
    /\ Goto(c, "idle", NoOp)
    /\ StopWatching(c)
    /\ UNCHANGED <<engineVars, lock, controlVars, writes, current, done, stale, left, setting>>

-----------------------------------------------------------------------------
(* scan.  The iterator over the clone's memtable holds one entry that it   *)
(* read ahead (item); everything behind the memtable is merged by Newest.  *)

AboveLower(k, lo) ==
    CASE lo.kind = "incl" -> k >= lo.k [] lo.kind = "excl" -> k > lo.k [] OTHER -> TRUE
BelowUpper(k, hi) ==
    CASE hi.kind = "incl" -> k <= hi.k [] hi.kind = "excl" -> k < hi.k [] OTHER -> TRUE
InRange(k, lo, hi) == AboveLower(k, lo) /\ BelowUpper(k, hi)

NoItem == [k |-> MaxKey + 1, e |-> 0]
Least(S) == CHOOSE k \in S : \A l \in S : k <= l

\* range_overlap with the first and last key of a table.
Overlaps(d, lo, hi) ==
    LET K == {k \in Key : d[k] # 0}
    IN \E k \in K : BelowUpper(k, hi) /\ \E l \in K : AboveLower(l, lo)

\* A table that overlaps the range is read from the lower bound to its end, another
\* one not at all.
Scanned(d, lo, hi) ==
    [k \in Key |-> IF Overlaps(d, lo, hi) /\ AboveLower(k, lo) THEN d[k] ELSE 0]

\* The sources of a scan behind the memtable; frozen memtables give their range.
ScanTables(c) ==
    LET s  == loc[c].snap
        lo == loc[c].lo
        hi == loc[c].hi
        Files(ids) == [i \in 1..Len(ids) |-> Scanned(sst[ids[i]], lo, hi)]
    IN [i \in 1..Len(s.imm) |->
           [k \in Key |-> IF InRange(k, lo, hi) THEN mt[s.imm[i]].data[k] ELSE 0]]
       \o Files(s.l0)
       \o [i \in 1..Len(s.levels) |-> [k \in Key |-> Newest(Files(s.levels[i]), k)]]

\* MemTableIterator::next: the first entry behind the last one, as the map is now.
NextItem(c, last) ==
    LET K == {k \in Key : /\ k > last /\ InRange(k, loc[c].lo, loc[c].hi)
                          /\ mt[loc[c].snap.mem].data[k] # 0}
    IN IF K = {} THEN NoItem
       ELSE [k |-> Least(K), e |-> mt[loc[c].snap.mem].data[Least(K)]]

\* Mutated form: of two entries for one key the older one wins.
HeadOfOlder(c, item, last) ==
    LET old == ScanTables(c)
        K   == {k \in Key : k > last /\ Newest(old, k) # 0}
    IN IF K = {} \/ item.k < Least(K) THEN item
       ELSE [k |-> Least(K), e |-> Newest(old, Least(K))]

\* The merged iterator behind key last, with item read ahead in the memtable.
HeadOf(c, item, last) ==
    LET old == ScanTables(c)
        K   == {k \in Key : k > last /\ Newest(old, k) # 0}
    IN IF K = {} \/ item.k <= Least(K) THEN item
       ELSE [k |-> Least(K), e |-> Newest(old, Least(K))]

Scan(c) ==
    /\ Reading /\ Idle(c) /\ Call("scan")
    /\ \E r \in Ranges :
          Goto(c, "scan.open", [op |-> "scan", snap |-> st, lo |-> r[1], hi |-> r[2]])
    /\ StartWatching(c)
    /\ UNCHANGED <<engineVars, lock, controlVars, writes, current, done, stale, setting>>

\* The iterators are created; LsmIterator::new takes over whether there is an entry.
ScanOpen(c) ==
    LET item == NextItem(c, 0)
        head == HeadOf(c, item, 0)
    IN /\ at[c] = "scan.open"
       /\ Goto(c, "scan.next", [op |-> "scan", snap |-> loc[c].snap, lo |-> loc[c].lo,
                                hi |-> loc[c].hi, item |-> item, head |-> head,
                                valid |-> head # NoItem, out |-> Nothing])
       /\ UNCHANGED <<engineVars, lock, controlVars, historyVars, left, setting>>

\* The user takes the entry, unless it is a deletion (move_to_non_delete), and
\* next_inner moves on and compares with the end bound.
ScanNext(c) ==
    LET l    == loc[c]
        out  == [l.out EXCEPT ![l.head.k] = Visible(l.head.e)]
        item == IF l.item.k = l.head.k THEN NextItem(c, l.head.k) ELSE l.item
        head == HeadOf(c, item, l.head.k)
    IN /\ at[c] = "scan.next" /\ l.valid
       /\ Goto(c, "scan.next", [l EXCEPT !.out = out, !.item = item, !.head = head,
                                !.valid = head # NoItem /\ BelowUpper(head.k, l.hi)])
       /\ UNCHANGED <<engineVars, lock, controlVars, historyVars, left, setting>>

ScanEnd(c) ==
    /\ at[c] = "scan.next" /\ ~loc[c].valid
    /\ Goto(c, "scanned", [op |-> "scan", lo |-> loc[c].lo, hi |-> loc[c].hi,
                           out |-> loc[c].out])
    /\ UNCHANGED <<engineVars, lock, controlVars, historyVars, left, setting>>

-----------------------------------------------------------------------------
(* close.  The application stops writing before it closes; reads go on.    *)

WritingOps == {"write", "force_flush"}
Writing(c) == loc[c].op \in WritingOps \/ (c \in Client /\ loc[c].op = "compact")

\* Mutated form: only the compaction thread is sent a notification.
CloseNotifiesOne(c) ==
    /\ mode = "open" /\ Idle(c) /\ \A d \in Client : ~Writing(d)
    /\ mode' = "closing" /\ stop' = {Compactor}
    /\ Goto(c, "close.join_compactor", [op |-> "close"])
    /\ UNCHANGED <<engineVars, lock, closed, historyVars, left, setting>>

Close(c) ==
    /\ mode = "open" /\ Idle(c) /\ \A d \in Client : ~Writing(d)
    /\ mode' = "closing" /\ stop' = {Flusher, Compactor}
    /\ Goto(c, "close.join_compactor", [op |-> "close"])
    /\ UNCHANGED <<engineVars, lock, closed, historyVars, left, setting>>

\* select! takes the notification between two ticks.
StopThread(t) ==
    /\ t \in stop /\ Idle(t)
    /\ Goto(t, "stopped", NoOp)
    /\ UNCHANGED <<engineVars, lock, controlVars, historyVars, left, setting>>

CloseGives(c, result) ==
    /\ mode' = "closed" /\ closed' = result
    /\ Goto(c, "idle", NoOp)

\* join on a thread; the panic of one ends close with an error.  Without compaction
\* no compaction thread was spawned.
CloseJoin(c) ==
    LET t == IF at[c] = "close.join_compactor" THEN Compactor ELSE Flusher
    IN /\ at[c] \in {"close.join_compactor", "close.join_flusher"}
       /\ \/ /\ at[t] = "panicked"
             /\ CloseGives(c, "err")
          \/ /\ at[t] = "stopped"
             /\ Goto(c, IF t = Compactor THEN "close.join_flusher" ELSE "close.memtable",
                     [op |-> "close"])
             /\ UNCHANGED <<mode, closed>>
       /\ UNCHANGED <<engineVars, lock, stop, historyVars, left, setting>>

\* Mutated form: close leaves the memtable where it is.
CloseMemtableNoFreeze(c) ==
    /\ at[c] = "close.memtable"
    /\ Goto(c, IF setting.wal THEN "close.synced" ELSE "close.drain", [op |-> "close"])
    /\ UNCHANGED <<engineVars, lock, controlVars, historyVars, left, setting>>

\* With logs close syncs and is done.  Without, the memtable is frozen, without
\* state_lock and without a record of the new one.
CloseMemtable(c) ==
    /\ at[c] = "close.memtable" /\ ~GuardHeld
    /\ IF setting.wal
       THEN /\ Goto(c, "close.synced", [op |-> "close"])
            /\ UNCHANGED <<st, mt, wal, nextId>>
       ELSE /\ Goto(c, "close.drain", [op |-> "close"])
            /\ IF IsEmptyTable(mt[st.mem].data)
               THEN UNCHANGED <<st, mt, wal, nextId>>
               ELSE CreateMemtable /\ st' = Frozen(st, nextId)
    /\ UNCHANGED <<sst, files, manifest, lock, controlVars, historyVars, left, setting>>

CloseDrain(c) ==
    /\ at[c] = "close.drain" /\ st.imm # <<>>
    /\ Goto(c, "flush", [op |-> "close"])
    /\ UNCHANGED <<engineVars, lock, controlVars, historyVars, left, setting>>

CloseEnd(c) ==
    /\ at[c] = "close.synced" \/ (at[c] = "close.drain" /\ st.imm = <<>>)
    /\ CloseGives(c, "ok")
    /\ UNCHANGED <<engineVars, lock, stop, historyVars, left, setting>>

-----------------------------------------------------------------------------
(* open on what a closed engine left.                                      *)

EmptyLevels == [i \in 1..(IF setting.simple THEN MaxLevels ELSE 1) |-> <<>>]

\* Mutated form: recovery replays a compaction as if it had taken no tables of L0.
ReplayedKeepsL0(r, rec) ==
    CASE rec.kind = "new"   -> [r EXCEPT !.mems = @ \cup {rec.id}, !.ids = @ \cup {rec.id}]
      [] rec.kind = "flush" -> [r EXCEPT !.ok = @ /\ rec.id \in r.mems,
                                         !.mems = @ \ {rec.id}, !.ids = @ \cup {rec.id},
                                         !.s.l0 = <<rec.id>> \o @]
      [] rec.kind = "full"  -> [r EXCEPT !.ok = FALSE]
      [] OTHER -> [r EXCEPT !.s.levels[rec.task.lower] = rec.ids,
                            !.ids = @ \cup Ids(rec.ids)]

\* One record: "memtable not exist?", and unreachable!() for a full compaction,
\* which no controller can apply.
Replayed(r, rec) ==
    CASE rec.kind = "new"   -> [r EXCEPT !.mems = @ \cup {rec.id}, !.ids = @ \cup {rec.id}]
      [] rec.kind = "flush" -> [r EXCEPT !.ok = @ /\ rec.id \in r.mems,
                                         !.mems = @ \ {rec.id}, !.ids = @ \cup {rec.id},
                                         !.s.l0 = <<rec.id>> \o @]
      [] rec.kind = "full"  -> [r EXCEPT !.ok = FALSE]
      [] OTHER -> [r EXCEPT !.ok = @ /\ InputsInPlace(r.s, rec.task),
                            !.s = IF InputsInPlace(r.s, rec.task)
                                  THEN Applied(@, rec.task, rec.ids) ELSE @,
                            !.ids = @ \cup Ids(rec.ids)]

ReplayOf(records) ==
    LET upto[n \in 0..Len(records)] ==
            IF n = 0 THEN [ok |-> TRUE, mems |-> {}, ids |-> {1},
                           s |-> [mem |-> 0, imm |-> <<>>, l0 |-> <<>>,
                                  levels |-> EmptyLevels]]
            ELSE Replayed(upto[n - 1], records[n])
    IN upto[Len(records)]

Replay == ReplayOf(manifest)

\* Wal::recover: the last record of a key is what is left of it.
Recovered(log) ==
    [k \in Key |->
        LET records == {n \in DOMAIN log : log[n].k = k}
        IN IF records = {} THEN 0
           ELSE log[CHOOSE n \in records : \A m \in records : m <= n].e]

\* The ids in S, largest first.
Descending(S) ==
    [n \in 1..Cardinality(S) |->
        CHOOSE i \in S : Cardinality({j \in S : j > i}) = n - 1]

\* Mutated form: the recovered memtables come oldest first.
OpenedOldestFirst ==
    LET r    == Replay
        top  == CHOOSE i \in r.ids : \A j \in r.ids : j <= i
        kept == {i \in r.mems : i \in DOMAIN wal /\ ~IsEmptyTable(Recovered(wal[i]))}
        imm  == IF setting.wal THEN Reverse(Descending(kept)) ELSE <<>>
    IN [ok |-> /\ r.ok
               /\ TableIds(r.s) \subseteq files
               /\ setting.wal => r.mems \subseteq DOMAIN wal /\ top + 1 \notin DOMAIN wal,
        mem |-> top + 1, s |-> [r.s EXCEPT !.mem = top + 1, !.imm = imm]]

\* What open makes of the directory: the state, and whether it gets that far.  Logs
\* of empty memtables are skipped; the others come back newest first.
Opened ==
    LET r    == Replay
        top  == CHOOSE i \in r.ids : \A j \in r.ids : j <= i
        kept == {i \in r.mems : i \in DOMAIN wal /\ ~IsEmptyTable(Recovered(wal[i]))}
        imm  == IF setting.wal THEN Descending(kept) ELSE <<>>
    IN [ok |-> /\ r.ok
               /\ TableIds(r.s) \subseteq files
               /\ setting.wal => r.mems \subseteq DOMAIN wal /\ top + 1 \notin DOMAIN wal,
        mem |-> top + 1, s |-> [r.s EXCEPT !.mem = top + 1, !.imm = imm]]

\* The entry for k that the engine opened on the directory would read.
OpenedEntry(o, k) ==
    Newest([i \in 1..Len(o.s.imm) |-> Recovered(wal[o.s.imm[i]])]
               \o Contents(o.s.l0) \o LevelTables(o.s.levels), k)

Quiet == \A t \in Thread : at[t] \in {"idle", "stopped", "panicked"}
Stopped == /\ mode = "closed" /\ Quiet
           /\ {at[Flusher], at[Compactor]} \subseteq {"stopped", "panicked"}

Start(t) == IF t = Compactor /\ ~setting.simple THEN "stopped" ELSE "idle"

Open(c) ==
    LET o == Opened
    IN /\ Stopped /\ Idle(c) /\ Call("open")
       /\ IF ~o.ok
          THEN /\ mode' = "failed"
               /\ UNCHANGED <<engineVars, threadVars, stop, closed, historyVars>>
          ELSE /\ st' = o.s /\ nextId' = o.mem + 1
               /\ mt' = [i \in Ids(o.s.imm) \cup {o.mem} |->
                            IF i = o.mem THEN EmptyMemtable
                            ELSE [data |-> Recovered(wal[i]), size |-> 0]]
               /\ wal' = IF setting.wal THEN With(wal, o.mem, <<>>) ELSE wal
               /\ manifest' = Append(manifest, [kind |-> "new", id |-> o.mem])
               /\ mode' = "open" /\ closed' = "none" /\ stop' = {}
               /\ at'  = [t \in Thread |-> Start(t)]
               /\ loc' = [t \in Thread |-> NoOp]
               /\ current' = [k \in Key |-> OpenedEntry(o, k)]
               /\ done'  = [k \in Key |-> {OpenedEntry(o, k)} \ {0}]
               /\ stale' = [k \in Key |-> (stale[k] \cup done[k]) \ {OpenedEntry(o, k)}]
               /\ UNCHANGED <<sst, files, lock, writes, seen>>
       /\ UNCHANGED setting

-----------------------------------------------------------------------------
(* A new directory: LsmStorageState::create, and the first record.         *)

Init ==
    /\ setting \in Settings
    /\ st = [mem |-> 0, imm |-> <<>>, l0 |-> <<>>, levels |-> EmptyLevels]
    /\ mt = [i \in {0} |-> EmptyMemtable]
    /\ wal = IF setting.wal THEN [i \in {0} |-> <<>>] ELSE <<>>
    /\ sst = <<>> /\ files = {}
    /\ manifest = <<[kind |-> "new", id |-> 0]>>
    /\ nextId = 1
    /\ lock = Nobody
    /\ at  = [t \in Thread |-> Start(t)]
    /\ loc = [t \in Thread |-> NoOp]
    /\ stop = {} /\ mode = "open" /\ closed = "none"
    /\ left = setting.calls
    /\ writes = 0
    /\ current = Nothing
    /\ done  = [k \in Key |-> {}]
    /\ stale = [k \in Key |-> {}]
    /\ seen  = [c \in Client |-> [k \in Key |-> {}]]

\* What a thread does once it has begun something.
WriterWorks(t)  == NextRecord(t) \/ AppendRecord(t) \/ TryFreeze(t)
FlushWorks(t)   == ForceFreeze(t) \/ Swap(t) \/ ForceCheck(t) \/ FlushBuild(t) \/ FlushInstall(t)
CompactWorks(t) == Merge(t) \/ Apply(t) \/ Install(t) \/ RemoveInputs(t)
ReadWorks(t)    == GetMemtable(t) \/ GetOld(t) \/ ReadReturns(t)
                   \/ ScanOpen(t) \/ ScanNext(t) \/ ScanEnd(t)
CloseWorks(t)   == CloseJoin(t) \/ CloseMemtable(t) \/ CloseDrain(t) \/ CloseEnd(t)

ClientWorks(c) ==
    WriterWorks(c) \/ FlushWorks(c) \/ CompactWorks(c) \/ ReadWorks(c) \/ CloseWorks(c)

ClientCalls(c) ==
    WriteBatch(c) \/ ForceFlush(c) \/ FullCompaction(c) \/ Get(c) \/ Scan(c) \/ Close(c) \/ Open(c)

FlusherWorks   == FlushTick \/ StopThread(Flusher) \/ FlushWorks(Flusher)
CompactorWorks == CompactTick \/ StopThread(Compactor) \/ CompactWorks(Compactor)

Works == FlusherWorks \/ CompactorWorks \/ \E c \in Client : ClientWorks(c)

Next == (\E c \in Client : ClientCalls(c)) \/ Works

Spec == Init /\ [][Next]_vars

\* Some thread that has work is scheduled, and select! does not put off a
\* notification for ever; nobody has to call anything.
FairSpec == Spec /\ WF_vars(Works)

-----------------------------------------------------------------------------
(* Properties.                                                             *)

\* The ids in use are those of the tables at hand, and locals fit where a thread is.
TypeOK ==
    /\ mode \in {"open", "closing", "closed", "failed"}
    /\ closed \in {"none", "ok", "err"}
    /\ lock \in Thread \cup {Nobody}
    /\ Ids(st.imm) \cup {st.mem} \subseteq DOMAIN mt
    /\ TableIds(st) \subseteq DOMAIN sst \cap files
    /\ DOMAIN mt \cup TableIds(st) \subseteq 0..(nextId - 1)
    /\ \A k \in Key : current[k] \in -writes..writes

\* Whatever is frozen, flushed and compacted meanwhile, the state reads as the
\* sequence of insertions left it.
ContentPreserved ==
    mode # "failed" => \A k \in Key : Visible(Content(st, k)) = Visible(current[k])

\* A get returns what the key held at some moment between its call and its return,
\* although it takes no lock after it cloned the state.
GetInWindow ==
    \A c \in Client : at[c] = "got" =>
        loc[c].val \in {Visible(e) : e \in seen[c][loc[c].k]}

\* For every key in its range a scan returns, or leaves out, what the key held at
\* some moment of the scan, although the memtable changes under the iterator.
ScanInWindow ==
    \A c \in Client : at[c] = "scanned" =>
        \A k \in Key : InRange(k, loc[c].lo, loc[c].hi) =>
            loc[c].out[k] \in {Visible(e) : e \in seen[c][k]}

\* A get and a scan are answered from the time of the call, although they take no
\* lock once they have cloned the state.
ReadsInWindow == GetInWindow /\ ScanInWindow

\* A memtable that left the place of the current one is never written again, nor is
\* its log, so that flush and readers may walk it without a guard.
FrozenUnchanged ==
    [][mode # "closed" =>
        \A i \in DOMAIN mt \ {st.mem} :
            /\ mt'[i].data = mt[i].data
            /\ i \in DOMAIN wal \cap DOMAIN wal' => wal'[i] = wal[i]]_vars

\* The directory of a closed engine can be opened, unless a full compaction was
\* recorded, which no controller can replay.
OpenSucceeds ==
    Stopped => (Opened.ok <=> \A i \in 1..Len(manifest) : manifest[i].kind # "full")

\* After a close without error the next open reads, for every key, a write that no
\* later completed write replaced, and none is missing.  Without logs it is the last
\* one; with them two writers at once may reach the log in the other order.
RestartKeepsReturned ==
    Stopped /\ closed = "ok" /\ Opened.ok =>
        \A k \in Key :
            /\ Visible(OpenedEntry(Opened, k)) \in
                   {Visible(e) : e \in IF done[k] = {} THEN {0} ELSE done[k] \ stale[k]}
            /\ ~setting.wal => Visible(OpenedEntry(Opened, k)) = Visible(current[k])

\* Threads panic where the code is known to: flushing where another force_flush
\* emptied the queue or froze an empty memtable, two full compactions at once, and a
\* compaction of nothing but deletions.  No other assertion fails.
PanicsExplained ==
    \A t \in Thread : at[t] = "panicked" =>
        CASE loc[t].cause = "nothing to flush" -> left["flush"] < setting.calls["flush"]
          [] loc[t].cause = "inputs moved" -> ~setting.simple /\ left["full"] + 2 <= setting.calls["full"]
          [] loc[t].cause = "empty table"  -> left["del"] < setting.calls["del"]
          [] OTHER -> FALSE

\* Every call comes back or panics, close among them, and the background threads
\* get done: nobody waits for state_lock, a guard or a join for ever, and compaction
\* does not go round in circles.
CallsReturn == []<>Quiet
=============================================================================
