------------------------------- MODULE Levels -------------------------------
(***************************************************************************)
(* The levels of the engine under the three compaction controllers         *)
(* (simple leveled, leveled, tiered): which task a controller chooses from *)
(* the state, what the merge keeps of its inputs at the watermark and how  *)
(* it splits the output, how the result is applied to a state that flushes *)
(* have changed meanwhile, and how open rebuilds the levels by applying    *)
(* the records of the manifest again.                                      *)
(*                                                                         *)
(* A version is a key, a commit timestamp and whether it is a tombstone; a *)
(* table (SST) is a set of versions; its size is their number.  One flush  *)
(* brings one batch.  Crash windows are the subject of Durability.         *)
(***************************************************************************)
EXTENDS Integers, FiniteSets, Sequences, SequencesExt

CONSTANTS
    Strategies,       \* the CompactionOptions to choose from
    NumKeys,          \* keys are 1 .. NumKeys, in their order
    Batches,          \* the batches users commit: sets of keys with or without a value
    TargetSize,       \* target_sst_size, in versions
    Trigger,          \* level0_file_num_compaction_trigger
    MaxLevels,        \* max_levels
    SizeRatioPercent, \* simple leveled: size_ratio_percent
    BaseLevelSize,    \* leveled: base_level_size_mb, in versions
    Multiplier,       \* leveled: level_size_multiplier
    NumTiers,         \* tiered: num_tiers
    MaxAmpPercent,    \* tiered: max_size_amplification_percent
    SizeRatio,        \* tiered: size_ratio
    MinMergeWidth,    \* tiered: min_merge_width
    MaxMergeWidth,    \* tiered: max_merge_width (None is a width no state reaches)
    MaxTs,            \* bound: the largest commit timestamp
    MaxReopens        \* bound: how often the engine is closed and opened

ASSUME LevelsAssumption ==
    /\ Strategies \subseteq {"Simple", "Leveled", "Tiered"}
    /\ {NumKeys, TargetSize, Trigger, MaxLevels, Multiplier, NumTiers} \subseteq Nat \ {0}
    /\ Batches \subseteq (SUBSET [key : 1 .. NumKeys, del : BOOLEAN]) \ {{}}
    /\ \A b \in Batches : \A v, w \in b : v.key = w.key => v = w
    /\ {SizeRatioPercent, BaseLevelSize, MaxAmpPercent, SizeRatio} \subseteq Nat
    /\ MinMergeWidth \in Nat /\ MaxMergeWidth \in Nat \ {0}
    /\ {MaxTs, MaxReopens} \subseteq Nat

VARIABLES
    strategy,   \* the controller the engine was opened with
    lsm,        \* l0_sstables and levels of LsmStorageState; a tier's id is its first file's
    sst,        \* versions in each table of LsmStorageState::sstables
    replayed,   \* what applying the manifest's records again yields
    mem,        \* id of the memtable being written
    nextId,     \* next_sst_id
    ts,         \* latest_commit_ts
    watermark,  \* the lowest timestamp that is or may still be read
    job,        \* the compaction between merge and installation: at most one
    running,    \* the compaction thread has not panicked
    history,    \* every version committed (after a reopen: the last value of each key)
    deleted,    \* somebody has written a tombstone
    reopens     \* how often the engine was opened again

vars == <<strategy, lsm, sst, replayed, mem, nextId, ts, watermark, job, running,
          history, deleted, reopens>>

\* The sequence s without the elements of gone.
Without(s, gone) ==
    LET kept == {i \in DOMAIN s : s[i] \notin gone}
    IN [n \in 1 .. Cardinality(kept) |->
           s[CHOOSE i \in kept : Cardinality({j \in kept : j < i}) = n - 1]]

Keys     == 1 .. NumKeys
Versions == [key : Keys, ts : 1 .. MaxTs, del : BOOLEAN]

\* The order of Key: by key, then newer versions first.
Before(v, w) == v.key < w.key \/ (v.key = w.key /\ v.ts > w.ts)

FirstKey(S) == CHOOSE v \in S : \A w \in S : w = v \/ Before(v, w)
LastKey(S)  == CHOOSE v \in S : \A w \in S : w = v \/ Before(w, v)

Contents(ids) == UNION {sst[id] : id \in ids}
Size(files)   == Cardinality(Contents(ToSet(files)))
Live(s)       == ToSet(s.l0) \cup UNION {ToSet(s.levels[i]) : i \in DOMAIN s.levels}

\* What a read of key k at timestamp t finds in a set of versions: the
\* timestamp of the version it returns, or nothing.
ValueAt(S, k, t) ==
    LET seen == {v \in S : v.key = k /\ v.ts <= t} IN
    {v.ts : v \in {w \in seen : ~w.del /\ \A x \in seen : x.ts <= w.ts}}

-----------------------------------------------------------------------------
(* Tasks.  A controller gives no task or one.                              *)

LevelTask(upper, upperIds, lower, lowerIds) ==
    [upper |-> upper, upperIds |-> upperIds, lower |-> lower, lowerIds |-> lowerIds,
     tiers |-> <<>>, bottom |-> lower = MaxLevels]

TierTask(tiers, bottom) ==
    [upper |-> 0, upperIds |-> <<>>, lower |-> 0, lowerIds |-> <<>>,
     tiers |-> tiers, bottom |-> bottom]

\* Mutated form: a level as large as the ratio asks for counts as too small.
UnbalancedOrEqual(i) ==
    Len(lsm.levels[i + 1]) * 100 <= Len(lsm.levels[i]) * SizeRatioPercent

\* Level i + 1 is too small for level i.
Unbalanced(i) ==
    Len(lsm.levels[i + 1]) * 100 < Len(lsm.levels[i]) * SizeRatioPercent

\* L0 first; then the uppermost level whose lower neighbour is too small.
SimpleTask ==
    IF Len(lsm.l0) >= Trigger
    THEN {[LevelTask(0, lsm.l0, 1, lsm.levels[1]) EXCEPT !.bottom = FALSE]}
    ELSE LET unbalanced == {i \in 1 .. MaxLevels - 1 : Unbalanced(i)} IN
         {LevelTask(i, lsm.levels[i], i + 1, lsm.levels[i + 1]) :
             i \in {j \in unbalanced : \A k \in unbalanced : j <= k}}

\* The tables of a level whose range meets the range of the tables ids.
Overlapping(ids, level) ==
    LET begin == FirstKey(Contents(ids))
        end   == LastKey(Contents(ids))
    IN Without(lsm.levels[level],
               {id \in ToSet(lsm.levels[level]) :
                   Before(LastKey(sst[id]), begin) \/ Before(end, FirstKey(sst[id]))})

\* Target sizes from the bottom level up; levels above the base level get 0.
TargetSizes ==
    LET target[i \in 1 .. MaxLevels] ==
            IF i = MaxLevels THEN Max({Size(lsm.levels[i]), BaseLevelSize})
            ELSE IF target[i + 1] > BaseLevelSize THEN target[i + 1] \div Multiplier
            ELSE 0
    IN target

BaseLevel == LET target == TargetSizes IN
    Min({MaxLevels} \cup {i \in 1 .. MaxLevels : target[i] > 0})

\* L0 first; then one table, the oldest, of the level that exceeds its target
\* most (real / target; of equals the lower level).
LeveledTask ==
    LET real == [i \in 1 .. MaxLevels |-> Size(lsm.levels[i])]
        target == TargetSizes
        exceeding == {i \in 1 .. MaxLevels : real[i] > target[i]}
        MoreUrgent(i, j) == \/ real[i] * target[j] > real[j] * target[i]
                            \/ real[i] * target[j] = real[j] * target[i] /\ i > j
        Push(i) == LET id == Min(ToSet(lsm.levels[i])) IN
                   LevelTask(i, <<id>>, i + 1, Overlapping({id}, i + 1))
    IN IF Len(lsm.l0) >= Trigger
       THEN {LevelTask(0, lsm.l0, BaseLevel, Overlapping(ToSet(lsm.l0), BaseLevel))}
       ELSE {Push(i) : i \in {j \in exceeding : \A k \in exceeding \ {j} : MoreUrgent(j, k)}}

\* Space amplification, then size ratio, then fewer sorted runs.
TieredTask ==
    LET n == Len(lsm.levels)
        Upto(i) == SubSeq(lsm.levels, 1, i)
        Files(i) == Len(FlattenSeq(Upto(i)))
        large == {i \in 1 .. n - 1 :
                     /\ i >= MinMergeWidth
                     /\ Len(lsm.levels[i + 1]) * 100 > Files(i) * (100 + SizeRatio)}
    IN IF n < NumTiers THEN {}
       ELSE IF Files(n - 1) * 100 >= Len(lsm.levels[n]) * MaxAmpPercent
            THEN {TierTask(lsm.levels, TRUE)}
       ELSE IF large # {} THEN {TierTask(Upto(Min(large)), FALSE)}
       ELSE {TierTask(Upto(Min({n, MaxMergeWidth})), n >= Min({n, MaxMergeWidth}))}

Task == CASE strategy = "Simple"  -> SimpleTask
          [] strategy = "Leveled" -> LeveledTask
          [] strategy = "Tiered"  -> TieredTask

Inputs(t) ==
    ToSet(t.upperIds) \cup ToSet(t.lowerIds) \cup UNION {ToSet(tier) : tier \in ToSet(t.tiers)}

-----------------------------------------------------------------------------
(* Merging.                                                                *)

\* Mutated form: every version with a newer one goes, once it is at or below the
\* watermark, although the newer one may be above it.
KeptNewest(S, bottom) ==
    LET Newer(v) == {w \in S : w.key = v.key /\ w.ts > v.ts}
    IN {v \in S : v.ts > watermark \/ (Newer(v) = {} /\ ~(bottom /\ v.del))}

\* What is kept of the merged versions: all above the watermark and the newest
\* at or below it, unless that one is a tombstone, is the newest of its key in
\* the merge and the output goes to the bottom.
Kept(S, bottom) ==
    LET Newer(v) == {w \in S : w.key = v.key /\ w.ts > v.ts}
    IN {v \in S : \/ v.ts > watermark
                  \/ /\ \A w \in Newer(v) : w.ts > watermark
                     /\ ~(bottom /\ v.del /\ Newer(v) = {})}

\* The versions of the next key go to the last table until that has the target
\* size, and then to a new one.
AddKey(out, group) ==
    IF group = {} THEN out
    ELSE IF out # <<>> /\ Cardinality(Last(out)) < TargetSize
         THEN Append(Front(out), Last(out) \cup group)
    ELSE Append(out, group)

\* The output is split before a new key only: the versions of a key stay together.
Split(S) ==
    LET upto[k \in 0 .. NumKeys] ==
            IF k = 0 THEN <<>> ELSE AddKey(upto[k - 1], {v \in S : v.key = k})
    IN upto[NumKeys]

-----------------------------------------------------------------------------
(* Applying a result, in memory and again from the manifest.               *)

\* Mutated form: the ids are compared instead of the keys.
SortedById(files, contents) ==
    [n \in 1 .. Len(files) |->
        CHOOSE x \in ToSet(files) : Cardinality({y \in ToSet(files) : y < x}) = n - 1]

SortedByFirstKey(files, contents) ==
    LET StartsBefore(x, y) == Before(FirstKey(contents[x]), FirstKey(contents[y]))
    IN [n \in 1 .. Len(files) |->
           CHOOSE x \in ToSet(files) :
               Cardinality({y \in ToSet(files) : StartsBefore(y, x)}) = n - 1]

\* Both leveled controllers: the inputs go and the output takes the place of
\* the lower ones; the leveled controller sorts the level, except in recovery.
ApplyToLevels(s, t, out) ==
    LET upper == IF t.upper = 0
                 THEN [s EXCEPT !.l0 = Without(@, ToSet(t.upperIds))]
                 ELSE [s EXCEPT !.levels[t.upper] = Without(@, ToSet(t.upperIds))]
    IN [upper EXCEPT !.levels[t.lower] = Without(@, ToSet(t.lowerIds)) \o out]

\* Mutated form: the new tier is put before the tiers flushed meanwhile.
ApplyToTiersInFront(s, t, out) ==
    [s EXCEPT !.levels = <<out>> \o Without(@, ToSet(t.tiers))]

\* The new tier goes where the last of the merged ones was.
ApplyToTiers(s, t, out) ==
    LET merged == {i \in DOMAIN s.levels : s.levels[i] \in ToSet(t.tiers)}
    IN [s EXCEPT !.levels = Without(SubSeq(@, 1, Max(merged)), ToSet(t.tiers)) \o <<out>>
                            \o SubSeq(@, Max(merged) + 1, Len(@))]

Apply(s, t, out) ==
    IF strategy = "Tiered" THEN ApplyToTiers(s, t, out) ELSE ApplyToLevels(s, t, out)

\* Mutated form: L0, too, is asserted to be unchanged.
ApplicableSameL0(s, t) == strategy # "Tiered" /\ t.upper = 0 => t.upperIds = s.l0

\* The assertions of apply_compaction_result.
Applicable(s, t) ==
    IF strategy = "Tiered"
    THEN s.l0 = <<>> /\ ToSet(t.tiers) \subseteq ToSet(s.levels)
    ELSE /\ ToSet(t.upperIds) \subseteq ToSet(IF t.upper = 0 THEN s.l0 ELSE s.levels[t.upper])
         /\ ToSet(t.lowerIds) \subseteq ToSet(s.levels[t.lower])
         /\ strategy = "Simple" => /\ t.lowerIds = s.levels[t.lower]
                                   /\ t.upper > 0 => t.upperIds = s.levels[t.upper]

SortedLevels(s, contents) ==
    IF strategy = "Leveled"
    THEN [s EXCEPT !.levels = [i \in DOMAIN @ |-> SortedByFirstKey(@[i], contents)]]
    ELSE s

\* A flushed memtable becomes the first table of L0 or the first tier.
AddFlushed(s, id) ==
    IF strategy = "Tiered" THEN [s EXCEPT !.levels = <<<<id>>>> \o @]
    ELSE [s EXCEPT !.l0 = <<id>> \o @]

\* Mutated form: the replay of a Flush record puts the table last.
RecordFlushAtEnd(id, next) ==
    LET s == replayed.state IN
    [state |-> IF strategy = "Tiered" THEN [s EXCEPT !.levels = @ \o <<<<id>>>>]
               ELSE [s EXCEPT !.l0 = @ \o <<id>>],
     maxId |-> Max({replayed.maxId, id, next})]

\* Replay of a Flush record; the NewMemtable record that names the next
\* memtable was added when the flushed one was frozen.
RecordFlush(id, next) ==
    [state |-> AddFlushed(replayed.state, id), maxId |-> Max({replayed.maxId, id, next})]

\* Mutated form: the ids of the output do not count for the next id.
RecordCompactionKeepsMaxId(t, out) ==
    [replayed EXCEPT !.state = Apply(@, t, out)]

\* Replay of a Compaction record.
RecordCompaction(t, out) ==
    [state |-> Apply(replayed.state, t, out), maxId |-> Max({replayed.maxId} \cup ToSet(out))]

\* Mutated form: the tables of L0 are left out.
LatestTsOfLevels(s) ==
    Max({0} \cup {v.ts : v \in Contents(UNION {ToSet(s.levels[i]) : i \in DOMAIN s.levels})})

\* The timestamp open starts from: the largest max_ts of the tables.
LatestTs(s) == Max({0} \cup {v.ts : v \in Contents(Live(s))})

-----------------------------------------------------------------------------
(* Actions.                                                                *)

Created(s) == [l0 |-> <<>>, levels |-> IF s = "Tiered" THEN <<>>
                                       ELSE [i \in 1 .. MaxLevels |-> <<>>]]

Init ==
    /\ strategy \in Strategies
    /\ lsm = Created(strategy)
    /\ sst = <<>>
    /\ replayed = [state |-> Created(strategy), maxId |-> 0]
    /\ mem = 0 /\ nextId = 1
    /\ ts = 0 /\ watermark = 0
    /\ job = {} /\ running = TRUE
    /\ history = {} /\ deleted = FALSE /\ reopens = 0

\* A batch is committed, its memtable frozen (which takes the id of the next
\* memtable) and flushed, with the NewMemtable and Flush records.
Flush ==
    /\ ts < MaxTs
    /\ \E b \in Batches :
         LET batch == {[key |-> v.key, ts |-> ts + 1, del |-> v.del] : v \in b} IN
         /\ sst' = [id \in DOMAIN sst \cup {mem} |-> IF id = mem THEN batch ELSE sst[id]]
         /\ history' = history \cup batch
         /\ deleted' = (deleted \/ \E v \in batch : v.del)
    /\ lsm' = AddFlushed(lsm, mem)
    /\ replayed' = RecordFlush(mem, nextId)
    /\ mem' = nextId /\ nextId' = nextId + 1
    /\ ts' = ts + 1
    /\ UNCHANGED <<strategy, watermark, job, running, reopens>>

\* Readers leave: the watermark rises up to the latest commit.
ReadersLeave ==
    /\ \E w \in watermark + 1 .. ts : watermark' = w
    /\ UNCHANGED <<strategy, lsm, sst, replayed, mem, nextId, ts, job, running,
                   history, deleted, reopens>>

\* The tick of the compaction thread up to the merged tables.  When the merge
\* drops every version the builder is asked for a table without entries, and
\* the thread panics.
Compact ==
    /\ running /\ job = {}
    /\ \E t \in Task : \E merged \in {Contents(Inputs(t))} :
       \E tables \in {Split(Kept(merged, t.bottom))} :
         IF merged # {} /\ tables = <<>>
         THEN /\ running' = FALSE
              /\ UNCHANGED <<job, nextId>>
         ELSE /\ job' = {[task |-> t, out |-> [i \in DOMAIN tables |-> nextId + i - 1],
                          tables |-> tables]}
              /\ nextId' = nextId + Len(tables)
              /\ UNCHANGED running
    /\ UNCHANGED <<strategy, lsm, sst, replayed, mem, ts, watermark, history, deleted, reopens>>

\* The installation under state_lock, with the Compaction record.
Install ==
    /\ \E j \in job :
         LET ids == ToSet(j.out)
             all == [id \in DOMAIN sst \cup ids |->
                        IF id \in ids THEN j.tables[CHOOSE i \in DOMAIN j.out : j.out[i] = id]
                        ELSE sst[id]]
         IN /\ Applicable(lsm, j.task)
            /\ lsm' = SortedLevels(Apply(lsm, j.task, j.out), all)
            /\ sst' = [id \in DOMAIN all \ Inputs(j.task) |-> all[id]]
            /\ replayed' = RecordCompaction(j.task, j.out)
    /\ job' = {}
    /\ UNCHANGED <<strategy, mem, nextId, ts, watermark, running, history, deleted, reopens>>

\* The process stops, possibly between merge and installation, and open rebuilds
\* the levels from the records, the ids from the largest recorded one and the
\* timestamp from the tables; nobody reads at an older timestamp any more.
Reopen ==
    /\ reopens < MaxReopens
    /\ reopens' = reopens + 1
    /\ LET s == SortedLevels(replayed.state, sst)
           latest == LatestTs(s)
       IN /\ lsm' = s
          /\ sst' = [id \in Live(s) |-> sst[id]]
          /\ ts' = latest
          /\ watermark' = latest
    /\ mem' = replayed.maxId + 1
    /\ nextId' = replayed.maxId + 2
    /\ replayed' = [replayed EXCEPT !.maxId = @ + 1]
    /\ job' = {} /\ running' = TRUE
    /\ history' = {v \in history : ~v.del /\ \A w \in history : w.key = v.key => w.ts <= v.ts}
    /\ UNCHANGED <<strategy, deleted>>

Next == Flush \/ ReadersLeave \/ Compact \/ Install \/ Reopen

\* The compaction thread ticks every 50 ms for as long as it runs.
Fairness == WF_vars(Compact \/ Install)

Spec == Init /\ [][Next]_vars /\ Fairness
-----------------------------------------------------------------------------
(* Properties.                                                             *)

Runs == {lsm.levels[i] : i \in DOMAIN lsm.levels}

\* Variables have their types; sstables holds exactly the listed tables; the
\* ids that will be taken next are not in use, also after the ids were chosen
\* anew from the manifest.
TypeOK ==
    /\ strategy \in Strategies
    /\ Len(lsm.levels) = MaxLevels \/ strategy = "Tiered"
    /\ DOMAIN sst = Live(lsm)
    /\ \A id \in DOMAIN sst : sst[id] \subseteq Versions /\ sst[id] # {}
    /\ \A id \in DOMAIN sst \cup UNION {ToSet(j.out) : j \in job} : id < nextId /\ id # mem
    /\ mem < nextId
    /\ ts \in 0 .. MaxTs /\ watermark \in 0 .. ts
    /\ Cardinality(job) <= 1
    /\ running \in BOOLEAN /\ deleted \in BOOLEAN
    /\ history \subseteq Versions
    /\ reopens \in 0 .. MaxReopens

\* Compaction changes no read at a timestamp that the watermark still allows:
\* every such read finds in the tables what was committed.
SameReads ==
    \A k \in Keys, t \in watermark .. ts :
        ValueAt(Contents(Live(lsm)), k, t) = ValueAt(history, k, t)

\* SameReads for the simple leveled and the tiered controller, and for the
\* leveled one as long as nothing is deleted.
ReadsPreserved == (strategy = "Leveled" => ~deleted) => SameReads

\* The tables of a level or tier follow each other without overlap, as
\* SstConcatIterator asserts whenever it is created over one.
SortedRuns ==
    \A run \in Runs : \A i, j \in DOMAIN run :
        i < j => Before(LastKey(sst[run[i]]), FirstKey(sst[run[j]]))

\* Simple leveled and tiered: of two places in the order L0, level 1, ... the
\* first has the newer versions of every key.  Dropping a tombstone at the
\* bottom rests on it.
AgeOrder ==
    LET places == [i \in DOMAIN lsm.l0 |-> <<lsm.l0[i]>>] \o lsm.levels
        At(i) == Contents(ToSet(places[i]))
    IN strategy # "Leveled" =>
         \A i, j \in DOMAIN places : i < j =>
            \A v \in At(i), w \in At(j) : v.key = w.key => v.ts > w.ts

\* Whatever was flushed since the task was chosen, the assertions of
\* apply_compaction_result hold when the result arrives.
InstallSafe == \A j \in job : Applicable(lsm, j.task)

\* Applying the manifest's records to the empty state and sorting the levels
\* at the end gives the levels in memory, table for table.
ReplayMatches == SortedLevels(replayed.state, sst) = lsm

\* A restart never goes back behind a stored version: what is written next is
\* newer than everything in the tables.
NewestFirst == \A v \in Contents(Live(lsm)) : v.ts <= ts

\* Once writers rest, compaction comes to an end: the controller has nothing
\* more to do, unless the thread has panicked.
Quiesces == <>[](job = {} /\ (Task = {} \/ ~running))
=============================================================================
