------------------------------ MODULE ReadPath ------------------------------
(***************************************************************************)
(* One read of the mini-lsm-mvcc crate, get or scan, through the tree of   *)
(* iterators it builds: memtable, SST and concat iterators, MergeIterator, *)
(* TwoMergeIterator, LsmIterator, FusedIterator, and TxnIterator over the  *)
(* transaction's own writes.                                               *)
(*                                                                         *)
(* A step is one call of next on the merged engine iterator, or the code   *)
(* between two such calls.  Meanwhile other transactions insert into the   *)
(* live memtable and the reader's own transaction may write between two    *)
(* calls of the user.  SSTs and immutable memtables do not change, and the *)
(* reader has cloned the state that lists them.                            *)
(***************************************************************************)
EXTENDS SstFile

CONSTANTS
    Cases,          \* what the engine holds, and the read: see below
    MaxWrites       \* bound: number of writes during the read

\* An entry is [key, ts, len]; equal key and timestamp occur twice only when a write
\* failed and was tried again, the later source then counts.
Sources == {"mem", "imm", "l0", "levels"}

\* kind, lower, upper, readTs: the read, a get looks up lower.key.
\* mem: entries of the memtable.  imm, l0: entries of the immutable memtables and of
\* the L0 tables, latest first.  levels: entries of the tables of each level.  own:
\* the transaction's local_storage, a function from keys to lengths.  bad: blocks
\* <<entries, i>> that have become unreadable since their table was opened.
ASSUME ReadPathAssumption ==
    /\ MaxWrites \in Nat
    /\ \A c \in Cases :
          /\ \A e \in c.mem : e.key \in UserKey /\ e.ts \in Nat /\ e.len \in Nat
          /\ c.kind \in {"get", "scan"}
          /\ c.readTs \in Nat
          /\ DOMAIN c.own \subseteq UserKey

VARIABLES
    case,       \* the case of this behaviour: the cloned state and the request
    sstables,   \* LsmStorageState.sstables: the SSTs of the state, opened
    mem,        \* entries of the live memtable
    own,        \* Transaction.local_storage
    inner,      \* LsmIterator.inner, the merged engine iterator
    isValid,    \* LsmIterator.is_valid
    prevKey,    \* LsmIterator.prev_key
    phase,      \* the loop of move_to_key: "older" or "newer" versions of prev_key
    item,       \* TxnLocalIterator.item
    chooseOwn,  \* TwoMergeIterator.choose_a of the transaction's iterator
    pc,         \* where the read is
    ret,        \* where it goes when LsmIterator has settled
    out,        \* what the user got so far
    writes      \* the writes made during the read: own ones by key

snapshot == <<case, sstables>>
iterVars == <<inner, isValid, prevKey, phase>>
txnVars  == <<item, chooseOwn>>
vars == <<snapshot, mem, own, iterVars, txnVars, pc, ret, out, writes>>

-----------------------------------------------------------------------------
(* The tables.                                                             *)

TablesOf(c) ==
    {c.l0[i] : i \in 1..Len(c.l0)}
    \cup UNION {{c.levels[i][j] : j \in 1..Len(c.levels[i])} : i \in 1..Len(c.levels)}

TableSets == UNION {TablesOf(c) : c \in Cases}

\* An SST as it is after it was opened, with what each of its positions holds.
Opened(S) ==
    LET table == OpenTable(BuildFrom(S).file)
    IN  [table |-> table, blocks |-> Entries(table)]

AllOpened == [S \in TableSets |-> Opened(S)] @@ << >>

Table(S)  == sstables[S].table
Blocks(S) == sstables[S].blocks

\* SsTable::read_block gives an error for a block that fails its checksum.
Readable(S, i) == <<S, i>> \notin case.bad

-----------------------------------------------------------------------------
(* Bounds.                                                                 *)

Unbounded == [kind |-> "unbounded", key |-> 0, ts |-> 0]
Included(k, t) == [kind |-> "included", key |-> k, ts |-> t]
Excluded(k, t) == [kind |-> "excluded", key |-> k, ts |-> t]

\* map_key_bound_plus_ts.
LowerWithTs(b, readTs) ==
    CASE b.kind = "included" -> Included(b.key, readTs)
      [] b.kind = "excluded" -> Excluded(b.key, TsRangeEnd)
      [] OTHER -> Unbounded

UpperWithTs(b) ==
    CASE b.kind = "included" -> Included(b.key, TsRangeEnd)
      [] b.kind = "excluded" -> Excluded(b.key, TsRangeBegin)
      [] OTHER -> Unbounded

NotBelow(e, b) ==
    CASE b.kind = "included" -> AtOrBefore(b, e)
      [] b.kind = "excluded" -> Before(b, e)
      [] OTHER -> TRUE

NotAbove(e, b) ==
    CASE b.kind = "included" -> AtOrBefore(e, b)
      [] b.kind = "excluded" -> Before(e, b)
      [] OTHER -> TRUE

KeyNotAbove(k, b) ==
    CASE b.kind = "included" -> k <= b.key
      [] b.kind = "excluded" -> k < b.key
      [] OTHER -> TRUE

KeyNotBelow(k, b) ==
    CASE b.kind = "included" -> k >= b.key
      [] b.kind = "excluded" -> k > b.key
      [] OTHER -> TRUE

\* range_overlap.
RangeOverlap(lower, upper, table) ==
    KeyNotAbove(table.first.key, upper) /\ KeyNotBelow(table.last.key, lower)

\* The tables get_with_ts looks into: key_within and the Bloom filter.
KeepTable(k, table) ==
    /\ table.first.key <= k /\ k <= table.last.key
    /\ MayContain(table.bloom, Fingerprint[k])

-----------------------------------------------------------------------------
(* Iterators at the leaves.  Fail stands for an error.                     *)

Fail == [kind |-> "fail"]

FirstOf(S) ==
    IF S = {} THEN NoEntry ELSE CHOOSE e \in S : \A f \in S : AtOrBefore(e, f)

MemEntries(i) == IF i = 0 THEN mem ELSE case.imm[i]

\* MemTable::scan: the iterator of memtable i, with its first entry.
MemScan(i, lower, upper) ==
    [kind |-> "mem", id |-> i, upper |-> upper,
     item |-> FirstOf({e \in MemEntries(i) : NotBelow(e, lower) /\ NotAbove(e, upper)})]

\* MemTableIterator::next reads what the live map holds now.
MemNext(it) ==
    [it EXCEPT !.item = FirstOf({e \in MemEntries(it.id) :
                                    Before(it.item, e) /\ NotAbove(e, it.upper)})]

SstAt(S, i, j) == [kind |-> "sst", table |-> S, block |-> i, entry |-> j]

SstValid(it) ==
    it.block <= Len(Blocks(it.table)) /\ it.entry <= Len(Blocks(it.table)[it.block])

SstEntry(it) == Blocks(it.table)[it.block][it.entry]

SstSeekToFirst(S) == IF Readable(S, 1) THEN SstAt(S, 1, 1) ELSE Fail

\* A block is read when the iterator enters it.
SstSeekToKey(S, key) ==
    LET p == SeekPosition(Table(S), key)
        blocks == {FindBlock(Table(S), key)} \cup ({p[1]} \cap (1..Len(Blocks(S))))
    IN  IF \A i \in blocks : Readable(S, i) THEN SstAt(S, p[1], p[2]) ELSE Fail

\* Mutated form: the number of blocks is not looked at.
SstNextFailsAtEnd(it) ==
    IF it.entry < Len(Blocks(it.table)[it.block])
    THEN [it EXCEPT !.entry = @ + 1]
    ELSE IF it.block = Len(Blocks(it.table)) \/ ~Readable(it.table, it.block + 1) THEN Fail
    ELSE SstAt(it.table, it.block + 1, 1)

SstNext(it) ==
    IF it.entry < Len(Blocks(it.table)[it.block])
    THEN [it EXCEPT !.entry = @ + 1]
    ELSE IF it.block < Len(Blocks(it.table)) /\ ~Readable(it.table, it.block + 1) THEN Fail
    ELSE SstAt(it.table, it.block + 1, 1)

\* SstConcatIterator: the tables, the iterator over the current one, if any, and the
\* index of the next table.
RunAt(tables, n, current) ==
    [kind |-> "run", tables |-> tables, next |-> n, current |-> current]

NoTable == [kind |-> "none"]

\* move_until_valid; no table is empty, so that one table further is far enough.
MoveUntilValid(it) ==
    CASE it.current.kind = "fail" -> Fail
      [] it.current.kind = "none" -> it
      [] OTHER ->
           IF SstValid(it.current) THEN it
           ELSE IF it.next > Len(it.tables) THEN RunAt(it.tables, it.next, NoTable)
           ELSE LET sst == SstSeekToFirst(it.tables[it.next])
                IN  IF sst = Fail THEN Fail ELSE RunAt(it.tables, it.next + 1, sst)

RunSeekToFirst(tables) ==
    IF tables = <<>> THEN RunAt(tables, 1, NoTable)
    ELSE MoveUntilValid(RunAt(tables, 2, SstSeekToFirst(tables[1])))

RunSeekToKey(tables, key) ==
    LET n == Cardinality({i \in 1..Len(tables) : AtOrBefore(Table(tables[i]).first, key)})
        i == IF n = 0 THEN 1 ELSE n
    IN  IF i > Len(tables) THEN RunAt(tables, Len(tables) + 1, NoTable)
        ELSE MoveUntilValid(RunAt(tables, i + 1, SstSeekToKey(tables[i], key)))

RunNext(it) == MoveUntilValid([it EXCEPT !.current = SstNext(@)])

-----------------------------------------------------------------------------
(* Merging iterators.                                                      *)

RECURSIVE Valid(_), Entry(_), Advance(_)

Valid(it) ==
    CASE it.kind = "mem"   -> it.item # NoEntry
      [] it.kind = "sst"   -> SstValid(it)
      [] it.kind = "run"   -> it.current # NoTable
      [] it.kind = "merge" -> it.current # 0 /\ Valid(it.its[it.current])
      [] it.kind = "two"   -> IF it.chooseA THEN Valid(it.a) ELSE Valid(it.b)

Entry(it) ==
    CASE it.kind = "mem"   -> it.item
      [] it.kind = "sst"   -> SstEntry(it)
      [] it.kind = "run"   -> SstEntry(it.current)
      [] it.kind = "merge" -> Entry(it.its[it.current])
      [] it.kind = "two"   -> IF it.chooseA THEN Entry(it.a) ELSE Entry(it.b)

\* HeapWrapper::cmp, reversed: key order, then the index.
HeapBefore(its, i, j) ==
    \/ Before(Entry(its[i]), Entry(its[j]))
    \/ SameKeyTs(Entry(its[i]), Entry(its[j])) /\ i < j

HeapTop(its, heap) == CHOOSE i \in heap : \A j \in heap \ {i} : HeapBefore(its, i, j)

\* MergeIterator::create: the first iterator becomes current, the last one if none is
\* valid.  An iterator that failed makes the whole fail.
Merge(its) ==
    LET valid == {i \in 1..Len(its) : Valid(its[i])}
        top   == IF valid = {} THEN Len(its) ELSE HeapTop(its, valid)
    IN  IF \E i \in 1..Len(its) : its[i] = Fail THEN Fail
        ELSE [kind |-> "merge", its |-> its, current |-> top, heap |-> valid \ {top}]

\* Mutated form: a current iterator that goes on stays current.
ReselectAtEndOnly(its, current, heap) ==
    LET top == HeapTop(its, heap)
    IN  IF heap = {} \/ Valid(its[current])
        THEN [kind |-> "merge", its |-> its, current |-> current, heap |-> heap]
        ELSE [kind |-> "merge", its |-> its, current |-> top, heap |-> heap \ {top}]

\* The iterators after a step, the heap, and the one that was current: it is replaced
\* by the top of the heap when it has ended or comes after it.
Reselect(its, current, heap) ==
    LET top == HeapTop(its, heap)
    IN  IF heap = {} \/ (Valid(its[current]) /\ HeapBefore(its, current, top))
        THEN [kind |-> "merge", its |-> its, current |-> current, heap |-> heap]
        ELSE [kind |-> "merge", its |-> its, current |-> top,
              heap |-> (heap \ {top}) \cup IF Valid(its[current]) THEN {current} ELSE {}]

\* Mutated form: entries equal to the current one stay in the heap.
MergeNextKeepsEqual(it) ==
    LET next == Advance(it.its[it.current])
    IN  IF next = Fail THEN Fail
        ELSE Reselect([it.its EXCEPT ![it.current] = next], it.current, it.heap)

\* MergeIterator::next: every iterator that stands at the same key goes on.
MergeNext(it) ==
    LET equal == {i \in it.heap : SameKeyTs(Entry(it.its[i]), Entry(it.its[it.current]))}
        moved == equal \cup {it.current}
        its   == [i \in 1..Len(it.its) |-> IF i \in moved THEN Advance(it.its[i])
                                          ELSE it.its[i]]
    IN  IF \E i \in moved : its[i] = Fail THEN Fail
        ELSE Reselect(its, it.current,
                      {i \in it.heap : i \in equal => Valid(its[i])})

\* TwoMergeIterator: skip_b, then choose_a.
Two(a, b) ==
    IF a = Fail \/ b = Fail THEN Fail
    ELSE LET skipped == IF Valid(a) /\ Valid(b) /\ SameKeyTs(Entry(a), Entry(b))
                        THEN Advance(b) ELSE b
         IN  IF skipped = Fail THEN Fail
             ELSE [kind |-> "two", a |-> a, b |-> skipped,
                   chooseA |-> /\ Valid(a)
                               /\ ~Valid(skipped) \/ Before(Entry(a), Entry(skipped))]

Advance(it) ==
    CASE it.kind = "mem"   -> MemNext(it)
      [] it.kind = "sst"   -> SstNext(it)
      [] it.kind = "run"   -> RunNext(it)
      [] it.kind = "merge" -> MergeNext(it)
      [] it.kind = "two"   -> IF it.chooseA THEN Two(Advance(it.a), it.b)
                              ELSE Two(it.a, Advance(it.b))

-----------------------------------------------------------------------------
(* The trees that get_with_ts and scan_with_ts build.                      *)

MemIterators(lower, upper) ==
    Merge([i \in 1..Len(case.imm) + 1 |-> MemScan(i - 1, lower, upper)])

Tree(mems, l0, levels) == Two(Two(mems, Merge(l0)), Merge(levels))

GetTree(k) ==
    LET begin  == [key |-> k, ts |-> TsRangeBegin]
        keep(S) == KeepTable(k, Table(S))
        l0     == SelectSeq(case.l0, keep)
    IN  Tree(MemIterators(Included(k, TsRangeBegin), Included(k, TsRangeEnd)),
             [i \in 1..Len(l0) |-> SstSeekToKey(l0[i], begin)],
             [i \in 1..Len(case.levels) |-> RunSeekToKey(SelectSeq(case.levels[i], keep), begin)])

RECURSIVE PastKey(_, _)

\* An excluded lower bound: its versions are passed one by one.
PastKey(it, k) ==
    IF it = Fail THEN Fail
    ELSE IF Valid(it) /\ Entry(it).key = k THEN PastKey(Advance(it), k)
    ELSE it

ScanTree(lower, upper, readTs) ==
    LET begin == [key |-> lower.key, ts |-> TsRangeBegin]
        keep(S) == RangeOverlap(lower, upper, Table(S))
        l0 == SelectSeq(case.l0, keep)
        SstFrom(S) ==
            CASE lower.kind = "included" -> SstSeekToKey(S, begin)
              [] lower.kind = "excluded" -> PastKey(SstSeekToKey(S, begin), lower.key)
              [] OTHER -> SstSeekToFirst(S)
        RunFrom(tables) ==
            CASE lower.kind = "included" -> RunSeekToKey(tables, begin)
              [] lower.kind = "excluded" -> PastKey(RunSeekToKey(tables, begin), lower.key)
              [] OTHER -> RunSeekToFirst(tables)
    IN  Tree(MemIterators(LowerWithTs(lower, readTs), UpperWithTs(upper)),
             [i \in 1..Len(l0) |-> SstFrom(l0[i])],
             [i \in 1..Len(case.levels) |-> RunFrom(SelectSeq(case.levels[i], keep))])

-----------------------------------------------------------------------------
NoTree == [kind |-> "none"]
NoItem == [key |-> 0, len |-> 0]

Init ==
    /\ case \in Cases
    /\ sstables = [S \in TablesOf(case) |-> AllOpened[S]] @@ << >>
    /\ mem = case.mem
    /\ own = case.own
    /\ inner = NoTree /\ isValid = FALSE /\ prevKey = 0 /\ phase = "older"
    /\ item = NoItem /\ chooseOwn = FALSE
    /\ pc = "start" /\ ret = "done"
    /\ out = <<>>
    /\ writes = <<>>

\* LsmIterator::new: is_valid does not look at the end bound.
NewLsmIterator(tree) ==
    /\ inner' = tree
    /\ isValid' = Valid(tree)
    /\ prevKey' = 0
    /\ phase' = "older"
    /\ pc' = "move"

\* An error ends the read: `?` in get, FusedIterator in a scan.
Failed ==
    /\ pc' = "failed"
    /\ isValid' = FALSE
    /\ UNCHANGED <<inner, prevKey, phase>>

\* Transaction::get for a key the transaction has written itself.
GetOwn ==
    /\ pc = "start"
    /\ case.kind = "get"
    /\ case.lower.key \in DOMAIN own
    /\ LET k == case.lower.key
       IN  out' = IF own[k] = 0 THEN <<>> ELSE <<[key |-> k, len |-> own[k], ts |-> 0]>>
    /\ pc' = "done"
    /\ UNCHANGED <<snapshot, mem, own, iterVars, txnVars, ret, writes>>

GetStart ==
    /\ pc = "start"
    /\ case.kind = "get"
    /\ case.lower.key \notin DOMAIN own
    /\ LET tree == GetTree(case.lower.key)
       IN  IF tree = Fail THEN Failed ELSE NewLsmIterator(tree)
    /\ ret' = "result"
    /\ UNCHANGED <<snapshot, mem, own, txnVars, out, writes>>

\* The first entry of local_storage after key k within the bounds of the scan.
OwnAfter(k) ==
    LET keys == {j \in DOMAIN own : j > k /\ KeyNotBelow(j, case.lower) /\ KeyNotAbove(j, case.upper)}
    IN  IF keys = {} THEN NoItem
        ELSE LET j == Min(keys) IN [key |-> j, len |-> own[j]]

\* Transaction::scan: the local iterator first, then the engine's.
ScanStart ==
    /\ pc = "start"
    /\ case.kind = "scan"
    /\ item' = OwnAfter(0)
    /\ LET tree == ScanTree(case.lower, case.upper, case.readTs)
       IN  IF tree = Fail THEN Failed ELSE NewLsmIterator(tree)
    /\ ret' = "skip"
    /\ UNCHANGED <<snapshot, mem, own, chooseOwn, out, writes>>

-----------------------------------------------------------------------------
(* LsmIterator.                                                            *)

EndBound == IF case.kind = "get" THEN Unbounded ELSE case.upper

\* Mutated form: the end bound is not looked at.
NextInnerUnbounded(next) ==
    LET it == Advance(inner)
    IN  IF it = Fail THEN Failed
        ELSE /\ inner' = it
             /\ isValid' = (isValid /\ Valid(it))
             /\ phase' = next
             /\ pc' = "move"
             /\ UNCHANGED prevKey

\* Mutated form: the end of the merged iterator is not noted.
NextInnerKeepsValid(next) ==
    LET it == Advance(inner)
    IN  IF it = Fail THEN Failed
        ELSE /\ inner' = it
             /\ isValid' = IF ~Valid(it) THEN isValid
                           ELSE IF EndBound.kind = "unbounded" THEN isValid
                           ELSE KeyNotAbove(Entry(it).key, EndBound)
             /\ phase' = next
             /\ pc' = "move"
             /\ UNCHANGED prevKey

\* next_inner, on the way to another key or among the versions of one.
NextInner(next) ==
    LET it == Advance(inner)
    IN  IF it = Fail THEN Failed
        ELSE /\ inner' = it
             /\ isValid' = IF ~Valid(it) THEN FALSE
                           ELSE IF EndBound.kind = "unbounded" THEN isValid
                           ELSE KeyNotAbove(Entry(it).key, EndBound)
             /\ phase' = next
             /\ pc' = "move"
             /\ UNCHANGED prevKey

Moving == pc = "move" /\ Valid(inner)

\* What remains of the versions of prev_key is passed.
SkipOlder ==
    /\ Moving
    /\ phase = "older" /\ Entry(inner).key = prevKey
    /\ NextInner("older")
    /\ UNCHANGED <<snapshot, mem, own, txnVars, ret, out, writes>>

\* Another key: prev_key takes it.
TakeKey ==
    /\ Moving
    /\ Entry(inner).key # prevKey
    /\ prevKey' = Entry(inner).key
    /\ phase' = "newer"
    /\ UNCHANGED <<snapshot, mem, own, inner, isValid, txnVars, pc, ret, out, writes>>

\* Versions that are too new are passed.
SkipNewer ==
    /\ Moving
    /\ phase = "newer" /\ Entry(inner).key = prevKey /\ Entry(inner).ts > case.readTs
    /\ NextInner("newer")
    /\ UNCHANGED <<snapshot, mem, own, txnVars, ret, out, writes>>

AtVisible ==
    phase = "newer" /\ Entry(inner).key = prevKey /\ Entry(inner).ts <= case.readTs

\* The version to return is a deletion: on to another key.
SkipDeleted ==
    /\ Moving
    /\ AtVisible /\ Entry(inner).len = 0
    /\ NextInner("older")
    /\ UNCHANGED <<snapshot, mem, own, txnVars, ret, out, writes>>

\* move_to_key returns.
Settle ==
    /\ pc = "move"
    /\ Valid(inner) => AtVisible /\ Entry(inner).len # 0
    /\ pc' = ret
    /\ phase' = "older"
    /\ UNCHANGED <<snapshot, mem, own, inner, isValid, prevKey, txnVars, ret, out, writes>>

Found == [key |-> Entry(inner).key, len |-> Entry(inner).len, ts |-> Entry(inner).ts]

\* Mutated form: the key the iterator stopped at is not compared.
GetResultAnyKey ==
    /\ pc = "result"
    /\ out' = IF isValid THEN <<Found>> ELSE <<>>
    /\ pc' = "done"
    /\ UNCHANGED <<snapshot, mem, own, iterVars, txnVars, ret, writes>>

\* The end of get_with_ts.
GetResult ==
    /\ pc = "result"
    /\ out' = IF isValid /\ Entry(inner).key = case.lower.key THEN <<Found>> ELSE <<>>
    /\ pc' = "done"
    /\ UNCHANGED <<snapshot, mem, own, iterVars, txnVars, ret, writes>>

-----------------------------------------------------------------------------
(* TxnIterator: the transaction's own writes over the engine's.            *)

\* Mutated form: the engine's entry of a key the transaction wrote stays.
SkipNothing ==
    /\ pc = "skip"
    /\ pc' = "choose"
    /\ UNCHANGED <<snapshot, mem, own, iterVars, txnVars, ret, out, writes>>

\* skip_b.
Skip ==
    /\ pc = "skip"
    /\ IF item # NoItem /\ isValid /\ item.key = Entry(inner).key
       THEN NextInner("older") /\ ret' = "choose"
       ELSE pc' = "choose" /\ UNCHANGED <<iterVars, ret>>
    /\ UNCHANGED <<snapshot, mem, own, txnVars, out, writes>>

\* choose_a, then skip_deletes: a deletion can only be the transaction's own.
Choose ==
    /\ pc = "choose"
    /\ chooseOwn' = (item # NoItem /\ (~isValid \/ item.key < Entry(inner).key))
    /\ IF chooseOwn' /\ item.len = 0
       THEN item' = OwnAfter(item.key) /\ pc' = "skip" /\ UNCHANGED out
       ELSE /\ IF chooseOwn' \/ isValid
               THEN /\ pc' = "ready"
                    /\ out' = Append(out, IF chooseOwn'
                                          THEN [key |-> item.key, len |-> item.len, ts |-> 0]
                                          ELSE Found)
               ELSE pc' = "done" /\ UNCHANGED out
            /\ UNCHANGED item
    /\ UNCHANGED <<snapshot, mem, own, iterVars, ret, writes>>

\* The user calls next.
UserNext ==
    /\ pc = "ready"
    /\ ret' = "skip"
    /\ IF chooseOwn
       THEN item' = OwnAfter(item.key) /\ pc' = "skip" /\ UNCHANGED iterVars
       ELSE NextInner("older") /\ UNCHANGED item
    /\ UNCHANGED <<snapshot, mem, own, chooseOwn, out, writes>>

-----------------------------------------------------------------------------
(* Writes during the read.                                                 *)

Reading == pc \notin {"start", "done", "failed"}

\* MemTable::put_batch of another transaction, into the live memtable.
WriterPut(k) ==
    /\ Reading
    /\ Len(writes) < MaxWrites
    /\ mem' = mem \cup {[key |-> k, ts |-> case.nextTs + Len(writes), len |-> 1]}
    /\ writes' = Append(writes, [by |-> "other", key |-> k, len |-> 1])
    /\ UNCHANGED <<snapshot, own, iterVars, txnVars, pc, ret, out>>

\* Transaction::put or delete between two calls of next.
OwnPut(k, len) ==
    /\ pc = "ready"
    /\ Len(writes) < MaxWrites
    /\ own' = k :> len @@ own
    /\ writes' = Append(writes, [by |-> "own", key |-> k, len |-> len])
    /\ UNCHANGED <<snapshot, mem, iterVars, txnVars, pc, ret, out>>

ReadStep ==
    \/ GetOwn \/ GetStart \/ ScanStart
    \/ SkipOlder \/ TakeKey \/ SkipNewer \/ SkipDeleted \/ Settle
    \/ GetResult \/ Skip \/ Choose \/ UserNext

WriteStep ==
    \E k \in UserKey : WriterPut(k) \/ \E len \in {0, 2} : OwnPut(k, len)

Finished == pc \in {"done", "failed"} /\ UNCHANGED vars

Next == ReadStep \/ WriteStep \/ Finished

Spec == Init /\ [][Next]_vars

-----------------------------------------------------------------------------
(* Properties.                                                             *)

TypeOK ==
    /\ case.kind \in {"get", "scan"}
    /\ \A e \in mem : e.key \in UserKey /\ e.ts \in Nat /\ e.len \in Nat
    /\ DOMAIN own \subseteq UserKey
    /\ inner.kind \in {"none", "two"}
    /\ isValid \in BOOLEAN /\ (isValid => Valid(inner))
    /\ prevKey \in UserKey \cup {0}
    /\ phase \in {"older", "newer"}
    /\ item.key \in UserKey \cup {0}
    /\ chooseOwn \in BOOLEAN
    /\ pc \in {"start", "move", "result", "skip", "choose", "ready", "done", "failed"}
    /\ ret \in {"done", "result", "skip", "choose"}
    /\ Len(out) <= Len(Text)
    /\ Len(writes) <= MaxWrites

\* Everything the cloned state holds, sources that come first to be preferred.
AllSources ==
    <<mem>> \o case.imm \o case.l0
    \o [i \in 1..Len(case.levels) |-> UNION {case.levels[i][j] : j \in 1..Len(case.levels[i])}]

\* What a read at readTs finds for key k in the engine.
Visible(k) ==
    LET at(i) == {e \in AllSources[i] : e.key = k /\ e.ts <= case.readTs}
        newest == {<<i, e>> \in UNION {{i} \X at(i) : i \in 1..Len(AllSources)} :
                      \A j \in 1..Len(AllSources) : \A f \in at(j) :
                         f.ts < e.ts \/ (f.ts = e.ts /\ j >= i)}
    IN  IF newest = {} THEN [key |-> k, len |-> 0, ts |-> 0]
        ELSE LET e == (CHOOSE x \in newest : TRUE)[2]
             IN  [key |-> k, len |-> e.len, ts |-> IF e.len = 0 THEN 0 ELSE e.ts]

\* What the read may give for key k: the value when it began, or one the
\* transaction has put since.
Admissible(k) ==
    {IF k \in DOMAIN case.own THEN [key |-> k, len |-> case.own[k], ts |-> 0] ELSE Visible(k)}
    \cup {[key |-> k, len |-> writes[i].len, ts |-> 0] :
             i \in {i \in 1..Len(writes) : writes[i].by = "own" /\ writes[i].key = k}}

InRange(k) == KeyNotBelow(k, case.lower) /\ KeyNotAbove(k, case.upper)

\* An iterator that ends, or a seek behind the last entry, is no error.
FailsOnlyOnBadBlock == pc = "failed" => case.bad # {}

(***************************************************************************)
(* A scan gives its keys in ascending order, each with the value of the    *)
(* transaction's snapshot under its own writes, and passes over no key     *)
(* that has one, whatever is inserted meanwhile, wherever the versions     *)
(* are, and also when it ends with an error, which only a block that       *)
(* cannot be read gives (scan_with_ts, LsmIterator, FusedIterator,         *)
(* SsTableIterator, TxnIterator).  Keys outside the bounds are the subject *)
(* of ScanInBounds.                                                        *)
(***************************************************************************)
ScanExact ==
    case.kind = "scan" =>
        /\ FailsOnlyOnBadBlock
        /\ \A i, j \in 1..Len(out) : i < j => out[i].key < out[j].key
        /\ \A i \in 1..Len(out) :
              out[i].len # 0 /\ (InRange(out[i].key) => out[i] \in Admissible(out[i].key))
        /\ \A k \in {k \in UserKey : InRange(k)} :
              /\ pc = "done" \/ \E i \in 1..Len(out) : out[i].key >= k
              /\ \A r \in Admissible(k) : r.len # 0
              => \E i \in 1..Len(out) : out[i].key = k

(***************************************************************************)
(* A scan gives no key outside its bounds, but for one case: when the      *)
(* engine has no version at all in the range, the first entry beyond the   *)
(* end bound in a table that overlaps the range is given as the last one,  *)
(* because LsmIterator::new does not compare it with the bound.            *)
(***************************************************************************)
ScanInBounds ==
    case.kind = "scan" =>
        \A i \in 1..Len(out) :
            \/ InRange(out[i].key)
            \/ /\ i = Len(out)
               /\ KeyNotBelow(out[i].key, case.lower)
               /\ \A j \in 1..Len(AllSources) : \A e \in AllSources[j] :
                     ~InRange(e.key) \/ e.ts > case.readTs

(***************************************************************************)
(* get gives the value of the key in the transaction's snapshot under its  *)
(* own writes, or nothing if there is none or it is deleted: no Bloom      *)
(* filter or key range hides it, and only a block that cannot be read      *)
(* gives an error (get_with_ts, SsTableIterator).                          *)
(***************************************************************************)
GetExact ==
    case.kind = "get" =>
        /\ FailsOnlyOnBadBlock
        /\ pc = "done" =>
              out = SelectSeq(SetToSeq(Admissible(case.lower.key)), LAMBDA r : r.len # 0)

\* What a merged iterator relies on.
RECURSIVE Ordered(_)

Ordered(it) ==
    CASE it.kind = "merge" ->
           /\ \A i \in it.heap : /\ Valid(it.its[i])
                                /\ HeapBefore(it.its, it.current, i)
           /\ \A i \in 1..Len(it.its) :
                 Valid(it.its[i]) => i = it.current \/ i \in it.heap
      [] it.kind = "two" ->
           /\ Ordered(it.a) /\ Ordered(it.b)
           /\ Valid(it.a) /\ Valid(it.b) => IF it.chooseA THEN Before(Entry(it.a), Entry(it.b))
                                            ELSE Before(Entry(it.b), Entry(it.a))
      [] OTHER -> TRUE

(***************************************************************************)
(* The merged iterator stands at the least entry of all its parts and has  *)
(* forgotten none of them: "heap invariant violated" is never raised, also *)
(* with a live memtable below it (MergeIterator, TwoMergeIterator).        *)
(***************************************************************************)
MergeOrdered == inner = NoTree \/ Ordered(inner)

(***************************************************************************)
(* Every call of next takes the merged iterator strictly forward in the    *)
(* order of keys and versions, so that no entry comes twice and every loop *)
(* ends, even when the live memtable grows (MergeIterator::next).          *)
(***************************************************************************)
MovesForward ==
    [][inner # NoTree /\ Valid(inner') => Before(Entry(inner), Entry(inner'))]_inner

(* The tables a case is made of.                                           *)

\* Opening an SST file gives the table that was built: metadata, filter, key range
\* and timestamp (SsTableBuilder::build, SsTable::open).
OpenRecoversBuilt(S) == Table(S) = BuildFrom(S)

\* Going through a table block by block gives back every entry that was added, in
\* key order, keys rebuilt from their common prefix and values of up to 65535 bytes
\* in full (BlockBuilder::add, BlockIterator).
EntriesReadBack(S) == FlattenSeq(Blocks(S)) = InKeyOrder(S)

\* Position p comes before position q in a table.
PositionBefore(p, q) == p[1] < q[1] \/ (p[1] = q[1] /\ p[2] < q[2])

\* Seeking in a table stops at its first entry that is not before the wanted key and
\* timestamp, also at the edges of blocks, or at the end (SsTable::find_block_idx,
\* BlockIterator::seek_to_key).
SeekFindsFirst(S) ==
    \A k \in UserKey, t \in {TsRangeBegin, case.readTs, TsRangeEnd} :
        LET key == [key |-> k, ts |-> t]
            p   == SeekPosition(Table(S), key)
        IN  \A i \in 1..Len(Blocks(S)) : \A j \in 1..Len(Blocks(S)[i]) :
                Before(Blocks(S)[i][j], key) <=> PositionBefore(<<i, j>>, p)

\* The Bloom filter denies no key of its table (Bloom).
BloomComplete(S) == \A e \in S : MayContain(Table(S).bloom, Fingerprint[e.key])

(***************************************************************************)
(* A table that is opened is the one that was built: it gives back every   *)
(* entry, is sought correctly for every key and timestamp, and its filter  *)
(* denies none of its keys.                                                *)
(***************************************************************************)
TablesSound ==
    pc = "start" =>
        \A S \in TablesOf(case) :
            /\ OpenRecoversBuilt(S)
            /\ EntriesReadBack(S)
            /\ SeekFindsFirst(S)
            /\ BloomComplete(S)

=============================================================================
