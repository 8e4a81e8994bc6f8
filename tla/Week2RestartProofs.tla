------------------------- MODULE Week2RestartProofs -------------------------
(***************************************************************************)
(* Proofs about Week2: threads panic only where the code is known to, and  *)
(* a restart keeps what has returned.                                      *)
(***************************************************************************)
EXTENDS Week2Proofs

-----------------------------------------------------------------------------
(* Calls are counted.                                                      *)

\* No call is taken back.
Counted == \A kind \in Calls : left[kind] <= setting.calls[kind]

\* No call comes back once it was taken, and the options stay what they are.
LEMMA LeftFalls ==
    ASSUME Control, Counted, [Next]_vars
    PROVE  /\ setting' = setting /\ Counted'
           /\ \A kind \in Calls : left'[kind] <= left[kind] /\ left[kind] \in Nat /\ left'[kind] \in Nat
                                  /\ setting.calls[kind] \in Nat
<1> DEFINE G == \A kind \in Calls : left'[kind] <= left[kind] /\ left'[kind] \in Nat
<1>1. left \in [Calls -> Nat] /\ setting \in Setting
  BY DEF Control, Typed
<1>2. \A kind \in Calls : left[kind] \in Nat /\ setting.calls[kind] \in Nat
  BY <1>1 DEF Setting
<1>3. left' = left => G
  BY <1>2
<1>4. ASSUME NEW kind \in Calls, Call(kind) PROVE G
  <2>1. left'[kind] = left[kind] - 1 /\ left[kind] > 0
        /\ \A other \in Calls : other # kind => left'[other] = left[other]
    BY <1>4, CallLeaves
  <2> QED BY <1>2, <2>1
<1>5. ASSUME NEW c \in Client, WriteBatch(c) PROVE G
  <2>1. PICK b \in Batches :
          /\ Dels(b) <= left["del"] /\ Len(b) - Dels(b) <= left["put"]
          /\ left' = [left EXCEPT !["del"] = @ - Dels(b), !["put"] = @ - (Len(b) - Dels(b))]
    BY <1>5 DEF WriteBatch
  <2>2. Len(b) \in Nat /\ Dels(b) \in 0..Len(b)
    BY BatchOf
  <2> DEFINE d == Dels(b)
             n == Len(b)
  <2>3. d \in Nat /\ n \in Nat /\ d <= n /\ d <= left["del"] /\ n - d <= left["put"]
        /\ left' = [left EXCEPT !["del"] = @ - d, !["put"] = @ - (n - d)]
    BY <2>1, <2>2
  <2> HIDE DEF d, n
  <2>4. "del" \in Calls /\ "put" \in Calls
    BY DEF Calls
  <2>5. left'["del"] = left["del"] - d /\ left'["put"] = left["put"] - (n - d)
        /\ \A kind \in Calls : kind # "del" /\ kind # "put" => left'[kind] = left[kind]
    BY <1>1, <2>3, <2>4
  <2>6. ASSUME NEW kind \in Calls PROVE left'[kind] <= left[kind] /\ left'[kind] \in Nat
    <3>1. CASE kind = "del"
      BY <1>2, <2>3, <2>5, <3>1
    <3>2. CASE kind = "put"
      BY <1>2, <2>3, <2>5, <3>2
    <3>3. CASE kind # "del" /\ kind # "put"
      BY <1>2, <2>5, <3>3
    <3> QED BY <3>1, <3>2, <3>3
  <2> QED BY <2>6
<1>6. ASSUME NEW c \in Client, ForceFlush(c) \/ FullCompaction(c) \/ Get(c) \/ Scan(c) \/ Open(c) PROVE G
  <2>1. {"flush", "full", "get", "scan", "open"} \subseteq Calls
    BY DEF Calls
  <2>2. Call("flush") \/ Call("full") \/ Call("get") \/ Call("scan") \/ Call("open")
    BY <1>6 DEF ForceFlush, FullCompaction, Get, Scan, Open
  <2>3. PICK kind \in Calls : Call(kind)
    BY <2>1, <2>2
  <2> HIDE DEF G
  <2> QED BY <1>4, <2>3
<1>7. ASSUME NEW t \in Thread, EngineStep(t) PROVE left' = left /\ setting' = setting
  BY <1>7, EngineLeaves
<1>8. ASSUME NEW c \in Client, AppendRecord(c) PROVE left' = left /\ setting' = setting
  BY <1>8, AppendLeaves
<1>9. ASSUME NEW t \in Thread,
             \/ ForceCheck(t) \/ Apply(t) \/ StopThread(t) \/ FlushTick \/ CompactTick
             \/ t \in Client /\ (\/ GetMemtable(t) \/ GetOld(t) \/ ReadReturns(t) \/ ScanOpen(t) \/ ScanNext(t)
                                 \/ ScanEnd(t) \/ NextRecord(t) \/ Close(t) \/ CloseJoin(t) \/ CloseDrain(t)
                                 \/ CloseEnd(t))
      PROVE  left' = left
  BY <1>9 DEF ForceCheck, Apply, StopThread, FlushTick, CompactTick, GetMemtable, GetOld, ReadReturns,
      ScanOpen, ScanNext, ScanEnd, NextRecord, Close, CloseJoin, CloseDrain, CloseEnd
<1>10. UNCHANGED vars => left' = left /\ setting' = setting
  BY DEF vars
<1>11. setting' = setting
  <2>1. ASSUME NEW t \in Thread, QuietStep(t) PROVE setting' = setting
    BY <2>1, QuietLeaves
  <2>2. ASSUME NEW c \in Client, (\E b : Inserts(c, b)) \/ Open(c) PROVE setting' = setting
    BY <2>2 DEF Inserts, Insert, Open
  <2> QED BY <1>7, <1>8, <1>10, <2>1, <2>2, NextKinds
<1> HIDE DEF G
<1>12. G
  <2>1. Client \subseteq Thread
    BY ThreadsApart
  <2>2. ASSUME NEW t \in Thread, ForceFreeze(t) \/ Swap(t) \/ FlushBuild(t) \/ FlushInstall(t) \/ Merge(t)
                                 \/ Install(t) \/ RemoveInputs(t) \/ (t \in Client /\ (TryFreeze(t) \/ CloseMemtable(t)))
        PROVE  G
    <3>1. EngineStep(t)
      BY <2>2 DEF EngineStep
    <3> QED BY <1>3, <1>7, <3>1
  <2>3. Flusher \in Thread /\ Compactor \in Thread
    BY ThreadsApart
  <2> QED BY <1>3, <1>5, <1>6, <1>8, <1>9, <1>10, <2>1, <2>2, <2>3, NextCases
<1>13. Counted'
  BY <1>2, <1>11, <1>12 DEF G, Counted
<1> QED BY <1>2, <1>11, <1>12, <1>13 DEF G

\* What was not called in the next state was not called before.
LEMMA NotCalled ==
    ASSUME Control, Counted, [Next]_vars, NEW kind \in Calls, left'[kind] = setting'.calls[kind]
    PROVE  left[kind] = setting.calls[kind] /\ left'[kind] = left[kind]
<1>1. /\ setting' = setting /\ left'[kind] <= left[kind] /\ left[kind] \in Nat /\ left'[kind] \in Nat
      /\ setting.calls[kind] \in Nat
  BY LeftFalls
<1>2. left[kind] <= setting.calls[kind]
  BY DEF Counted
<1> QED BY <1>1, <1>2
-----------------------------------------------------------------------------
(* Without a call to delete there is no deletion.                          *)

\* The kinds of steps, insertions by the call they are of.
LEMMA NextSteps ==
    ASSUME Control, [Next]_vars
    PROVE  \/ UNCHANGED vars
           \/ \E t \in Thread : QuietStep(t) \/ EngineStep(t)
           \/ \E c \in Client : WriteBatch(c) \/ NextRecord(c) \/ AppendRecord(c) \/ Open(c)
<1>1. Client \subseteq Thread /\ Flusher \in Thread /\ Compactor \in Thread
  BY DEF Thread
<1>2. ASSUME NEW c \in Client,
             \/ TryFreeze(c)
             \/ ForceFlush(c) \/ FullCompaction(c)
             \/ Get(c) \/ GetMemtable(c) \/ GetOld(c) \/ ReadReturns(c)
             \/ Scan(c) \/ ScanOpen(c) \/ ScanNext(c) \/ ScanEnd(c)
             \/ Close(c) \/ CloseJoin(c) \/ CloseMemtable(c) \/ CloseDrain(c) \/ CloseEnd(c)
      PROVE  QuietStep(c) \/ EngineStep(c)
  BY <1>2 DEF QuietStep, EngineStep
<1>3. ASSUME NEW t \in Thread,
             \/ ForceFreeze(t) \/ Swap(t) \/ ForceCheck(t) \/ FlushBuild(t) \/ FlushInstall(t)
             \/ Merge(t) \/ Apply(t) \/ Install(t) \/ RemoveInputs(t) \/ StopThread(t)
      PROVE  QuietStep(t) \/ EngineStep(t)
  BY <1>3 DEF QuietStep, EngineStep
<1>4. FlushTick \/ CompactTick => \E t \in Thread : QuietStep(t)
  BY <1>1 DEF QuietStep
<1> QED BY <1>1, <1>2, <1>3, <1>4, NextCases

\* A thread goes on with the write it is at, or with something else.
SameWrite(t, l) == l.op = "write" => loc[t].op = "write" /\ l.e = loc[t].e /\ l.todo = loc[t].todo

\* Only an insertion begins with a record.
LEMMA WritesGo ==
    ASSUME Control, NEW t \in Thread, QuietStep(t) \/ EngineStep(t) \/ AppendRecord(t)
    PROVE  \E p, l : Goto(t, p, l) /\ SameWrite(t, l)
<1> DEFINE G == \E p, l : Goto(t, p, l) /\ SameWrite(t, l)
<1> SUFFICES G
  OBVIOUS
<1>1. ASSUME NEW p, Goto(t, p, loc[t]) PROVE G
  BY <1>1 DEF SameWrite
<1>2. ASSUME NEW p, NEW l, Goto(t, p, l), l.op # "write" PROVE G
  BY <1>2 DEF SameWrite
<1>3. ASSUME NEW p, Goto(t, p, NoOp) PROVE G
  <2>1. NoOp.op # "write"
    BY DEF NoOp
  <2> QED BY <1>2, <1>3, <2>1
<1>4. ASSUME NEW x, Panic(t, x) PROVE G
  BY <1>2, <1>4 DEF Panic
<1>5. ASSUME AfterRecord(t) PROVE G
  BY <1>1, <1>3, <1>5 DEF AfterRecord
<1>6. CASE TryFreeze(t) \/ AppendRecord(t) \/ Swap(t)
  <2>1. \/ AfterRecord(t) \/ Goto(t, "ff.check", loc[t]) \/ Goto(t, "freeze", loc[t])
        \/ Goto(t, "swap", [loc[t] EXCEPT !.new = nextId]) /\ at[t] = "freeze"
    BY <1>6 DEF TryFreeze, AppendRecord, Swap, Goto
  <2>2. at[t] = "freeze" => loc[t] \in WriteLocals
    BY LocalsOf
  <2>3. CASE Goto(t, "swap", [loc[t] EXCEPT !.new = nextId]) /\ at[t] = "freeze"
    <3> DEFINE l == [loc[t] EXCEPT !.new = nextId]
    <3>1. l.e = loc[t].e /\ l.todo = loc[t].todo /\ l.op = loc[t].op
      BY <2>2, <2>3 DEF WriteLocals
    <3>2. Goto(t, "swap", l)
      BY <2>3
    <3> HIDE DEF l
    <3> QED BY <3>1, <3>2 DEF SameWrite
  <2> HIDE DEF G
  <2> QED BY <1>1, <1>5, <2>1, <2>3
<1>7. CASE \/ CloseMemtable(t) \/ ForceFreeze(t) \/ Install(t) \/ RemoveInputs(t) \/ Apply(t) \/ StopThread(t)
           \/ CloseDrain(t) \/ CloseEnd(t) \/ CloseJoin(t) \/ Close(t) \/ FullCompaction(t) \/ ForceFlush(t)
  <2>1. \/ \E p \in {"close.synced", "close.drain", "flush", "close.join_flusher", "close.memtable",
                     "close.join_compactor"} : Goto(t, p, [op |-> "close"])
        \/ Goto(t, "swap", [op |-> "force_flush", new |-> nextId])
        \/ Goto(t, "remove", [op |-> "compact", task |-> loc[t].task])
        \/ Goto(t, "install", [op |-> "compact", task |-> loc[t].task, ids |-> loc[t].ids,
                               st |-> Applied(st, loc[t].task, loc[t].ids)])
        \/ Goto(t, "merge", [op |-> "compact", task |-> FullTask(st)])
        \/ (\E p \in {"ff.check", "ff.lock"} : Goto(t, p, [op |-> "force_flush"]))
        \/ Panic(t, "inputs moved") \/ Goto(t, "idle", NoOp) \/ Goto(t, "stopped", NoOp)
    BY <1>7 DEF CloseMemtable, ForceFreeze, Install, RemoveInputs, Apply, StopThread, CloseDrain, CloseEnd,
        CloseGives, CloseJoin, Close, FullCompaction, ForceFlush, Installing
  <2> DEFINE a == [op |-> "close"]
             b == [op |-> "force_flush", new |-> nextId]
             c == [op |-> "compact", task |-> loc[t].task]
             d == [op |-> "compact", task |-> loc[t].task, ids |-> loc[t].ids,
                   st |-> Applied(st, loc[t].task, loc[t].ids)]
             e == [op |-> "compact", task |-> FullTask(st)]
             f == [op |-> "force_flush"]
  <2>2. a.op # "write" /\ b.op # "write" /\ c.op # "write" /\ d.op # "write" /\ e.op # "write" /\ f.op # "write"
    OBVIOUS
  <2>3. \/ (\E p : Goto(t, p, a) \/ Goto(t, p, b) \/ Goto(t, p, c) \/ Goto(t, p, d) \/ Goto(t, p, e) \/ Goto(t, p, f))
        \/ Panic(t, "inputs moved") \/ Goto(t, "idle", NoOp) \/ Goto(t, "stopped", NoOp)
    BY <2>1
  <2> HIDE DEF G, a, b, c, d, e, f
  <2> QED BY <1>2, <1>3, <1>4, <2>2, <2>3
<1>8. CASE FlushBuild(t) \/ FlushInstall(t) \/ ForceCheck(t)
  <2>1. \/ Goto(t, "flush.install", [op |-> loc[t].op, id |-> Last(st.imm)]) /\ at[t] = "flush"
        \/ Goto(t, "close.drain", [op |-> "close"]) \/ Goto(t, "idle", NoOp) \/ Goto(t, "flush", loc[t])
        \/ Panic(t, "nothing to flush") \/ Panic(t, "another memtable")
    BY <1>8 DEF FlushBuild, FlushInstall, ForceCheck
  <2>2. at[t] = "flush" => loc[t].op # "write"
    BY LocalsOf DEF FlushOps
  <2> DEFINE a == [op |-> loc[t].op, id |-> Last(st.imm)]
             b == [op |-> "close"]
  <2>3. (at[t] = "flush" => a.op # "write") /\ b.op # "write"
    BY <2>2
  <2>4. \/ Goto(t, "flush.install", a) /\ at[t] = "flush"
        \/ Goto(t, "close.drain", b) \/ Goto(t, "idle", NoOp) \/ Goto(t, "flush", loc[t])
        \/ Panic(t, "nothing to flush") \/ Panic(t, "another memtable")
    BY <2>1
  <2> HIDE DEF G, a, b
  <2> QED BY <1>1, <1>2, <1>3, <1>4, <2>3, <2>4
<1>9. CASE Merge(t)
  <2> DEFINE a == [op |-> "compact", task |-> loc[t].task, ids |-> OutIds(MergeResult(t))]
  <2>1. Panic(t, "empty table") \/ Goto(t, "apply", a)
    BY <1>9, MergeIs
  <2>2. a.op # "write"
    OBVIOUS
  <2> HIDE DEF G, a
  <2> QED BY <1>2, <1>4, <2>1, <2>2
<1>10. CASE (t = Flusher /\ FlushTick) \/ (t = Compactor /\ CompactTick)
  <2>1. \E p, l : Goto(t, p, l) /\ l.op # "write"
    BY <1>10 DEF FlushTick, CompactTick
  <2> HIDE DEF G
  <2> QED BY <1>2, <2>1
<1>11. CASE t \in Client /\ ReadStep(t)
  <2>1. CASE Get(t)
    <3>1. PICK k \in setting.keys : Goto(t, "get.mem", [op |-> "get", k |-> k, snap |-> st])
      BY <2>1 DEF Get
    <3> QED BY <1>2, <3>1
  <2>2. CASE Scan(t)
    <3>1. PICK r \in Ranges : Goto(t, "scan.open", [op |-> "scan", snap |-> st, lo |-> r[1], hi |-> r[2]])
      BY <2>2 DEF Scan
    <3> QED BY <1>2, <3>1
  <2>3. CASE GetMemtable(t) \/ GetOld(t) \/ ReadReturns(t)
    <3>1. (\E p, l : Goto(t, p, l) /\ l.op = "get") \/ Goto(t, "get.old", loc[t]) \/ Goto(t, "idle", NoOp)
      BY <2>3 DEF GetMemtable, GetOld, ReadReturns
    <3> HIDE DEF G
    <3> QED BY <1>1, <1>2, <1>3, <3>1
  <2>4. CASE ScanOpen(t) \/ ScanEnd(t)
    <3>1. \E p, l : Goto(t, p, l) /\ l.op = "scan"
      BY <2>4 DEF ScanOpen, ScanEnd
    <3> HIDE DEF G
    <3> QED BY <1>2, <3>1
  <2>5. CASE ScanNext(t)
    <3>1. \E o, i, h, v : Goto(t, "scan.next", [loc[t] EXCEPT !.out = o, !.item = i, !.head = h, !.valid = v])
      BY <2>5 DEF ScanNext
    <3>2. PICK o, i, h, v : Goto(t, "scan.next", [loc[t] EXCEPT !.out = o, !.item = i, !.head = h, !.valid = v])
      BY <3>1
    <3> DEFINE l == [loc[t] EXCEPT !.out = o, !.item = i, !.head = h, !.valid = v]
    <3>3. loc[t] \in [op : {"scan"}, snap : State, lo : Bound, hi : Bound,
                      item : Item, head : Item, valid : BOOLEAN, out : Table]
      BY <2>5, LocalsOf DEF ScanNext
    <3>4. l.op = "scan" /\ Goto(t, "scan.next", l)
      BY <3>2, <3>3
    <3> HIDE DEF l
    <3> QED BY <1>2, <3>4
  <2> HIDE DEF G
  <2> QED BY <1>11, <2>1, <2>2, <2>3, <2>4, <2>5 DEF ReadStep
<1> HIDE DEF G
<1>12. \/ TryFreeze(t) \/ AppendRecord(t) \/ Swap(t) \/ CloseMemtable(t)
       \/ ForceFlush(t) \/ ForceCheck(t)
       \/ FullCompaction(t) \/ Close(t) \/ CloseDrain(t) \/ CloseEnd(t) \/ StopThread(t) \/ ForceFreeze(t)
       \/ CloseJoin(t) \/ FlushBuild(t) \/ FlushInstall(t) \/ Install(t) \/ RemoveInputs(t)
       \/ (t = Flusher /\ FlushTick) \/ (t = Compactor /\ CompactTick) \/ Merge(t) \/ Apply(t)
       \/ (t \in Client /\ ReadStep(t))
  BY DEF QuietStep, EngineStep, ReadStep
<1> QED BY <1>6, <1>7, <1>8, <1>9, <1>10, <1>11, <1>12
\* No entry anywhere is a deletion.
NoneDeleted ==
    /\ \A i \in DOMAIN mt, k \in Key : mt[i].data[k] >= 0
    /\ \A i \in DOMAIN sst, k \in Key : sst[i][k] >= 0
    /\ \A i \in DOMAIN wal : \A n \in DOMAIN wal[i] : wal[i][n].e >= 0
    /\ \A c \in Client : loc[c].op = "write" =>
          loc[c].e >= 0 /\ \A n \in DOMAIN loc[c].todo : ~loc[c].todo[n].del

\* Tables without deletions merge into none.
LEMMA MergedNone ==
    ASSUME Engine, NoneDeleted, NEW t \in Compacting
    PROVE  \A k \in Key : Merged(loc[t].task)[k] >= 0
<1> DEFINE m == Merged(loc[t].task)
<1>1. Control /\ Store /\ StoreTyped /\ TablesHeld
  BY DEF Engine, Store
<1>2. m = MergedOf(sst, loc[t].task)
  BY <1>1, MergedEntries
<1>3. AtHand(sst, loc[t].task.us) /\ AtHand(sst, loc[t].task.ls)
  BY <1>1, TaskAtHand DEF Compacting
<1> SUFFICES ASSUME NEW k \in Key PROVE m[k] >= 0
  OBVIOUS
<1>4. ASSUME NEW ids, AtHand(sst, ids) PROVE Lookup(sst, ids, k) >= 0
  <2>1. CASE Lookup(sst, ids, k) = 0
    BY <2>1
  <2>2. CASE Lookup(sst, ids, k) # 0
    <3>1. PICK i \in Ids(ids) : Lookup(sst, ids, k) = sst[i][k]
      BY <1>4, <2>2, LookupType
    <3>2. i \in DOMAIN sst
      BY <1>4 DEF AtHand
    <3> QED BY <3>1, <3>2 DEF NoneDeleted
  <2> QED BY <2>1, <2>2
<1> HIDE DEF m
<1>5. m[k] = Or(Lookup(sst, loc[t].task.us, k), Lookup(sst, loc[t].task.ls, k))
  BY <1>2 DEF MergedOf
<1> QED BY <1>3, <1>4, <1>5 DEF Or

\* What flush and compaction make of entries that are no deletions are none.
LEMMA EngineNone ==
    ASSUME Engine, NoneDeleted, NEW t \in Thread, EngineStep(t)
    PROVE  /\ \A i \in DOMAIN mt', k \in Key : mt'[i].data[k] >= 0
           /\ \A i \in DOMAIN sst', k \in Key : sst'[i][k] >= 0
           /\ \A i \in DOMAIN wal' : \A n \in DOMAIN wal'[i] : wal'[i][n].e >= 0
<1> DEFINE M == \A i \in DOMAIN mt', k \in Key : mt'[i].data[k] >= 0
           F == \A i \in DOMAIN sst', k \in Key : sst'[i][k] >= 0
           L == \A i \in DOMAIN wal' : \A n \in DOMAIN wal'[i] : wal'[i][n].e >= 0
<1>1. Control /\ Store /\ StoreTyped /\ Memtables
  BY DEF Engine, Store
<1>2. /\ mt' = mt => M
      /\ sst' = sst => F
      /\ wal' = wal => L
  BY DEF NoneDeleted
<1>3. CreateMemtable => M /\ L
  <2> SUFFICES ASSUME CreateMemtable PROVE M /\ L
    OBVIOUS
  <2>1. mt' = With(mt, nextId, EmptyMemtable) /\ (wal' = wal \/ wal' = With(wal, nextId, <<>>))
    BY DEF CreateMemtable
  <2>2. M
    <3> SUFFICES ASSUME NEW i \in DOMAIN mt', NEW k \in Key PROVE mt'[i].data[k] >= 0
      OBVIOUS
    <3>1. CASE i = nextId
      <4>1. mt'[i] = EmptyMemtable
        BY <2>1, <3>1 DEF With
      <4> QED BY <4>1 DEF EmptyMemtable, Nothing
    <3>2. CASE i # nextId
      <4>1. i \in DOMAIN mt /\ mt'[i] = mt[i]
        BY <2>1, <3>2 DEF With
      <4> QED BY <4>1 DEF NoneDeleted
    <3> QED BY <3>1, <3>2
  <2>3. L
    <3>1. CASE wal' = wal
      BY <1>2, <3>1
    <3>2. CASE wal' = With(wal, nextId, <<>>)
      <4> SUFFICES ASSUME NEW i \in DOMAIN wal', NEW n \in DOMAIN wal'[i] PROVE wal'[i][n].e >= 0
        OBVIOUS
      <4>1. i # nextId
        <5>1. i = nextId => wal'[i] = <<>>
          BY <3>2 DEF With
        <5> QED BY <5>1
      <4>2. i \in DOMAIN wal /\ wal'[i] = wal[i]
        BY <3>2, <4>1 DEF With
      <4> QED BY <4>2 DEF NoneDeleted
    <3> QED BY <2>1, <3>1, <3>2
  <2> QED BY <2>2, <2>3
<1> SUFFICES M /\ F /\ L
  OBVIOUS
<1> HIDE DEF M, F, L
<1>4. CASE \/ t \in Client /\ (TryFreeze(t) \/ CloseMemtable(t))
           \/ ForceFreeze(t) \/ Swap(t) \/ Install(t) \/ RemoveInputs(t)
  <2>1. sst' = sst /\ ((mt' = mt /\ wal' = wal) \/ CreateMemtable)
    BY <1>4 DEF TryFreeze, CloseMemtable, ForceFreeze, Swap, Install, RemoveInputs
  <2> QED BY <1>2, <1>3, <2>1 DEF M, F, L
<1>5. CASE FlushInstall(t)
  <2>1. mt' = mt /\ sst' = sst /\ (wal' = wal \/ wal' = [j \in DOMAIN wal \ {loc[t].id} |-> wal[j]])
    BY <1>5 DEF FlushInstall
  <2>2. wal' = [j \in DOMAIN wal \ {loc[t].id} |-> wal[j]] => L
    BY DEF NoneDeleted, L
  <2> QED BY <1>2, <2>1, <2>2 DEF M, F, L
<1>6. CASE FlushBuild(t)
  <2>1. mt' = mt /\ wal' = wal /\ (sst' = sst \/ (sst' = With(sst, Last(st.imm), mt[Last(st.imm)].data) /\ st.imm # <<>>))
    BY <1>6 DEF FlushBuild
  <2>2. CASE sst' = With(sst, Last(st.imm), mt[Last(st.imm)].data) /\ st.imm # <<>>
    <3> DEFINE x == Last(st.imm)
    <3>1. x \in DOMAIN mt
      <4>1. st.imm \in Seq(Nat)
        BY <1>1 DEF StoreTyped, State
      <4>2. x \in Ids(st.imm)
        BY <2>2, <4>1, FrontOf
      <4> QED BY <1>1, <4>2 DEF Memtables, MemIds
    <3>2. sst' = With(sst, x, mt[x].data)
      BY <2>2
    <3> HIDE DEF x
    <3>3. ASSUME NEW i \in DOMAIN sst', NEW k \in Key PROVE sst'[i][k] >= 0
      <4>1. CASE i = x
        <5>1. sst'[i] = mt[x].data
          BY <3>2, <4>1 DEF With
        <5> QED BY <3>1, <5>1 DEF NoneDeleted
      <4>2. CASE i # x
        <5>1. i \in DOMAIN sst /\ sst'[i] = sst[i]
          BY <3>2, <4>2 DEF With
        <5> QED BY <5>1 DEF NoneDeleted
      <4> QED BY <4>1, <4>2
    <3>4. F
      BY <3>3 DEF F
    <3> QED BY <1>2, <2>1, <3>4 DEF M, F, L
  <2> QED BY <1>2, <2>1, <2>2 DEF M, F, L
<1>7. CASE Merge(t)
  <2> DEFINE b == MergeResult(t)
             m == Merged(loc[t].task)
             N == Ids(OutIds(b))
  <2>1. /\ sst' = [i \in DOMAIN sst \cup N |-> IF i \in N THEN OutOf(b)[i - nextId + 1] ELSE sst[i]]
        /\ mt' = mt /\ wal' = wal /\ at[t] = "merge"
    BY <1>7, MergeIs
  <2>2. t \in Compacting
    BY <2>1 DEF Compacting
  <2>3. m \in Table /\ loc[t].task.bottom \in BOOLEAN /\ m = MergedOf(sst, loc[t].task)
    BY <1>1, <2>2, MergedEntries
  <2>4. b \in Builder /\ \A i \in 1..Len(OutOf(b)), k \in Key : OutOf(b)[i][k] \in {0, m[k]}
    BY <2>3, OutOfEntries DEF MergeResult
  <2>5. nextId \in Nat
    BY <1>1 DEF StoreTyped
  <2>6. \A k \in Key : m[k] >= 0
    BY <2>2, MergedNone
  <2> HIDE DEF b, m
  <2>7. Len(OutOf(b)) \in Nat /\ N = nextId..(nextId + Len(OutOf(b)) - 1)
    BY <2>4, <2>5, OutIdsOf
  <2> HIDE DEF N
  <2>8. ASSUME NEW i \in DOMAIN sst', NEW k \in Key PROVE sst'[i][k] >= 0
    <3>1. CASE i \in N
      <4> DEFINE n == i - nextId + 1
      <4>1. n \in 1..Len(OutOf(b)) /\ sst'[i] = OutOf(b)[n]
        BY <2>1, <2>5, <2>7, <3>1
      <4> HIDE DEF n
      <4>2. OutOf(b)[n][k] \in {0, m[k]}
        BY <2>4, <4>1
      <4> QED BY <2>6, <4>1, <4>2
    <3>2. CASE i \notin N
      <4>1. i \in DOMAIN sst /\ sst'[i] = sst[i]
        BY <2>1, <3>2
      <4> QED BY <4>1 DEF NoneDeleted
    <3> QED BY <3>1, <3>2
  <2>9. F
    BY <2>8 DEF F
  <2> QED BY <1>2, <2>1, <2>9 DEF M, F, L
<1> QED BY <1>4, <1>5, <1>6, <1>7 DEF EngineStep

\* A batch that takes no deletion from what is left has none.
LEMMA NoDels ==
    ASSUME Control, NEW c \in Client, WriteBatch(c) \/ NextRecord(c), left'["del"] = left["del"], NoneDeleted
    PROVE  \E b \in Seq(Record) : b # <<>> /\ Insert(c, b) /\ \A n \in DOMAIN b : ~b[n].del
<1>1. CASE WriteBatch(c)
  <2>1. PICK b \in Batches :
          /\ left' = [left EXCEPT !["del"] = @ - Dels(b), !["put"] = @ - (Len(b) - Dels(b))]
          /\ Insert(c, b)
    BY <1>1 DEF WriteBatch
  <2>2. b \in Seq(Record) /\ b # <<>> /\ Dels(b) \in 0..Len(b) /\ Len(b) \in Nat
    BY BatchOf
  <2>3. left \in [Calls -> Nat] /\ "del" \in Calls
    BY DEF Control, Typed, Calls
  <2> DEFINE d == Dels(b)
             n == Len(b) - d
  <2>4. d \in Nat /\ left' = [left EXCEPT !["del"] = @ - d, !["put"] = @ - n]
    BY <2>1, <2>2
  <2> HIDE DEF d, n
  <2>5. left'["del"] = left["del"] - d
    BY <2>3, <2>4
  <2>6. d = 0
    BY <2>3, <2>4, <2>5
  <2> DEFINE D == {i \in DOMAIN b : b[i].del}
  <2>7. IsFiniteSet(D)
    <3>1. DOMAIN b = 1..Len(b) /\ Len(b) \in Nat
      BY <2>2
    <3>2. IsFiniteSet(1..Len(b))
      BY <3>1, FS_Interval
    <3> QED BY <3>1, <3>2, FS_Subset
  <2>8. D = {}
    BY <2>6, <2>7, FS_EmptySet DEF d, Dels
  <2> QED BY <2>1, <2>2, <2>8
<1>2. CASE NextRecord(c)
  <2>1. at[c] = "insert" /\ Insert(c, loc[c].todo)
    BY <1>2 DEF NextRecord
  <2>2. c \in Thread /\ loc[c] \in WriteLocals /\ loc[c].todo # <<>>
    BY <2>1, LocalsOf DEF Thread
  <2>3. loc[c].op = "write" /\ loc[c].todo \in Seq(Record)
    BY <2>2 DEF WriteLocals
  <2> QED BY <2>1, <2>2, <2>3 DEF NoneDeleted
<1> QED BY <1>1, <1>2

\* Opening takes the logs and the tables as they are.
LEMMA OpenNone ==
    ASSUME Engine, NoneDeleted, NEW c \in Client, Open(c), Opened.ok
    PROVE  NoneDeleted'
<1> DEFINE o == Opened
<1>1. Control /\ Store /\ StoreTyped /\ TablesHeld /\ Replays
  BY DEF Engine, Store
<1>2. /\ mt' = OpenedMt(o) /\ sst' = sst /\ (wal' = wal \/ wal' = With(wal, o.mem, <<>>))
      /\ \A t \in Thread : loc'[t] = NoOp
  BY <1>1, OpenIs
<1>3. \A i \in Ids(o.s.imm) : i \in DOMAIN wal
  BY <1>1, OpenedReads
<1> HIDE DEF o
<1>4. ASSUME NEW i \in DOMAIN mt', NEW k \in Key PROVE mt'[i].data[k] >= 0
  <2>1. CASE i = o.mem
    <3>1. mt'[i] = EmptyMemtable
      BY <1>2, <2>1 DEF OpenedMt
    <3> QED BY <3>1 DEF EmptyMemtable, Nothing
  <2>2. CASE i # o.mem
    <3>1. i \in Ids(o.s.imm) /\ mt'[i] = [data |-> Recovered(wal[i]), size |-> 0]
      BY <1>2, <2>2 DEF OpenedMt
    <3>2. i \in DOMAIN wal /\ mt'[i].data[k] = Recovered(wal[i])[k]
      BY <1>3, <3>1
    <3>3. wal[i] \in Seq(LogRecord)
      BY <1>1, <3>2, LogOf
    <3>4. CASE \A n \in 1..Len(wal[i]) : wal[i][n].k # k
      BY <3>2, <3>3, <3>4, RecoveredOf
    <3>5. CASE \E n \in 1..Len(wal[i]) : wal[i][n].k = k
      <4>1. PICK n \in 1..Len(wal[i]) : Recovered(wal[i])[k] = wal[i][n].e
        BY <3>3, <3>5, RecoveredOf
      <4>2. n \in DOMAIN wal[i]
        BY <3>3
      <4> QED BY <3>2, <4>1, <4>2 DEF NoneDeleted
    <3> QED BY <3>4, <3>5
  <2> QED BY <2>1, <2>2
<1>5. ASSUME NEW i \in DOMAIN wal', NEW n \in DOMAIN wal'[i] PROVE wal'[i][n].e >= 0
  <2>1. CASE wal' = wal
    BY <1>5, <2>1 DEF NoneDeleted
  <2>2. CASE wal' = With(wal, o.mem, <<>>)
    <3>1. i # o.mem
      <4>1. i = o.mem => wal'[i] = <<>>
        BY <2>2 DEF With
      <4> QED BY <1>5, <4>1
    <3>2. i \in DOMAIN wal /\ wal'[i] = wal[i]
      BY <2>2, <3>1 DEF With
    <3> QED BY <1>5, <3>2 DEF NoneDeleted
  <2> QED BY <1>2, <2>1, <2>2
<1>6. \A t \in Client : loc'[t].op # "write"
  BY <1>2, ThreadsApart DEF NoOp
<1> QED BY <1>2, <1>4, <1>5, <1>6 DEF NoneDeleted

\* Without a deletion taken none comes about.
LEMMA NoneDeletedStep ==
    ASSUME Engine, NoneDeleted, [Next]_vars, left'["del"] = left["del"]
    PROVE  NoneDeleted'
<1>1. Control /\ Store /\ StoreTyped /\ Memtables
  BY DEF Engine, Store
<1>2. ASSUME NEW t \in Thread, QuietStep(t) \/ EngineStep(t) \/ AppendRecord(t)
      PROVE  \A c \in Client : loc'[c].op = "write" =>
                loc'[c].e >= 0 /\ \A n \in DOMAIN loc'[c].todo : ~loc'[c].todo[n].del
  <2>1. PICK p, l : Goto(t, p, l) /\ SameWrite(t, l)
    BY <1>1, <1>2, WritesGo
  <2> SUFFICES ASSUME NEW c \in Client, loc'[c].op = "write"
               PROVE  loc'[c].e >= 0 /\ \A n \in DOMAIN loc'[c].todo : ~loc'[c].todo[n].del
    OBVIOUS
  <2>2. loc[c].op = "write" /\ loc'[c].e = loc[c].e /\ loc'[c].todo = loc[c].todo
    <3>1. CASE c = t
      BY <1>1, <2>1, <3>1, Moved DEF SameWrite
    <3>2. CASE c # t
      <4>1. loc'[c] = loc[c]
        BY <1>1, <2>1, <3>2, Moved, ThreadsApart
      <4> QED BY <4>1
    <3> QED BY <3>1, <3>2
  <2> QED BY <2>2 DEF NoneDeleted
<1>3. ASSUME NEW t \in Thread, QuietStep(t) PROVE NoneDeleted'
  <2>1. mt' = mt /\ sst' = sst /\ wal' = wal
    BY <1>3, QuietLeaves
  <2> QED BY <1>2, <1>3, <2>1 DEF NoneDeleted
<1>4. ASSUME NEW t \in Thread, EngineStep(t) PROVE NoneDeleted'
  <2>1. /\ \A i \in DOMAIN mt', k \in Key : mt'[i].data[k] >= 0
        /\ \A i \in DOMAIN sst', k \in Key : sst'[i][k] >= 0
        /\ \A i \in DOMAIN wal' : \A n \in DOMAIN wal'[i] : wal'[i][n].e >= 0
    BY <1>4, EngineNone
  <2>2. \A c \in Client : loc'[c].op = "write" =>
                loc'[c].e >= 0 /\ \A n \in DOMAIN loc'[c].todo : ~loc'[c].todo[n].del
    BY <1>2, <1>4
  <2> QED BY <2>1, <2>2 DEF NoneDeleted
<1>5. ASSUME NEW c \in Client, AppendRecord(c) PROVE NoneDeleted'
  <2>1. mt' = mt /\ sst' = sst /\ at[c] = "append" /\ c \in Thread
    BY <1>5, AppendLeaves, ThreadsApart DEF AppendRecord
  <2>2. \A d \in Client : loc'[d].op = "write" =>
                loc'[d].e >= 0 /\ \A n \in DOMAIN loc'[d].todo : ~loc'[d].todo[n].del
    BY <1>2, <1>5, <2>1
  <2>3. loc[c] \in WriteLocals /\ loc[c].e >= 0
    <3>1. loc[c] \in WriteLocals
      BY <1>1, <2>1, LocalsOf
    <3>2. loc[c].op = "write"
      BY <3>1 DEF WriteLocals
    <3> QED BY <3>1, <3>2 DEF NoneDeleted
  <2> DEFINE r == [k |-> loc[c].k, e |-> loc[c].e]
             x == loc[c].mem
  <2>4. wal' = wal \/ wal' = [wal EXCEPT ![x] = Append(@, r)]
    BY <1>5 DEF AppendRecord
  <2>5. r.e >= 0
    BY <2>3
  <2> HIDE DEF r, x
  <2>6. ASSUME NEW i \in DOMAIN wal', NEW n \in DOMAIN wal'[i] PROVE wal'[i][n].e >= 0
    <3>1. CASE wal' = wal
      BY <2>6, <3>1 DEF NoneDeleted
    <3>2. CASE wal' = [wal EXCEPT ![x] = Append(@, r)]
      <4>1. i \in DOMAIN wal
        BY <3>2
      <4>2. wal[i] \in Seq([k : Key, e : Int])
        BY <1>1, <4>1 DEF StoreTyped
      <4>3. CASE i # x
        <5>1. wal'[i] = wal[i]
          BY <3>2, <4>3
        <5> QED BY <2>6, <4>1, <5>1 DEF NoneDeleted
      <4>4. CASE i = x
        <5>1. wal'[i] = Append(wal[i], r)
          BY <3>2, <4>1, <4>4
        <5> DEFINE w == wal[i]
        <5>2. Len(w) \in Nat /\ DOMAIN Append(w, r) = 1..(Len(w) + 1) /\ DOMAIN w = 1..Len(w)
              /\ Append(w, r)[Len(w) + 1] = r /\ \A j \in 1..Len(w) : Append(w, r)[j] = w[j]
          BY <4>2
        <5> HIDE DEF w
        <5>3. CASE n = Len(w) + 1
          BY <2>5, <5>1, <5>2, <5>3 DEF w
        <5>4. CASE n # Len(w) + 1
          <6>1. n \in DOMAIN w
            BY <2>6, <5>1, <5>2, <5>4 DEF w
          <6>2. wal'[i][n] = w[n]
            BY <5>1, <5>2, <6>1 DEF w
          <6> QED BY <4>1, <6>1, <6>2 DEF w, NoneDeleted
        <5> QED BY <5>3, <5>4
      <4> QED BY <4>3, <4>4
    <3> QED BY <2>4, <3>1, <3>2
  <2> QED BY <2>1, <2>2, <2>6 DEF NoneDeleted
<1>6. ASSUME NEW c \in Client, WriteBatch(c) \/ NextRecord(c) PROVE NoneDeleted'
  <2>1. PICK b \in Seq(Record) : b # <<>> /\ Insert(c, b) /\ \A n \in DOMAIN b : ~b[n].del
    BY <1>1, <1>6, NoDels
  <2>2. b[1] \in Record /\ ~b[1].del
    BY <2>1
  <2> DEFINE e == IF b[1].del THEN -(writes + 1) ELSE writes + 1
             x == b[1].k
  <2>3. x \in Key /\ e >= 0 /\ e \in Nat
    <3>1. writes \in Nat
      BY <1>1 DEF Control, Typed
    <3> QED BY <2>2, <3>1 DEF Record
  <2>4. /\ mt' = [mt EXCEPT ![st.mem].data[x] = e, ![st.mem].size = @ + 1] /\ sst' = sst /\ wal' = wal
        /\ Goto(c, "append", [op |-> "write", todo |-> Tail(b), mem |-> st.mem, k |-> x,
                              e |-> e, before |-> done[x], new |-> 0])
    BY <2>1 DEF Insert, diskVars
  <2> DEFINE l == [op |-> "write", todo |-> Tail(b), mem |-> st.mem, k |-> x,
                   e |-> e, before |-> done[x], new |-> 0]
  <2>5. l.e = e /\ l.todo = Tail(b) /\ Goto(c, "append", l)
    BY <2>4
  <2> HIDE DEF e, x, l
  <2>6. \A n \in DOMAIN Tail(b) : ~Tail(b)[n].del
    <3>1. Len(b) \in Nat /\ DOMAIN b = 1..Len(b) /\ Len(b) # 0
      BY <2>1
    <3>2. Len(Tail(b)) = Len(b) - 1 /\ DOMAIN Tail(b) = 1..(Len(b) - 1)
          /\ \A n \in 1..(Len(b) - 1) : Tail(b)[n] = b[n + 1]
      BY <2>1, <3>1
    <3> QED BY <2>1, <3>1, <3>2
  <2>7. ASSUME NEW d \in Client, loc'[d].op = "write"
        PROVE  loc'[d].e >= 0 /\ \A n \in DOMAIN loc'[d].todo : ~loc'[d].todo[n].del
    <3>1. CASE d = c
      <4>1. loc'[d] = l
        BY <1>1, <2>5, <3>1, Moved, ThreadsApart
      <4> QED BY <2>3, <2>5, <2>6, <4>1
    <3>2. CASE d # c
      <4>1. loc'[d] = loc[d]
        BY <1>1, <2>5, <3>2, Moved, ThreadsApart
      <4> QED BY <2>7, <4>1 DEF NoneDeleted
    <3> QED BY <3>1, <3>2
  <2>8. ASSUME NEW i \in DOMAIN mt', NEW k \in Key PROVE mt'[i].data[k] >= 0
    <3>1. i \in DOMAIN mt /\ mt[i] \in Memtable
      BY <1>1, <2>4 DEF StoreTyped
    <3>2. mt[i].data[k] >= 0
      BY <3>1 DEF NoneDeleted
    <3>3. CASE i # st.mem
      BY <2>4, <3>1, <3>2, <3>3
    <3>4. CASE i = st.mem
      <4>1. mt'[i].data = [mt[i].data EXCEPT ![x] = e]
        BY <2>4, <3>1, <3>4 DEF Memtable
      <4>2. mt[i].data \in Table
        BY <3>1 DEF Memtable
      <4>3. mt'[i].data[k] = IF k = x THEN e ELSE mt[i].data[k]
        BY <4>1, <4>2 DEF Table
      <4> QED BY <2>3, <3>2, <4>3
    <3> QED BY <3>3, <3>4
  <2> QED BY <2>4, <2>7, <2>8 DEF NoneDeleted
<1>7. ASSUME NEW c \in Client, Open(c) PROVE NoneDeleted'
  <2>1. CASE Opened.ok
    BY <1>7, <2>1, OpenNone
  <2>2. CASE ~Opened.ok
    <3>1. mt' = mt /\ sst' = sst /\ wal' = wal /\ loc' = loc
      BY <1>7, <2>2 DEF Open, engineVars, diskVars, threadVars
    <3> QED BY <3>1 DEF NoneDeleted
  <2> QED BY <2>1, <2>2
<1>8. CASE UNCHANGED vars
  <2>1. mt' = mt /\ sst' = sst /\ wal' = wal /\ loc' = loc
    BY <1>8 DEF vars, engineVars, diskVars, threadVars
  <2> QED BY <2>1 DEF NoneDeleted
<1> QED BY <1>1, <1>3, <1>4, <1>5, <1>6, <1>7, <1>8, NextSteps
-----------------------------------------------------------------------------
(* Where steps lead.                                                       *)

\* What brings a thread t to the place p with the locals l: to a merge a new task, to a
\* flush a frozen memtable, to a panic one of three causes.
GoesTo(t, p, l) ==
    /\ p \in Working =>
          \/ t \in Compacting /\ l.task = loc[t].task /\ (p \in {"merge", "apply"} => at[t] = "merge")
          \/ p = "merge" /\ t \in Client /\ FullCompaction(t) /\ l.task = FullTask(st)
          \/ p = "merge" /\ t = Compactor /\ CompactTick /\ l.task = SimpleTask(st)
    /\ p = "flush" => st.imm # <<>>
    /\ p = "swap" => ForceFreeze(t) \/ (t \in Client /\ TryFreeze(t))
    /\ l.op = "force_flush" => loc[t].op = "force_flush" \/ (t \in Client /\ ForceFlush(t))
    /\ p = "panicked" =>
          \/ /\ FlushBuild(t) /\ l.cause = "nothing to flush"
             /\ st.imm = <<>> \/ IsEmptyTable(mt[Last(st.imm)].data)
          \/ Apply(t) /\ l.cause = "inputs moved" /\ ~InputsInPlace(st, loc[t].task)
          \/ Merge(t) /\ l.cause = "empty table" /\ Dead(MergeResult(t))

\* A reader, and a thread without work, does not flush.
ReadersRead == \A u \in Thread : at[u] \in ReadPlaces \cup {"idle"} => loc[u].op # "force_flush"

\* Locals fit the place, so none of them is those of a flush.
LEMMA IdleOps == Control => ReadersRead
<1> SUFFICES ASSUME Control, NEW u \in Thread, at[u] \in ReadPlaces \cup {"idle"}
             PROVE  loc[u].op # "force_flush"
  BY DEF ReadersRead
<1>1. LocalsFit(at[u], loc[u])
  BY DEF Control, ThreadOK
<1> QED BY <1>1 DEF LocalsFit, ReadPlaces

\* Each step leads its thread where GoesTo says.
LEMMA StepGoes ==
    ASSUME Engine, Control', NEW t \in Thread,
           QuietStep(t) \/ EngineStep(t) \/ (t \in Client /\ AppendRecord(t))
    PROVE  \E p, l : Goto(t, p, l) /\ GoesTo(t, p, l)
<1> DEFINE G == \E p, l : Goto(t, p, l) /\ GoesTo(t, p, l)
<1> SUFFICES G
  OBVIOUS
<1>0. Control /\ Store /\ StoreTyped
  BY DEF Engine, Store
<1>a. ASSUME NEW p, NEW l, Goto(t, p, l), GoesTo(t, p, l) PROVE G
  BY <1>a
<1>1. ASSUME NEW p, NEW l, Goto(t, p, l), p \notin Working \cup {"flush", "swap", "panicked"},
             l.op # "force_flush" \/ loc[t].op = "force_flush"
      PROVE  G
  BY <1>1 DEF GoesTo
<1>2. NoOp.op # "force_flush" /\ Working = {"merge", "apply", "install", "remove"}
  BY DEF NoOp, Working
<1>3. ASSUME AfterRecord(t) PROVE G
  <2>1. Goto(t, "idle", NoOp) \/ Goto(t, "insert", loc[t])
    BY <1>3, AfterRecordGoes
  <2>2. loc[t].op # "force_flush" \/ loc[t].op = "force_flush"
    OBVIOUS
  <2> HIDE DEF G
  <2>3. CASE Goto(t, "idle", NoOp)
    BY <1>1, <1>2, <2>3
  <2>4. CASE Goto(t, "insert", loc[t])
    BY <1>1, <1>2, <2>2, <2>4
  <2> QED BY <2>1, <2>3, <2>4
<1>4. CASE \/ t \in Client /\ (TryFreeze(t) \/ AppendRecord(t))
           \/ Swap(t)
  <2>1. \/ AfterRecord(t) \/ Goto(t, "ff.check", loc[t]) \/ Goto(t, "freeze", loc[t])
        \/ Goto(t, "swap", [loc[t] EXCEPT !.new = nextId]) /\ at[t] = "freeze" /\ t \in Client /\ TryFreeze(t)
    BY <1>4 DEF TryFreeze, AppendRecord, Swap, Goto
  <2>2. CASE Goto(t, "ff.check", loc[t]) \/ Goto(t, "freeze", loc[t])
    <3>1. PICK p \in {"ff.check", "freeze"} : Goto(t, p, loc[t])
      BY <2>2
    <3>2. loc[t].op # "force_flush" \/ loc[t].op = "force_flush"
      OBVIOUS
    <3> HIDE DEF G
    <3> QED BY <1>1, <1>2, <3>1, <3>2
  <2>3. CASE Goto(t, "swap", [loc[t] EXCEPT !.new = nextId]) /\ at[t] = "freeze" /\ t \in Client /\ TryFreeze(t)
    <3> DEFINE l == [loc[t] EXCEPT !.new = nextId]
    <3>1. loc[t] \in WriteLocals
      BY <1>0, <2>3, LocalsOf
    <3>2. l.op = "write"
      BY <3>1 DEF WriteLocals
    <3>3. Goto(t, "swap", l)
      BY <2>3
    <3> HIDE DEF l
    <3>a. GoesTo(t, "swap", l)
      BY <2>3, <1>2, <3>2, <3>3 DEF GoesTo
    <3> HIDE DEF G
    <3> QED BY <1>a, <3>a, <2>3, <3>2, <3>3
  <2> HIDE DEF G
  <2> QED BY <1>3, <2>1, <2>2, <2>3
<1>5. CASE ForceFreeze(t)
  <2>1. at[t] = "ff.lock" /\ Goto(t, "swap", [op |-> "force_flush", new |-> nextId])
    BY <1>5 DEF ForceFreeze
  <2>2. loc[t].op = "force_flush"
    BY <1>0, <2>1, ForcedBy
  <2> DEFINE l == [op |-> "force_flush", new |-> nextId]
  <2>3. Goto(t, "swap", l)
    BY <2>1
  <2> HIDE DEF l
  <2>a. GoesTo(t, "swap", l)
    BY <1>2, <1>5, <2>2, <2>3 DEF GoesTo
  <2> HIDE DEF G
  <2> QED BY <1>a, <2>a, <2>2, <2>3
<1>6. CASE ForceCheck(t)
  <2>1. Goto(t, "idle", NoOp) \/ (Goto(t, "flush", loc[t]) /\ st.imm # <<>>)
    BY <1>6 DEF ForceCheck
  <2>2. CASE Goto(t, "flush", loc[t]) /\ st.imm # <<>>
    <3>1. GoesTo(t, "flush", loc[t])
      BY <2>2 DEF GoesTo, Working
    <3> HIDE DEF G
    <3> QED BY <1>a, <2>2, <3>1
  <2>3. CASE Goto(t, "idle", NoOp)
    <3> HIDE DEF G
    <3> QED BY <1>1, <1>2, <2>3
  <2> QED BY <2>1, <2>2, <2>3
<1>7. CASE FlushBuild(t)
  <2>1. CASE st.imm = <<>> \/ IsEmptyTable(mt[Last(st.imm)].data)
    <3> DEFINE l == [op |-> "none", cause |-> "nothing to flush"]
    <3>1. Goto(t, "panicked", l) /\ l.op = "none" /\ l.cause = "nothing to flush"
      BY <1>7, <2>1 DEF FlushBuild, Panic
    <3> HIDE DEF l
    <3>a. GoesTo(t, "panicked", l)
      BY <1>2, <1>7, <2>1, <3>1 DEF GoesTo
    <3> HIDE DEF G
    <3> QED BY <1>a, <3>a, <2>1, <3>1
  <2>2. CASE ~(st.imm = <<>> \/ IsEmptyTable(mt[Last(st.imm)].data))
    <3> DEFINE l == [op |-> loc[t].op, id |-> Last(st.imm)]
    <3>1. Goto(t, "flush.install", l) /\ (l.op # "force_flush" \/ loc[t].op = "force_flush")
      BY <1>7, <2>2 DEF FlushBuild
    <3> HIDE DEF l, G
    <3> QED BY <1>1, <1>2, <3>1
  <2> QED BY <2>1, <2>2
<1>8. CASE FlushInstall(t)
  <2>1. at[t] = "flush.install"
    BY <1>8 DEF FlushInstall
  <2>2. loc[t].id = Last(st.imm)
    BY <1>0, <2>1, FlushOf
  <2> DEFINE l == [op |-> "close"]
  <2>3. (Goto(t, "close.drain", l) \/ Goto(t, "idle", NoOp)) /\ l.op # "force_flush"
    BY <1>8, <2>2 DEF FlushInstall
  <2> HIDE DEF l, G
  <2> QED BY <1>1, <1>2, <2>3
<1>9. CASE Merge(t)
  <2>1. at[t] = "merge" /\ t \in Compacting
    BY <1>9, MergeIs DEF Compacting
  <2>2. CASE Dead(MergeResult(t))
    <3> DEFINE l == [op |-> "none", cause |-> "empty table"]
    <3>1. Goto(t, "panicked", l) /\ l.op = "none" /\ l.cause = "empty table"
      BY <1>9, <2>2, MergeIs DEF Panic
    <3> HIDE DEF l
    <3>a. GoesTo(t, "panicked", l)
      BY <1>2, <1>9, <2>2, <3>1 DEF GoesTo
    <3> HIDE DEF G
    <3> QED BY <1>a, <3>a, <2>2, <3>1
  <2>3. CASE ~Dead(MergeResult(t))
    <3> DEFINE l == [op |-> "compact", task |-> loc[t].task, ids |-> OutIds(MergeResult(t))]
    <3>1. Goto(t, "apply", l) /\ l.op = "compact" /\ l.task = loc[t].task
      BY <1>9, <2>3, MergeIs
    <3> HIDE DEF l
    <3>a. GoesTo(t, "apply", l)
      BY <1>2, <2>1, <3>1 DEF GoesTo
    <3> HIDE DEF G
    <3> QED BY <1>a, <3>a, <2>1, <3>1
  <2> QED BY <2>2, <2>3
<1>10. CASE Apply(t)
  <2>1. at[t] = "apply" /\ t \in Compacting
    BY <1>10 DEF Apply, Compacting
  <2>2. CASE ~InputsInPlace(st, loc[t].task)
    <3> DEFINE l == [op |-> "none", cause |-> "inputs moved"]
    <3>1. Goto(t, "panicked", l) /\ l.op = "none" /\ l.cause = "inputs moved"
      BY <1>10, <2>2 DEF Apply, Panic
    <3> HIDE DEF l
    <3>a. GoesTo(t, "panicked", l)
      BY <1>2, <1>10, <2>2, <3>1 DEF GoesTo
    <3> HIDE DEF G
    <3> QED BY <1>a, <3>a, <2>2, <3>1
  <2>3. CASE InputsInPlace(st, loc[t].task)
    <3> DEFINE l == Installing(loc[t])
    <3>1. Goto(t, "install", l) /\ l.op = "compact" /\ l.task = loc[t].task
      BY <1>10, <2>3 DEF Apply, Installing
    <3> HIDE DEF l
    <3>a. GoesTo(t, "install", l)
      BY <1>2, <2>1, <3>1 DEF GoesTo
    <3> HIDE DEF G
    <3> QED BY <1>a, <3>a, <2>1, <3>1
  <2> QED BY <2>2, <2>3
<1>11. CASE Install(t)
  <2>1. at[t] = "install" /\ t \in Compacting /\ Goto(t, "remove", [op |-> "compact", task |-> loc[t].task])
    BY <1>11 DEF Install, Compacting
  <2> DEFINE l == [op |-> "compact", task |-> loc[t].task]
  <2>2. Goto(t, "remove", l) /\ l.op = "compact" /\ l.task = loc[t].task
    BY <2>1
  <2> HIDE DEF l
  <2>a. GoesTo(t, "remove", l)
    BY <1>2, <2>1, <2>2 DEF GoesTo
  <2> HIDE DEF G
  <2> QED BY <1>a, <2>a, <2>1, <2>2
<1>12. CASE RemoveInputs(t) \/ StopThread(t)
  <2>1. Goto(t, "idle", NoOp) \/ Goto(t, "stopped", NoOp)
    BY <1>12 DEF RemoveInputs, StopThread
  <2> HIDE DEF G
  <2> QED BY <1>1, <1>2, <2>1
<1>13. CASE t \in Client /\ FullCompaction(t)
  <2> DEFINE l == [op |-> "compact", task |-> FullTask(st)]
  <2>1. Goto(t, "merge", l) /\ l.op = "compact" /\ l.task = FullTask(st)
    BY <1>13 DEF FullCompaction
  <2> HIDE DEF l
  <2>a. GoesTo(t, "merge", l)
    BY <1>2, <1>13, <2>1 DEF GoesTo
  <2> HIDE DEF G
  <2> QED BY <1>a, <2>a, <2>1
<1>14. CASE t = Compactor /\ CompactTick
  <2> DEFINE l == [op |-> "compact", task |-> SimpleTask(st)]
  <2>1. Goto(t, "merge", l) /\ l.op = "compact" /\ l.task = SimpleTask(st)
    BY <1>14 DEF CompactTick
  <2> HIDE DEF l
  <2>a. GoesTo(t, "merge", l)
    BY <1>2, <1>14, <2>1 DEF GoesTo
  <2> HIDE DEF G
  <2> QED BY <1>a, <2>a, <2>1
<1>15. CASE t = Flusher /\ FlushTick
  <2>1. Goto(t, "flush", [op |-> "tick"]) /\ Len(st.imm) >= MemLimit
    BY <1>15 DEF FlushTick
  <2>2. st.imm # <<>>
    <3>1. MemLimit \in Nat \ {0}
      BY Week2Assumption
    <3> QED BY <2>1, <3>1
  <2> DEFINE l == [op |-> "tick"]
  <2>3. Goto(t, "flush", l) /\ l.op = "tick"
    BY <2>1
  <2> HIDE DEF l
  <2>a. GoesTo(t, "flush", l)
    BY <1>2, <2>2, <2>3 DEF GoesTo
  <2> HIDE DEF G
  <2> QED BY <1>a, <2>a, <2>2, <2>3
<1>16. CASE t \in Client /\ CloseDrain(t)
  <2> DEFINE l == [op |-> "close"]
  <2>1. Goto(t, "flush", l) /\ l.op = "close" /\ st.imm # <<>>
    BY <1>16 DEF CloseDrain
  <2> HIDE DEF l
  <2>a. GoesTo(t, "flush", l)
    BY <1>2, <2>1 DEF GoesTo
  <2> HIDE DEF G
  <2> QED BY <1>a, <2>a, <2>1
<1>17. CASE t \in Client /\ (Close(t) \/ CloseJoin(t) \/ CloseMemtable(t) \/ CloseEnd(t))
  <2> DEFINE l == [op |-> "close"]
  <2>1. \/ \E p \in {"close.synced", "close.drain", "close.join_flusher", "close.memtable",
                     "close.join_compactor"} : Goto(t, p, l)
        \/ Goto(t, "idle", NoOp)
    BY <1>17 DEF Close, CloseJoin, CloseMemtable, CloseEnd, CloseGives
  <2>2. l.op # "force_flush"
    OBVIOUS
  <2> HIDE DEF G, l
  <2> QED BY <1>1, <1>2, <2>1, <2>2
<1>18. CASE t \in Client /\ ForceFlush(t)
  <2> DEFINE l == [op |-> "force_flush"]
  <2>1. Goto(t, "ff.check", l) \/ Goto(t, "ff.lock", l)
    BY <1>18 DEF ForceFlush
  <2>2. l.op = "force_flush"
    OBVIOUS
  <2> HIDE DEF l
  <2>a. GoesTo(t, "ff.check", l) /\ GoesTo(t, "ff.lock", l)
    BY <1>2, <1>18, <2>1, <2>2 DEF GoesTo
  <2> HIDE DEF G
  <2> QED BY <1>a, <2>a, <2>1, <2>2
<1>19. CASE t \in Client /\ ReadStep(t)
  <2>1. PICK p, l : Goto(t, p, l) /\ p \in ReadPlaces \cup {"idle"}
    BY <1>19, ReadGoes
  <2>2. at'[t] = p /\ loc'[t] = l
    BY <1>0, <2>1, Moved
  <2>3. (Control => ReadersRead)'
    BY IdleOps, PTL
  <2>4. l.op # "force_flush"
    BY <2>1, <2>2, <2>3 DEF ReadersRead
  <2> HIDE DEF G
  <2> QED BY <1>1, <1>2, <2>1, <2>4 DEF ReadPlaces
<1> HIDE DEF G
<1>20. \/ (t \in Client /\ (TryFreeze(t) \/ AppendRecord(t))) \/ Swap(t) \/ ForceFreeze(t) \/ ForceCheck(t)
       \/ FlushBuild(t) \/ FlushInstall(t) \/ Merge(t) \/ Apply(t) \/ Install(t) \/ RemoveInputs(t) \/ StopThread(t)
       \/ (t \in Client /\ (\/ FullCompaction(t) \/ CloseDrain(t) \/ ForceFlush(t) \/ ReadStep(t)
                            \/ Close(t) \/ CloseJoin(t) \/ CloseMemtable(t) \/ CloseEnd(t)))
       \/ (t = Flusher /\ FlushTick) \/ (t = Compactor /\ CompactTick)
  BY DEF QuietStep, EngineStep, ReadStep
<1> QED BY <1>4, <1>5, <1>6, <1>7, <1>8, <1>9, <1>10, <1>11, <1>12, <1>13, <1>14, <1>15, <1>16, <1>17,
           <1>18, <1>19, <1>20

-----------------------------------------------------------------------------
(* One compaction at a time.                                               *)

\* At most one full compaction was called, or compaction is the background thread's.
OneFull == setting.simple \/ left["full"] + 1 >= setting.calls["full"]

\* Then one thread compacts, and its inputs are where the task found them.
Singly ==
    OneFull =>
        /\ \A t, u \in Compacting : t = u
        /\ \A t \in Compacting : at[t] \in {"merge", "apply"} => InputsInPlace(st, loc[t].task)

\* Without a full compaction called no client compacts.
NoneFull == left["full"] = setting.calls["full"] => Compacting \cap Client = {}

\* Only the installation of a compaction moves tables of the levels or out of L0.
LEMMA LevelsStay ==
    ASSUME Engine, NEW t \in Thread, QuietStep(t) \/ EngineStep(t) \/ AppendRecord(t), ~Install(t)
    PROVE  st'.levels = st.levels /\ Ids(st.l0) \subseteq Ids(st'.l0)
<1>1. Control /\ Store /\ StoreTyped
  BY DEF Engine, Store
<1>2. CASE QuietStep(t) \/ AppendRecord(t)
  <2>1. st' = st
    BY <1>2, QuietLeaves, AppendLeaves
  <2> QED BY <2>1
<1>3. CASE \/ t \in Client /\ TryFreeze(t)
           \/ ForceFreeze(t) \/ FlushBuild(t) \/ Merge(t) \/ RemoveInputs(t)
  <2>1. st' = st
    BY <1>3 DEF TryFreeze, ForceFreeze, FlushBuild, Merge, RemoveInputs
  <2> QED BY <2>1
<1>4. CASE Swap(t) \/ (t \in Client /\ CloseMemtable(t))
  <2>1. st' = st \/ \E i : st' = Frozen(st, i)
    BY <1>4 DEF Swap, CloseMemtable
  <2>2. st \in State
    BY <1>1 DEF StoreTyped
  <2> QED BY <2>1, <2>2 DEF Frozen, State
<1>5. CASE FlushInstall(t)
  <2>1. at[t] = "flush.install"
    BY <1>5 DEF FlushInstall
  <2>2. st.imm # <<>> /\ loc[t].id = Last(st.imm)
    BY <1>1, <2>1, FlushOf
  <2>3. st' = Flushed(st)
    BY <1>5, <2>2 DEF FlushInstall
  <2> DEFINE i == Last(st.imm)
  <2>4. st'.l0 = <<i>> \o st.l0 /\ st'.levels = st.levels /\ i \in Nat
    BY <1>1, <2>2, <2>3, FlushedIs
  <2>5. st.l0 \in Seq(Nat)
    BY <1>1 DEF StoreTyped, State
  <2> HIDE DEF i
  <2> QED BY <2>4, <2>5, Prepended
<1> QED BY <1>2, <1>3, <1>4, <1>5 DEF EngineStep

\* What is in place stays there meanwhile.
LEMMA InPlaceStays ==
    ASSUME Engine, NEW t \in Thread, QuietStep(t) \/ EngineStep(t) \/ AppendRecord(t), ~Install(t),
           NEW task, InputsInPlace(st, task)
    PROVE  InputsInPlace(st', task)
<1>1. st'.levels = st.levels /\ Ids(st.l0) \subseteq Ids(st'.l0)
  BY LevelsStay
<1> QED BY <1>1 DEF InputsInPlace

\* Only clients compact without compaction options, only the compaction thread with them.
LEMMA CompactorsAre ==
    ASSUME Control, NEW t \in Compacting
    PROVE  IF setting.simple THEN t = Compactor ELSE t \in Client
<1>1. t \in Thread /\ at[t] \in {"merge", "apply", "install", "remove"}
  BY DEF Compacting
<1>2. t # Flusher /\ (t = Compactor <=> setting.simple)
  BY <1>1, CompactedBy
<1> QED BY <1>1, <1>2, ThreadsApart

\* A step after which there is at most one call keeps compactions apart.
LEMMA SinglyGoes ==
    ASSUME Engine, Engine', Counted, Singly, NoneFull, [Next]_vars, NEW t \in Thread,
           QuietStep(t) \/ EngineStep(t) \/ (t \in Client /\ AppendRecord(t))
    PROVE  Singly' /\ NoneFull'
<1>1. Control /\ Control' /\ Store /\ StoreTyped
  BY DEF Engine, Store
<1>2. PICK p, l : Goto(t, p, l) /\ GoesTo(t, p, l)
  BY <1>1, StepGoes
<1>3. /\ setting' = setting /\ left'["full"] <= left["full"] /\ left["full"] \in Nat /\ left'["full"] \in Nat
      /\ setting.calls["full"] \in Nat /\ left["full"] <= setting.calls["full"]
  BY <1>1, LeftFalls DEF Calls, Counted
<1>4. /\ at'[t] = p /\ loc'[t] = l
      /\ \A u \in Thread : u # t => at'[u] = at[u] /\ loc'[u] = loc[u]
      /\ \A u \in Thread : u \in Compacting' <=> IF u = t THEN p \in Working ELSE u \in Compacting
      /\ Compacting' \subseteq Thread
  BY <1>1, <1>2, SetsAfter
<1>5. FullCompaction(t) => /\ left'["full"] = left["full"] - 1 /\ left["full"] > 0 /\ ~setting.simple
                           /\ st' = st
  <2>1. FullCompaction(t) => Call("full") /\ ~setting.simple /\ st' = st
    BY DEF FullCompaction, engineVars
  <2>2. "full" \in Calls
    BY DEF Calls
  <2> QED BY <1>1, <2>1, <2>2, CallLeaves
<1>6. p \in Working /\ t \notin Compacting =>
         \/ p = "merge" /\ t \in Client /\ FullCompaction(t) /\ l.task = FullTask(st)
         \/ p = "merge" /\ t = Compactor /\ CompactTick /\ l.task = SimpleTask(st)
  BY <1>2 DEF GoesTo
<1>7. NoneFull'
  <2> SUFFICES ASSUME left'["full"] = setting'.calls["full"], NEW u \in Compacting', u \in Client
               PROVE  FALSE
    BY DEF NoneFull
  <2>1. left["full"] = setting.calls["full"] /\ left'["full"] = left["full"]
    BY <1>3
  <2>2. Compacting \cap Client = {}
    BY <2>1 DEF NoneFull
  <2>3. u = t /\ p \in Working /\ t \notin Compacting
    BY <1>4, <2>2
  <2>4. FullCompaction(t)
    BY <1>6, <2>3, ThreadsApart
  <2> QED BY <1>3, <1>5, <2>1, <2>4
<1>8. ASSUME OneFull' PROVE OneFull
  BY <1>3, <1>8 DEF OneFull
<1>9. ASSUME OneFull', p \in Working, t \notin Compacting PROVE Compacting = {}
  <2> SUFFICES ASSUME NEW u \in Compacting PROVE FALSE
    OBVIOUS
  <2>1. CASE FullCompaction(t)
    <3>1. left["full"] = setting.calls["full"]
      BY <1>3, <1>5, <1>9, <2>1 DEF OneFull
    <3>2. u \in Client
      BY <1>1, <1>5, <2>1, CompactorsAre
    <3> QED BY <3>1, <3>2 DEF NoneFull
  <2>2. CASE t = Compactor /\ CompactTick
    <3>1. u = t
      BY <1>1, <2>2, CompactorsAre DEF CompactTick
    <3> QED BY <1>9, <3>1
  <2> QED BY <1>6, <1>9, <2>1, <2>2
<1>10. Singly'
  <2> SUFFICES ASSUME OneFull'
               PROVE  /\ \A u, v \in Compacting' : u = v
                      /\ \A u \in Compacting' : at'[u] \in {"merge", "apply"} => InputsInPlace(st', loc'[u].task)
    BY DEF Singly
  <2>1. OneFull
    BY <1>8
  <2>2. \A u, v \in Compacting : u = v
    BY <2>1 DEF Singly
  <2>3. ASSUME NEW u \in Compacting', NEW v \in Compacting' PROVE u = v
    <3>1. CASE p \in Working /\ t \notin Compacting
      BY <1>4, <1>9, <3>1
    <3>2. CASE ~(p \in Working /\ t \notin Compacting)
      BY <1>4, <2>2, <3>2
    <3> QED BY <3>1, <3>2
  <2>4. ASSUME NEW u \in Compacting', at'[u] \in {"merge", "apply"} PROVE InputsInPlace(st', loc'[u].task)
    <3>1. u \in Thread
      BY <1>4
    <3>2. CASE u # t
      <4>1. u \in Compacting /\ at[u] \in {"merge", "apply"} /\ loc'[u] = loc[u]
        BY <1>4, <2>4, <3>1, <3>2
      <4>2. InputsInPlace(st, loc[u].task)
        BY <2>1, <4>1 DEF Singly
      <4>3. ~Install(t)
        <5>1. Install(t) => t \in Compacting
          BY DEF Install, Compacting
        <5> QED BY <2>2, <3>2, <4>1, <5>1
      <4>4. InputsInPlace(st', loc[u].task)
        BY <4>2, <4>3, InPlaceStays
      <4> QED BY <4>1, <4>4
    <3>3. CASE u = t
      <4>1. p \in Working /\ p \in {"merge", "apply"} /\ loc'[u] = l
        BY <1>4, <2>4, <3>3 DEF Working
      <4>2. CASE t \in Compacting /\ l.task = loc[t].task /\ at[t] = "merge"
        <5>1. InputsInPlace(st, loc[t].task)
          BY <2>1, <4>2 DEF Singly
        <5>2. ~Install(t)
          BY <4>2 DEF Install
        <5>3. InputsInPlace(st', loc[t].task)
          BY <5>1, <5>2, InPlaceStays
        <5> QED BY <4>1, <4>2, <5>3
      <4>3. CASE FullCompaction(t) /\ l.task = FullTask(st)
        <5>1. InputsInPlace(st, FullTask(st))
          BY DEF InputsInPlace, FullTask
        <5> QED BY <1>5, <4>1, <4>3, <5>1
      <4>4. CASE CompactTick /\ l.task = SimpleTask(st)
        <5> DEFINE task == SimpleTask(st)
        <5>1. task # NoTask /\ setting.simple /\ st' = st
          BY <4>4 DEF CompactTick, engineVars
        <5>2. /\ task.us = IF task.upper = 0 THEN st.l0 ELSE st.levels[task.upper]
              /\ task.ls = st.levels[task.lower]
          BY <1>1, <5>1, TasksAre
        <5> HIDE DEF task
        <5>3. InputsInPlace(st, task)
          BY <5>2 DEF InputsInPlace
        <5> QED BY <4>1, <4>4, <5>1, <5>3 DEF task
      <4> QED BY <1>2, <4>1, <4>2, <4>3, <4>4 DEF GoesTo
    <3> QED BY <3>2, <3>3
  <2> QED BY <2>3, <2>4
<1> QED BY <1>7, <1>10

\* Compactions are kept apart by every step.
LEMMA SinglyStep ==
    ASSUME Engine, Engine', Counted, Singly, NoneFull, [Next]_vars
    PROVE  Singly' /\ NoneFull'
<1>1. Control /\ Control' /\ Store
  BY DEF Engine
<1>2. /\ setting' = setting /\ left'["full"] <= left["full"] /\ left["full"] \in Nat /\ left'["full"] \in Nat
      /\ setting.calls["full"] \in Nat /\ left["full"] <= setting.calls["full"]
  BY <1>1, LeftFalls DEF Calls, Counted
<1>3. /\ OneFull' => OneFull
      /\ left'["full"] = setting'.calls["full"] => left["full"] = setting.calls["full"]
  BY <1>2 DEF OneFull
<1>4. ASSUME st' = st, Compacting' \subseteq Compacting,
             \A u \in Compacting' : at'[u] = at[u] /\ loc'[u] = loc[u]
      PROVE  Singly' /\ NoneFull'
  <2>1. NoneFull'
    BY <1>3, <1>4 DEF NoneFull
  <2>2. ASSUME OneFull, NEW u \in Compacting', at'[u] \in {"merge", "apply"} PROVE InputsInPlace(st', loc'[u].task)
    <3>1. u \in Compacting /\ at[u] \in {"merge", "apply"} /\ loc'[u].task = loc[u].task
      BY <1>4, <2>2
    <3>2. InputsInPlace(st, loc[u].task)
      BY <2>2, <3>1 DEF Singly
    <3> QED BY <1>4, <3>1, <3>2
  <2>3. OneFull => \A u, v \in Compacting' : u = v
    BY <1>4 DEF Singly
  <2> QED BY <1>3, <2>1, <2>2, <2>3 DEF Singly
<1>5. ASSUME NEW c \in Client, WriteBatch(c) \/ NextRecord(c) PROVE Singly' /\ NoneFull'
  <2>1. PICK b : Inserts(c, b)
    BY <1>1, <1>5, InsertsOf
  <2>2. PICK l : Goto(c, "append", l)
    BY <2>1 DEF Inserts, Insert
  <2>3. /\ \A u \in Thread : u # c => at'[u] = at[u] /\ loc'[u] = loc[u]
        /\ \A u \in Thread : u \in Compacting' <=> IF u = c THEN "append" \in Working ELSE u \in Compacting
        /\ Compacting' \subseteq Thread
    BY <1>1, <2>2, SetsAfter, ThreadsApart
  <2>4. st' = st /\ "append" \notin Working
    BY <2>1 DEF Inserts, Insert, Working
  <2> QED BY <1>4, <2>3, <2>4
<1>6. ASSUME NEW c \in Client, Open(c) PROVE Singly' /\ NoneFull'
  <2>1. CASE Opened.ok
    <3>1. Compacting' = {}
      BY <1>1, <1>6, <2>1, OpenIs
    <3> QED BY <3>1 DEF Singly, NoneFull
  <2>2. CASE ~Opened.ok
    <3>1. st' = st /\ at' = at /\ loc' = loc
      BY <1>6, <2>2 DEF Open, engineVars, threadVars
    <3>2. Compacting' = Compacting
      BY <3>1 DEF Compacting
    <3> QED BY <1>4, <3>1, <3>2
  <2> QED BY <2>1, <2>2
<1>7. CASE UNCHANGED vars
  <2>1. st' = st /\ at' = at /\ loc' = loc
    BY <1>7 DEF vars, engineVars, threadVars
  <2>2. Compacting' = Compacting
    BY <2>1 DEF Compacting
  <2> QED BY <1>4, <2>1, <2>2
<1>8. ASSUME NEW t \in Thread, QuietStep(t) \/ EngineStep(t) \/ (t \in Client /\ AppendRecord(t))
      PROVE  Singly' /\ NoneFull'
  BY <1>8, SinglyGoes
<1> QED BY <1>1, <1>5, <1>6, <1>7, <1>8, NextSteps, ThreadsApart
-----------------------------------------------------------------------------
(* Something to flush.                                                     *)

\* A memtable that takes room holds an entry.
Sized == \A i \in DOMAIN mt : mt[i].size > 0 => mt[i].data # Nothing

\* Without a force_flush whoever comes to flush finds a frozen memtable with an entry.
FlushFit ==
    /\ \A c \in Client : loc[c].op # "force_flush"
    /\ \A i \in Ids(st.imm) : mt[i].data # Nothing
    /\ \A t \in Thread : at[t] = "flush" => st.imm # <<>>
    /\ \A t \in Thread : at[t] = "swap" => mt[st.mem].data # Nothing

\* An insertion leaves an entry in the memtable.
LEMMA InsertFills ==
    ASSUME Control, Store, NEW c \in Client, NEW b, Inserts(c, b)
    PROVE  /\ DOMAIN mt' = DOMAIN mt /\ st' = st /\ mt'[st.mem].data # Nothing
           /\ \A i \in DOMAIN mt : i # st.mem => mt'[i] = mt[i]
           /\ \E l : Goto(c, "append", l) /\ l.op = "write"
<1>1. b \in Seq(Record) /\ b # <<>> /\ Insert(c, b)
  BY DEF Inserts
<1>2. b[1] \in Record
  BY <1>1
<1> DEFINE e == IF b[1].del THEN -(writes + 1) ELSE writes + 1
           x == b[1].k
           l == [op |-> "write", todo |-> Tail(b), mem |-> st.mem, k |-> x,
                 e |-> e, before |-> done[x], new |-> 0]
<1>3. x \in Key /\ e \in Int /\ e # 0
  <2>1. writes \in Nat
    BY DEF Control, Typed
  <2> QED BY <1>2, <2>1 DEF Record
<1>4. /\ mt' = [mt EXCEPT ![st.mem].data[x] = e, ![st.mem].size = @ + 1] /\ st' = st
      /\ Goto(c, "append", l)
  BY <1>1 DEF Insert
<1>5. l.op = "write"
  OBVIOUS
<1> HIDE DEF e, x, l
<1>6. st.mem \in DOMAIN mt /\ mt[st.mem] \in Memtable
  BY DEF Store, StoreTyped, Memtables, MemIds
<1>7. mt'[st.mem].data = [mt[st.mem].data EXCEPT ![x] = e]
  BY <1>4, <1>6 DEF Memtable
<1>8. mt'[st.mem].data[x] = e
  <2>1. mt[st.mem].data \in Table
    BY <1>6 DEF Memtable
  <2> QED BY <1>3, <1>7, <2>1 DEF Table
<1>9. mt'[st.mem].data # Nothing
  BY <1>3, <1>8 DEF Nothing
<1> QED BY <1>4, <1>5, <1>9

\* Memtables are made empty and filled by insertions.
LEMMA SizedStep ==
    ASSUME Engine, Sized, [Next]_vars
    PROVE  Sized'
<1>1. Control /\ Store
  BY DEF Engine
<1>2. mt' = mt => Sized'
  BY DEF Sized
<1>3. CreateMemtable => Sized'
  <2> SUFFICES ASSUME CreateMemtable, NEW i \in DOMAIN mt', mt'[i].size > 0 PROVE mt'[i].data # Nothing
    BY DEF Sized
  <2>1. mt' = With(mt, nextId, EmptyMemtable)
    BY DEF CreateMemtable
  <2>2. i # nextId
    <3>1. EmptyMemtable.size = 0
      BY DEF EmptyMemtable
    <3>2. i = nextId => mt'[i] = EmptyMemtable
      BY <2>1 DEF With
    <3> QED BY <3>1, <3>2
  <2>3. i \in DOMAIN mt /\ mt'[i] = mt[i]
    BY <2>1, <2>2 DEF With
  <2> QED BY <2>3 DEF Sized
<1>4. ASSUME NEW t \in Thread, EngineStep(t) PROVE Sized'
  <2>1. mt' = mt \/ CreateMemtable
    BY <1>4 DEF EngineStep, TryFreeze, CloseMemtable, ForceFreeze, Swap, FlushBuild, FlushInstall, Merge,
        Install, RemoveInputs
  <2> QED BY <1>2, <1>3, <2>1
<1>5. ASSUME NEW t \in Thread, QuietStep(t) PROVE Sized'
  BY <1>2, <1>5, QuietLeaves
<1>6. ASSUME NEW c \in Client, AppendRecord(c) PROVE Sized'
  BY <1>2, <1>6, AppendLeaves
<1>7. ASSUME NEW c \in Client, NEW b, Inserts(c, b) PROVE Sized'
  <2>1. /\ DOMAIN mt' = DOMAIN mt /\ st' = st /\ mt'[st.mem].data # Nothing
        /\ \A i \in DOMAIN mt : i # st.mem => mt'[i] = mt[i]
    BY <1>1, <1>7, InsertFills
  <2> QED BY <2>1 DEF Sized
<1>8. ASSUME NEW c \in Client, Open(c) PROVE Sized'
  <2>1. CASE Opened.ok
    <3>1. mt' = OpenedMt(Opened)
      BY <1>1, <1>8, <2>1, OpenIs
    <3>2. \A i \in DOMAIN mt' : mt'[i].size = 0
      BY <3>1 DEF OpenedMt, EmptyMemtable
    <3> QED BY <3>2 DEF Sized
  <2>2. CASE ~Opened.ok
    <3>1. mt' = mt
      BY <1>8, <2>2 DEF Open, engineVars
    <3> QED BY <1>2, <3>1
  <2> QED BY <2>1, <2>2
<1>9. UNCHANGED vars => mt' = mt
  BY DEF vars, engineVars
<1> QED BY <1>1, <1>2, <1>4, <1>5, <1>6, <1>7, <1>8, <1>9, NextKinds

\* Without a force_flush one thread flushes at a time.
LEMMA OneFlushes ==
    ASSUME Control, FlushFit, NEW t \in Thread, NEW u \in Thread,
           at[t] \in {"flush", "flush.install"}, at[u] \in {"flush", "flush.install"}
    PROVE  t = u
<1>1. ASSUME NEW v \in Thread, at[v] \in {"flush", "flush.install"}
      PROVE  v = Flusher \/ (v \in Client /\ loc[v].op = "close" /\ at[Flusher] = "stopped")
  <2>1. loc[v].op \in FlushOps
    BY <1>1, LocalsOf
  <2>2. ThreadFits(v, at[v], loc[v])
    BY PlaceOf
  <2>3. v # Compactor
    BY <1>1, <2>2 DEF ThreadFits
  <2>4. CASE v \in Client
    <3>1. loc[v].op = "close"
      BY <2>1, <2>2, <2>4 DEF ThreadFits, FlushOps, FlushFit
    <3>2. at[v] \in PastJoins
      BY <1>1 DEF PastJoins
    <3>3. at[Flusher] = "stopped"
      BY <2>4, <3>1, <3>2, PlaceOf
    <3> QED BY <2>4, <3>1, <3>3
  <2> QED BY <2>3, <2>4, ThreadsApart
<1>2. \A c, d \in Client : loc[c].op = "close" /\ loc[d].op = "close" => c = d
  BY DEF Control, OneCloses
<1>3. (t = Flusher \/ (t \in Client /\ loc[t].op = "close" /\ at[Flusher] = "stopped"))
      /\ (u = Flusher \/ (u \in Client /\ loc[u].op = "close" /\ at[Flusher] = "stopped"))
  BY <1>1
<1> QED BY <1>2, <1>3

\* What moves at most the thread keeps what it finds.
LEMMA FlushFitStays ==
    ASSUME Control, FlushFit, Memtables, NEW t \in Thread, NEW p, NEW l, Goto(t, p, l), GoesTo(t, p, l),
           left'["flush"] = left["flush"], st'.mem = st.mem, st'.imm = st.imm,
           \A i \in DOMAIN mt : mt'[i] = mt[i], p = "swap" => mt[st.mem].data # Nothing
    PROVE  FlushFit'
<1>1. /\ at'[t] = p /\ loc'[t] = l
      /\ \A u \in Thread : u # t => at'[u] = at[u] /\ loc'[u] = loc[u]
  BY Moved
<1>2. st.mem \in DOMAIN mt /\ \A i \in Ids(st.imm) : i \in DOMAIN mt
  BY DEF Memtables, MemIds
<1>3. ASSUME NEW c \in Client PROVE loc'[c].op # "force_flush"
  <2>1. c \in Thread /\ loc[c].op # "force_flush"
    BY ThreadsApart DEF FlushFit
  <2>2. ~ForceFlush(t)
    <3>1. Call("flush") => left'["flush"] = left["flush"] - 1 /\ left["flush"] \in Nat
      <4>1. "flush" \in Calls
        BY DEF Calls
      <4>2. left \in [Calls -> Nat]
        BY DEF Control, Typed
      <4> QED BY <4>1, <4>2, CallLeaves
    <3> QED BY <3>1 DEF ForceFlush
  <2>3. CASE c = t
    BY <1>1, <2>1, <2>2, <2>3 DEF GoesTo
  <2>4. CASE c # t
    BY <1>1, <2>1, <2>4
  <2> QED BY <2>3, <2>4
<1>4. ASSUME NEW i \in Ids(st'.imm) PROVE mt'[i].data # Nothing
  <2>1. i \in Ids(st.imm)
    BY <1>4
  <2> QED BY <1>2, <2>1 DEF FlushFit
<1>5. ASSUME NEW u \in Thread, at'[u] = "flush" PROVE st'.imm # <<>>
  BY <1>1, <1>5 DEF GoesTo, FlushFit
<1>6. ASSUME NEW u \in Thread, at'[u] = "swap" PROVE mt'[st'.mem].data # Nothing
  BY <1>1, <1>2, <1>6 DEF FlushFit
<1> QED BY <1>3, <1>4, <1>5, <1>6 DEF FlushFit

\* The current memtable, when it is frozen or its successor made, holds an entry.
LEMMA SwapFit ==
    ASSUME Engine, FlushFit, NEW t \in Thread, NEW p, NEW l, Goto(t, p, l), GoesTo(t, p, l),
           left'["flush"] = left["flush"],
           Swap(t) \/ (t \in Client /\ CloseMemtable(t) /\ ~setting.wal /\ ~IsEmptyTable(mt[st.mem].data))
    PROVE  FlushFit'
<1>1. Control /\ Store /\ StoreTyped /\ Memtables
  BY DEF Engine, Store
<1>2. /\ at'[t] = p /\ loc'[t] = l
      /\ \A u \in Thread : u # t => at'[u] = at[u] /\ loc'[u] = loc[u]
  BY <1>1, Moved
<1>3. mt[st.mem].data # Nothing
  <2>1. CASE Swap(t)
    BY <2>1 DEF Swap, FlushFit
  <2>2. CASE ~Swap(t)
    BY <2>2 DEF IsEmptyTable
  <2> QED BY <2>1, <2>2
<1>4. (\E i : st' = Frozen(st, i)) /\ \A i \in DOMAIN mt : mt'[i] = mt[i]
  <2>1. CASE Swap(t)
    BY <2>1 DEF Swap
  <2>2. CASE CloseMemtable(t) /\ ~setting.wal /\ ~IsEmptyTable(mt[st.mem].data)
    <3>1. CreateMemtable /\ st' = Frozen(st, nextId)
      BY <2>2 DEF CloseMemtable
    <3> QED BY <1>1, <3>1, CreateLeaves
  <2> QED BY <2>1, <2>2
<1>5. st'.imm = <<st.mem>> \o st.imm /\ st.imm \in Seq(Nat) /\ st.mem \in Nat
  BY <1>1, <1>4 DEF Frozen, StoreTyped, State
<1>6. Ids(st'.imm) = {st.mem} \cup Ids(st.imm) /\ st'.imm # <<>>
  <2>1. Ids(<<st.mem>> \o st.imm) = {st.mem} \cup Ids(st.imm) /\ Len(<<st.mem>> \o st.imm) = Len(st.imm) + 1
    BY <1>5, Prepended
  <2>2. Len(st.imm) \in Nat
    BY <1>5
  <2> QED BY <1>5, <2>1, <2>2
<1>7. ASSUME NEW i \in Ids(st'.imm) PROVE mt'[i].data # Nothing
  <2>1. i \in DOMAIN mt /\ mt[i].data # Nothing
    BY <1>1, <1>3, <1>6, <1>7 DEF Memtables, MemIds, FlushFit
  <2> QED BY <1>4, <2>1
<1>8. ASSUME NEW u \in Thread, at'[u] = "swap" PROVE FALSE
  <2>1. CASE Swap(t)
    <3>1. at[t] = "swap" /\ p # "swap"
      <4>1. at[t] = "swap" /\ (AfterRecord(t) \/ Goto(t, "ff.check", loc[t]))
        BY <2>1 DEF Swap
      <4>2. Goto(t, "idle", NoOp) \/ Goto(t, "insert", loc[t]) \/ Goto(t, "ff.check", loc[t])
        BY <4>1, AfterRecordGoes
      <4>3. at'[t] \in {"idle", "insert", "ff.check"}
        BY <1>1, <4>2, Moved
      <4> QED BY <1>2, <4>1, <4>3
    <3>2. u # t /\ at[u] = "swap"
      BY <1>2, <1>8, <3>1
    <3> QED BY <1>1, <3>1, <3>2, Alone DEF Holding
  <2>2. CASE t \in Client /\ CloseMemtable(t)
    <3>1. at[t] = "close.memtable" /\ (Goto(t, "close.drain", [op |-> "close"]) \/ Goto(t, "close.synced", [op |-> "close"]))
      BY <2>2 DEF CloseMemtable
    <3>2. at'[t] # "swap"
      <4>1. at'[t] \in {"close.drain", "close.synced"}
        BY <1>1, <3>1, Moved
      <4> QED BY <4>1
    <3>3. u # t /\ at[u] = "swap"
      BY <1>2, <1>8, <3>2
    <3>4. mode = "closing"
      BY <1>1, <2>2, <3>1, ClosedBy DEF ClosePlaces
    <3>5. loc[u] \in WriteLocals \cup [op : {"force_flush"}, new : Nat]
      BY <1>1, <3>3, LocalsOf
    <3>6. loc[u].op \in {"write", "force_flush"}
      BY <3>5 DEF WriteLocals
    <3>7. ThreadFits(u, at[u], loc[u]) /\ ModeFits(mode, u, at[u], loc[u])
      BY <1>1, PlaceOf
    <3>8. u \in Client
      BY <3>3, <3>7, ThreadsApart DEF ThreadFits
    <3> QED BY <3>4, <3>6, <3>7, <3>8 DEF ModeFits
  <2> QED BY <2>1, <2>2
<1>9. ASSUME NEW c \in Client PROVE loc'[c].op # "force_flush"
  <2>1. c \in Thread /\ loc[c].op # "force_flush"
    BY ThreadsApart DEF FlushFit
  <2>2. ~ForceFlush(t)
    <3>1. at[t] \in {"swap", "close.memtable"}
      BY DEF Swap, CloseMemtable
    <3> QED BY <3>1 DEF ForceFlush, Idle
  <2>3. CASE c = t
    BY <1>2, <2>1, <2>2, <2>3 DEF GoesTo
  <2>4. CASE c # t
    BY <1>2, <2>1, <2>4
  <2> QED BY <2>3, <2>4
<1> QED BY <1>6, <1>7, <1>8, <1>9 DEF FlushFit
\* A step that touches no memtable is none that makes one.
LEMMA QuietElsewhere ==
    ASSUME NEW t, QuietStep(t)
    PROVE  at[t] \notin {"ff.lock", "freeze"}
BY DEF QuietStep, Get, GetMemtable, GetOld, ReadReturns, Scan, ScanOpen, ScanNext, ScanEnd, ForceFlush,
   FullCompaction, Close, CloseJoin, CloseDrain, CloseEnd, ForceCheck, Apply, StopThread, FlushTick, CompactTick, Idle

\* A flush that is installed leaves nobody else at one.
LEMMA InstallFit ==
    ASSUME Engine, FlushFit, NEW t \in Thread, NEW p, NEW l, Goto(t, p, l), GoesTo(t, p, l), FlushInstall(t)
    PROVE  FlushFit'
<1>1. Control /\ Store /\ StoreTyped /\ Memtables
  BY DEF Engine, Store
<1>2. /\ at'[t] = p /\ loc'[t] = l
      /\ \A u \in Thread : u # t => at'[u] = at[u] /\ loc'[u] = loc[u]
  BY <1>1, Moved
<1>3. at[t] = "flush.install" /\ mt' = mt
  BY DEF FlushInstall
<1>4. st.imm # <<>> /\ loc[t].id = Last(st.imm)
  BY <1>1, <1>3, FlushOf
<1>5. st' = Flushed(st)
  BY <1>4 DEF FlushInstall
<1>6. st'.mem = st.mem /\ Ids(st'.imm) \subseteq Ids(st.imm)
  BY <1>1, <1>4, <1>5, FlushedIs
<1>7. p \notin {"flush", "swap"} /\ ~ForceFlush(t)
  <2>1. Goto(t, "close.drain", [op |-> "close"]) \/ Goto(t, "idle", NoOp)
    BY <1>4 DEF FlushInstall
  <2>2. at'[t] \in {"close.drain", "idle"}
    BY <1>1, <2>1, Moved
  <2> QED BY <1>2, <1>3, <2>2 DEF ForceFlush, Idle
<1>8. ASSUME NEW i \in Ids(st'.imm) PROVE mt'[i].data # Nothing
  BY <1>3, <1>6, <1>8 DEF FlushFit
<1>9. ASSUME NEW u \in Thread, at'[u] = "flush" PROVE FALSE
  <2>1. u # t /\ at[u] = "flush"
    BY <1>2, <1>7, <1>9
  <2> QED BY <1>1, <1>3, <2>1, OneFlushes
<1>10. ASSUME NEW u \in Thread, at'[u] = "swap" PROVE mt'[st'.mem].data # Nothing
  <2>1. at[u] = "swap"
    BY <1>2, <1>7, <1>10
  <2> QED BY <1>3, <1>6, <2>1 DEF FlushFit
<1>11. ASSUME NEW c \in Client PROVE loc'[c].op # "force_flush"
  <2>1. c \in Thread /\ loc[c].op # "force_flush"
    BY ThreadsApart DEF FlushFit
  <2>2. CASE c = t
    BY <1>2, <1>7, <2>1, <2>2 DEF GoesTo
  <2>3. CASE c # t
    BY <1>2, <2>1, <2>3
  <2> QED BY <2>2, <2>3
<1> QED BY <1>8, <1>9, <1>10, <1>11 DEF FlushFit

\* Who flushes finds something after every step that calls no force_flush.
LEMMA FlushFitStep ==
    ASSUME Engine, Engine', Sized, FlushFit, [Next]_vars, left'["flush"] = left["flush"]
    PROVE  FlushFit'
<1>1. Control /\ Control' /\ Store /\ StoreTyped /\ Memtables /\ setting \in Setting
  BY DEF Engine, Store, Control, Typed
<1>2. ASSUME NEW t \in Thread, QuietStep(t) \/ EngineStep(t) \/ (t \in Client /\ AppendRecord(t)) PROVE FlushFit'
  <2>1. PICK p, l : Goto(t, p, l) /\ GoesTo(t, p, l)
    BY <1>1, <1>2, StepGoes
  <2>2. CASE \/ Swap(t)
             \/ t \in Client /\ CloseMemtable(t) /\ ~setting.wal /\ ~IsEmptyTable(mt[st.mem].data)
    BY <2>1, <2>2, SwapFit
  <2>3. CASE FlushInstall(t)
    BY <2>1, <2>3, InstallFit
  <2>4. CASE QuietStep(t) \/ (t \in Client /\ AppendRecord(t))
    <3>1. st' = st /\ mt' = mt
      BY <2>4, QuietLeaves, AppendLeaves
    <3>2. p # "swap"
      <4>1. at[t] \notin {"ff.lock", "freeze"} \/ p # "swap"
        <5>1. CASE QuietStep(t)
          BY <5>1, QuietElsewhere
        <5>2. CASE t \in Client /\ AppendRecord(t)
          BY <5>2 DEF AppendRecord
        <5> QED BY <2>4, <5>1, <5>2
      <4>2. p = "swap" => at[t] \in {"ff.lock", "freeze"}
        BY <2>1 DEF GoesTo, ForceFreeze, TryFreeze
      <4> QED BY <4>1, <4>2
    <3> QED BY <1>1, <2>1, <3>1, <3>2, FlushFitStays
  <2>5. CASE \/ FlushBuild(t) \/ Merge(t) \/ Install(t) \/ RemoveInputs(t)
             \/ t \in Client /\ CloseMemtable(t) /\ (setting.wal \/ IsEmptyTable(mt[st.mem].data))
    <3>1. mt' = mt /\ st'.mem = st.mem /\ st'.imm = st.imm
      <4>1. CASE Install(t)
        BY <1>1, <4>1, InstallIs DEF Install
      <4>2. CASE ~Install(t)
        <5>1. st' = st /\ mt' = mt
          BY <2>5, <4>2 DEF FlushBuild, Merge, RemoveInputs, CloseMemtable
        <5> QED BY <5>1
      <4> QED BY <4>1, <4>2
    <3>2. p # "swap"
      <4>1. at[t] \notin {"ff.lock", "freeze"}
        BY <2>5 DEF FlushBuild, Merge, Install, RemoveInputs, CloseMemtable
      <4>2. p = "swap" => at[t] \in {"ff.lock", "freeze"}
        BY <2>1 DEF GoesTo, ForceFreeze, TryFreeze
      <4> QED BY <4>1, <4>2
    <3> QED BY <1>1, <2>1, <3>1, <3>2, FlushFitStays
  <2>6. CASE ForceFreeze(t)
    <3>1. t \in Client /\ loc[t].op = "force_flush"
      BY <1>1, <2>6, ForcedBy DEF ForceFreeze
    <3> QED BY <3>1 DEF FlushFit
  <2>7. CASE t \in Client /\ TryFreeze(t)
    <3>1. st' = st
      BY <2>7 DEF TryFreeze
    <3>2. CASE mt[st.mem].size >= setting.limit
      <4>1. CreateMemtable
        BY <2>7, <3>2 DEF TryFreeze
      <4>2. \A i \in DOMAIN mt : mt'[i] = mt[i]
        BY <1>1, <4>1, CreateLeaves
      <4>3. mt[st.mem].data # Nothing
        <5>1. st.mem \in DOMAIN mt /\ mt[st.mem].size \in Nat
          BY <1>1 DEF Memtables, MemIds, StoreTyped, Memtable
        <5>2. setting.limit \in Nat /\ setting.limit > 0
          BY <1>1 DEF Setting
        <5> QED BY <3>2, <5>1, <5>2 DEF Sized
      <4> QED BY <1>1, <2>1, <3>1, <4>2, <4>3, FlushFitStays
    <3>3. CASE ~(mt[st.mem].size >= setting.limit)
      <4>1. mt' = mt /\ AfterRecord(t)
        BY <2>7, <3>3 DEF TryFreeze
      <4>2. p # "swap"
        <5>1. Goto(t, "idle", NoOp) \/ Goto(t, "insert", loc[t])
          BY <4>1, AfterRecordGoes
        <5>2. at'[t] = p /\ at'[t] \in {"idle", "insert"}
          BY <1>1, <2>1, <5>1, Moved
        <5> QED BY <5>2
      <4> QED BY <1>1, <2>1, <3>1, <4>1, <4>2, FlushFitStays
    <3> QED BY <3>2, <3>3
  <2> QED BY <1>2, <2>2, <2>3, <2>4, <2>5, <2>6, <2>7 DEF EngineStep
<1>3. ASSUME NEW c \in Client, WriteBatch(c) \/ NextRecord(c) PROVE FlushFit'
  <2>1. PICK b : Inserts(c, b)
    BY <1>1, <1>3, InsertsOf
  <2>2. /\ st' = st /\ mt'[st.mem].data # Nothing
        /\ \A i \in DOMAIN mt : i # st.mem => mt'[i] = mt[i]
    BY <1>1, <2>1, InsertFills
  <2>3. PICK l : Goto(c, "append", l) /\ l.op = "write"
    BY <1>1, <2>1, InsertFills
  <2>4. at'[c] = "append" /\ loc'[c] = l /\ \A u \in Thread : u # c => at'[u] = at[u] /\ loc'[u] = loc[u]
    BY <1>1, <2>3, Moved, ThreadsApart
  <2>5. ASSUME NEW i \in Ids(st'.imm) PROVE mt'[i].data # Nothing
    <3>1. i \in DOMAIN mt /\ mt[i].data # Nothing
      BY <1>1, <2>2, <2>5 DEF Memtables, MemIds, FlushFit
    <3> QED BY <2>2, <3>1
  <2>6. \A d \in Client : loc'[d].op # "force_flush"
    <3> SUFFICES ASSUME NEW d \in Client PROVE loc'[d].op # "force_flush"
      OBVIOUS
    <3>1. d \in Thread /\ loc[d].op # "force_flush"
      BY ThreadsApart DEF FlushFit
    <3> QED BY <2>3, <2>4, <3>1
  <2>7. \A u \in Thread : at'[u] = "flush" => st'.imm # <<>>
    BY <2>2, <2>4 DEF FlushFit
  <2> QED BY <2>2, <2>5, <2>6, <2>7 DEF FlushFit
<1>4. ASSUME NEW c \in Client, Open(c) PROVE FlushFit'
  <2>1. CASE Opened.ok
    <3>1. /\ st' = Opened.s /\ mt' = OpenedMt(Opened)
          /\ \A t \in Thread : at'[t] \in {"idle", "stopped"} /\ loc'[t] = NoOp
      BY <1>1, <1>4, <2>1, OpenIs
    <3>2. Ids(Opened.s.imm) = IF setting.wal THEN Kept ELSE {}
      BY <1>1, <2>1, OpenedIs DEF Store
    <3>3. /\ Opened.mem \notin Ids(Opened.s.imm)
          /\ \A i \in Ids(Opened.s.imm) : OpenedMt(Opened)[i] = [data |-> Recovered(wal[i]), size |-> 0]
      BY <1>1, <2>1, OpenedReads DEF Store
    <3>4. ASSUME NEW i \in Ids(st'.imm) PROVE mt'[i].data # Nothing
      <4>1. i \in Ids(Opened.s.imm)
        BY <3>1, <3>4
      <4>2. i \in Kept
        BY <3>2, <4>1
      <4> DEFINE x == Recovered(wal[i])
                 m == OpenedMt(Opened)[i]
      <4>3. m.data = x
        <5>1. m = [data |-> x, size |-> 0]
          BY <3>3, <4>1
        <5> HIDE DEF m, x
        <5> QED BY <5>1
      <4>4. mt'[i].data = Recovered(wal[i])
        BY <3>1, <4>3
      <4> QED BY <4>2, <4>4 DEF Kept, IsEmptyTable
    <3>5. \A c2 \in Client : loc'[c2].op # "force_flush"
      BY <3>1, ThreadsApart DEF NoOp
    <3>6. \A t \in Thread : at'[t] # "flush" /\ at'[t] # "swap"
      BY <3>1
    <3> QED BY <3>4, <3>5, <3>6 DEF FlushFit
  <2>2. CASE ~Opened.ok
    <3>1. st' = st /\ mt' = mt /\ at' = at /\ loc' = loc
      BY <1>4, <2>2 DEF Open, engineVars, threadVars
    <3> QED BY <3>1 DEF FlushFit
  <2> QED BY <2>1, <2>2
<1>5. CASE UNCHANGED vars
  <2>1. st' = st /\ mt' = mt /\ at' = at /\ loc' = loc
    BY <1>5 DEF vars, engineVars, threadVars
  <2> QED BY <2>1 DEF FlushFit
<1> QED BY <1>1, <1>2, <1>3, <1>4, <1>5, NextSteps, ThreadsApart
-----------------------------------------------------------------------------
(* Panics.                                                                 *)

\* What must have been called before a thread panics for this cause.
Explained(cause) ==
    \/ cause = "nothing to flush" /\ left["flush"] < setting.calls["flush"]
    \/ cause = "inputs moved" /\ ~setting.simple /\ left["full"] + 2 <= setting.calls["full"]
    \/ cause = "empty table" /\ left["del"] < setting.calls["del"]

\* The inductive invariant for panics: as long as a call was not made, what it can upset is in order.
Guarded ==
    /\ Counted /\ Sized /\ Singly /\ NoneFull
    /\ left["del"] = setting.calls["del"] => NoneDeleted
    /\ left["flush"] = setting.calls["flush"] => FlushFit
    /\ \A t \in Thread : at[t] = "panicked" => Explained(loc[t].cause)

\* A panic has one of the three causes, and what explains it.
LEMMA PanicCauses ==
    ASSUME Engine, Guarded, [Next]_vars, NEW t \in Thread, NEW l, GoesTo(t, "panicked", l)
    PROVE  Explained(l.cause)'
<1>1. Control /\ Store /\ StoreTyped /\ Counted /\ Singly
  BY DEF Engine, Store, Guarded
<1>2. /\ setting' = setting /\ "flush" \in Calls /\ "full" \in Calls /\ "del" \in Calls
      /\ \A kind \in Calls : left'[kind] <= left[kind] /\ left[kind] \in Nat /\ left'[kind] \in Nat
                             /\ setting.calls[kind] \in Nat /\ left[kind] <= setting.calls[kind]
  BY <1>1, LeftFalls DEF Calls, Counted
<1>3. CASE /\ FlushBuild(t) /\ l.cause = "nothing to flush"
           /\ st.imm = <<>> \/ IsEmptyTable(mt[Last(st.imm)].data)
  <2>1. left["flush"] # setting.calls["flush"]
    <3> SUFFICES ASSUME FlushFit PROVE FALSE
      BY DEF Guarded
    <3>1. at[t] = "flush"
      BY <1>3 DEF FlushBuild
    <3>2. st.imm # <<>> /\ st.imm \in Seq(Nat)
      BY <1>1, <3>1 DEF FlushFit, StoreTyped, State
    <3>3. Last(st.imm) \in Ids(st.imm)
      BY <3>2, FrontOf
    <3> QED BY <1>3, <3>2, <3>3 DEF FlushFit, IsEmptyTable
  <2>2. left'["flush"] < setting'.calls["flush"]
    BY <1>2, <2>1
  <2> QED BY <1>3, <2>2 DEF Explained
<1>4. CASE Apply(t) /\ l.cause = "inputs moved" /\ ~InputsInPlace(st, loc[t].task)
  <2>1. t \in Compacting /\ at[t] = "apply"
    BY <1>4 DEF Apply, Compacting
  <2>2. ~OneFull
    BY <1>1, <1>4, <2>1 DEF Singly
  <2>3. ~setting'.simple /\ left'["full"] + 2 <= setting'.calls["full"]
    BY <1>2, <2>2 DEF OneFull
  <2> QED BY <1>4, <2>3 DEF Explained
<1>5. CASE Merge(t) /\ l.cause = "empty table" /\ Dead(MergeResult(t))
  <2>1. t \in Compacting
    BY <1>5, MergeIs DEF Compacting
  <2>2. left["del"] # setting.calls["del"]
    <3> SUFFICES ASSUME NoneDeleted PROVE FALSE
      BY DEF Guarded
    <3> DEFINE m == Merged(loc[t].task)
               bottom == loc[t].task.bottom
    <3>1. m \in Table /\ bottom \in BOOLEAN
      BY <1>1, <2>1, MergedEntries
    <3>2. \A k \in Key : m[k] >= 0
      BY <2>1, MergedNone
    <3>3. Dead(Built(m, bottom))
      BY <1>5 DEF MergeResult
    <3> HIDE DEF m, bottom
    <3>4. PICK k \in Key : m[k] < 0
      BY <3>1, <3>3, OutOfEntries
    <3>5. m[k] \in Int /\ m[k] >= 0
      BY <3>1, <3>2 DEF Table
    <3> QED BY <3>4, <3>5
  <2>3. left'["del"] < setting'.calls["del"]
    BY <1>2, <2>2
  <2> QED BY <1>5, <2>3 DEF Explained
<1> QED BY <1>3, <1>4, <1>5 DEF GoesTo

\* Every panic stays explained.
LEMMA ExplainedStep ==
    ASSUME Engine, Engine', Guarded, [Next]_vars
    PROVE  \A t \in Thread : at'[t] = "panicked" => Explained(loc[t].cause)'
<1>1. Control /\ Control' /\ Store /\ Counted
  BY DEF Engine, Guarded
<1>2. /\ setting' = setting /\ "flush" \in Calls /\ "full" \in Calls /\ "del" \in Calls
      /\ \A kind \in Calls : left'[kind] <= left[kind] /\ left[kind] \in Nat /\ left'[kind] \in Nat
                             /\ setting.calls[kind] \in Nat
  BY <1>1, LeftFalls DEF Calls
<1>3. ASSUME NEW u \in Thread, at[u] = "panicked", loc'[u] = loc[u] PROVE Explained(loc[u].cause)'
  <2>1. Explained(loc[u].cause)
    BY <1>3 DEF Guarded
  <2> DEFINE x == loc[u].cause
             y == loc'[u].cause
  <2>2. y = x
    BY <1>3
  <2>3. Explained(x)
    BY <2>1
  <2> HIDE DEF x, y
  <2>4. CASE x = "nothing to flush" /\ left["flush"] < setting.calls["flush"]
    <3>1. left'["flush"] < setting'.calls["flush"]
      <4>1. left["flush"] < setting.calls["flush"]
        BY <2>4
      <4> QED BY <1>2, <4>1
    <3> QED BY <2>2, <2>4, <3>1 DEF Explained, y
  <2>5. CASE x = "inputs moved" /\ ~setting.simple /\ left["full"] + 2 <= setting.calls["full"]
    <3>1. ~setting'.simple /\ left'["full"] + 2 <= setting'.calls["full"]
      <4>1. ~setting.simple /\ left["full"] + 2 <= setting.calls["full"]
        BY <2>5
      <4> QED BY <1>2, <4>1
    <3> QED BY <2>2, <2>5, <3>1 DEF Explained, y
  <2>6. CASE x = "empty table" /\ left["del"] < setting.calls["del"]
    <3>1. left'["del"] < setting'.calls["del"]
      <4>1. left["del"] < setting.calls["del"]
        BY <2>6
      <4> QED BY <1>2, <4>1
    <3> QED BY <2>2, <2>6, <3>1 DEF Explained, y
  <2> QED BY <2>3, <2>4, <2>5, <2>6 DEF Explained
<1> SUFFICES ASSUME NEW u \in Thread, at'[u] = "panicked" PROVE Explained(loc[u].cause)'
  OBVIOUS
<1>4. ASSUME NEW t \in Thread, QuietStep(t) \/ EngineStep(t) \/ (t \in Client /\ AppendRecord(t))
      PROVE  Explained(loc[u].cause)'
  <2>1. PICK p, l : Goto(t, p, l) /\ GoesTo(t, p, l)
    BY <1>1, <1>4, StepGoes
  <2>2. /\ at'[t] = p /\ loc'[t] = l
        /\ \A v \in Thread : v # t => at'[v] = at[v] /\ loc'[v] = loc[v]
    BY <1>1, <2>1, Moved
  <2>3. CASE u # t
    BY <1>3, <2>2, <2>3
  <2>4. CASE u = t
    <3>1. GoesTo(t, "panicked", l)
      BY <2>1, <2>2, <2>4
    <3>2. Explained(l.cause)'
      BY <3>1, PanicCauses
    <3>3. loc'[u].cause = l.cause
      BY <2>2, <2>4
    <3> DEFINE x == loc'[u].cause
               y == l.cause
    <3>4. Explained(y)' /\ x = y
      BY <3>2, <3>3
    <3> QED BY <3>4 DEF Explained
  <2> QED BY <2>3, <2>4
<1>5. ASSUME NEW c \in Client, WriteBatch(c) \/ NextRecord(c) PROVE Explained(loc[u].cause)'
  <2>1. PICK b : Inserts(c, b)
    BY <1>1, <1>5, InsertsOf
  <2>2. PICK l : Goto(c, "append", l)
    BY <2>1 DEF Inserts, Insert
  <2>3. at'[c] = "append" /\ \A v \in Thread : v # c => at'[v] = at[v] /\ loc'[v] = loc[v]
    BY <1>1, <2>2, Moved, ThreadsApart
  <2>4. at[u] = "panicked" /\ loc'[u] = loc[u]
    BY <2>3
  <2> QED BY <1>3, <2>4
<1>6. ASSUME NEW c \in Client, Open(c) PROVE Explained(loc[u].cause)'
  <2>1. CASE Opened.ok
    <3>1. at'[u] \in {"idle", "stopped"}
      BY <1>1, <1>6, <2>1, OpenIs
    <3> QED BY <3>1
  <2>2. CASE ~Opened.ok
    <3>1. at' = at /\ loc' = loc
      BY <1>6, <2>2 DEF Open, threadVars
    <3> QED BY <1>3, <3>1
  <2> QED BY <2>1, <2>2
<1>7. CASE UNCHANGED vars
  <2>1. at' = at /\ loc' = loc
    BY <1>7 DEF vars, threadVars
  <2> QED BY <1>3, <2>1
<1> QED BY <1>1, <1>4, <1>5, <1>6, <1>7, NextSteps, ThreadsApart

\* Each step keeps what guards against panics.
LEMMA GuardedStep ==
    ASSUME Engine, Guarded, [Next]_vars
    PROVE  Guarded'
<1>1. Engine' /\ Control
  BY EngineStepKeeps DEF Engine
<1>2. Counted /\ Sized /\ Singly /\ NoneFull
  BY DEF Guarded
<1>3. Counted'
  BY <1>1, <1>2, LeftFalls
<1>4. Sized'
  BY <1>2, SizedStep
<1>5. Singly' /\ NoneFull'
  BY <1>1, <1>2, SinglyStep
<1>6. "del" \in Calls /\ "flush" \in Calls
  BY DEF Calls
<1>7. ASSUME left'["del"] = setting'.calls["del"] PROVE NoneDeleted'
  <2>1. left["del"] = setting.calls["del"] /\ left'["del"] = left["del"]
    BY <1>1, <1>2, <1>6, <1>7, NotCalled
  <2>2. NoneDeleted
    BY <2>1 DEF Guarded
  <2> QED BY <2>1, <2>2, NoneDeletedStep
<1>8. ASSUME left'["flush"] = setting'.calls["flush"] PROVE FlushFit'
  <2>1. left["flush"] = setting.calls["flush"] /\ left'["flush"] = left["flush"]
    BY <1>1, <1>2, <1>6, <1>8, NotCalled
  <2>2. FlushFit
    BY <2>1 DEF Guarded
  <2> QED BY <1>1, <1>2, <2>1, <2>2, FlushFitStep
<1>9. \A t \in Thread : at'[t] = "panicked" => Explained(loc[t].cause)'
  BY <1>1, ExplainedStep
<1> QED BY <1>3, <1>4, <1>5, <1>7, <1>8, <1>9 DEF Guarded

\* A new engine has nothing to guard.
LEMMA GuardedInit ==
    ASSUME Init
    PROVE  Guarded
<1>1. /\ left = setting.calls /\ setting \in Setting /\ mt = [i \in {0} |-> EmptyMemtable]
      /\ sst = <<>> /\ at = [t \in Thread |-> Start(t)] /\ loc = [t \in Thread |-> NoOp]
      /\ st.imm = <<>> /\ (wal = <<>> \/ wal = [i \in {0} |-> <<>>])
  BY Week2Assumption DEF Init
<1>2. \A t \in Thread : at[t] \in {"idle", "stopped"} /\ loc[t].op = "none"
  BY <1>1 DEF Start, NoOp
<1>3. Counted
  <2>1. \A kind \in Calls : setting.calls[kind] \in Nat
    BY <1>1 DEF Setting
  <2> QED BY <1>1, <2>1 DEF Counted
<1>4. Sized
  BY <1>1 DEF Sized, EmptyMemtable
<1>5. Compacting = {}
  BY <1>2 DEF Compacting
<1>6. Singly /\ NoneFull
  BY <1>5 DEF Singly, NoneFull
<1>7. NoneDeleted
  <2>1. \A i \in DOMAIN mt, k \in Key : mt[i].data[k] >= 0
    BY <1>1 DEF EmptyMemtable, Nothing
  <2>2. \A i \in DOMAIN sst, k \in Key : sst[i][k] >= 0
    BY <1>1
  <2>3. \A i \in DOMAIN wal : \A n \in DOMAIN wal[i] : wal[i][n].e >= 0
    BY <1>1
  <2>4. \A c \in Client : loc[c].op # "write"
    BY <1>2, ThreadsApart
  <2> QED BY <2>1, <2>2, <2>3, <2>4 DEF NoneDeleted
<1>8. FlushFit
  <2>1. Ids(st.imm) = {}
    BY <1>1, IdsOf
  <2> QED BY <1>2, <2>1, ThreadsApart DEF FlushFit
<1> QED BY <1>2, <1>3, <1>4, <1>6, <1>7, <1>8 DEF Guarded

\* What guards against panics always holds.
THEOREM GuardedHolds == Spec => []Guarded
<1>1. Init => Guarded
  BY GuardedInit
<1>2. Engine /\ Guarded /\ [Next]_vars => Guarded'
  BY GuardedStep
<1> QED BY <1>1, <1>2, EngineHolds, PTL DEF Spec

\* Threads panic only for the causes that are known: force_flush on an emptied queue or an empty
\* memtable, two full compactions at once, and compactions of nothing but deletions.
THEOREM Panicking == Spec => []PanicsExplained
<1>1. Guarded => PanicsExplained
  <2> SUFFICES ASSUME Guarded, NEW t \in Thread, at[t] = "panicked"
               PROVE  CASE loc[t].cause = "nothing to flush" -> left["flush"] < setting.calls["flush"]
                        [] loc[t].cause = "inputs moved" -> ~setting.simple /\ left["full"] + 2 <= setting.calls["full"]
                        [] loc[t].cause = "empty table"  -> left["del"] < setting.calls["del"]
                        [] OTHER -> FALSE
    BY DEF PanicsExplained
  <2>1. Explained(loc[t].cause)
    BY DEF Guarded
  <2>2. "nothing to flush" # "inputs moved" /\ "nothing to flush" # "empty table" /\ "inputs moved" # "empty table"
    OBVIOUS
  <2> QED BY <2>1, <2>2 DEF Explained
<1> QED BY <1>1, GuardedHolds, PTL

-----------------------------------------------------------------------------
(* Which writes still stand.                                               *)

\* A record is between the memtable and the log.
Pending(c) == at[c] = "append"

\* Entries are written once: what is being appended was not done before, and what a
\* record replaces was done when it began.
EntriesFresh ==
    /\ done \in [Key -> SUBSET Entry] /\ stale \in [Key -> SUBSET Entry]
    /\ \A c \in Client : Pending(c) =>
          /\ loc[c].e # 0
          /\ loc[c].e \notin done[loc[c].k] \cup stale[loc[c].k]
          /\ loc[c].before \subseteq done[loc[c].k]
    /\ \A c, d \in Client : Pending(c) /\ Pending(d) /\ c # d => loc[c].e # loc[d].e

\* The entries for k that no later completed write replaced.
Standing(k) == done[k] \ stale[k]

\* The latest entry is not replaced, nor will a record under way replace it; it is
\* done or under way, and there is one once anything was written.
CurrentStands ==
    \A k \in Key :
        /\ current[k] \notin stale[k]
        /\ \A c \in Client : Pending(c) /\ loc[c].k = k => current[k] \notin loc[c].before
        /\ current[k] = 0 => done[k] = {} /\ \A c \in Client : ~(Pending(c) /\ loc[c].k = k)
        /\ \/ current[k] \in done[k] \/ current[k] = 0
           \/ \E c \in Client : Pending(c) /\ loc[c].k = k /\ loc[c].e = current[k]

\* What is known of the history of each key.
Fresh == EntriesFresh /\ CurrentStands

\* The records under way stay what they are.
PendingSame ==
    \A c \in Client : (Pending(c)' <=> Pending(c)) /\ (Pending(c) => loc'[c] = loc[c])

\* Only an insertion begins a record, and only an append ends it.
LEMMA AppendsNot ==
    ASSUME NEW t, QuietStep(t) \/ EngineStep(t)
    PROVE  at[t] # "append" /\ \E p, l : Goto(t, p, l) /\ p # "append"
<1> DEFINE G == at[t] # "append" /\ \E p, l : Goto(t, p, l) /\ p # "append"
<1> SUFFICES G
  OBVIOUS
<1>1. CASE TryFreeze(t) \/ Swap(t)
  <2>1. at[t] \in {"freeze", "swap"}
        /\ (\/ AfterRecord(t) \/ Goto(t, "ff.check", loc[t])
            \/ Goto(t, "swap", [loc[t] EXCEPT !.new = nextId]))
    BY <1>1 DEF TryFreeze, Swap, Goto
  <2>2. at[t] # "append"
    BY <2>1
  <2>3. \/ Goto(t, "idle", NoOp) \/ Goto(t, "insert", loc[t]) \/ Goto(t, "ff.check", loc[t])
        \/ Goto(t, "swap", [loc[t] EXCEPT !.new = nextId])
    BY <2>1, AfterRecordGoes
  <2> QED BY <2>2, <2>3
<1>2. CASE CloseMemtable(t)
  BY <1>2 DEF CloseMemtable
<1>3. CASE Get(t) \/ Scan(t)
  <2>1. at[t] = "idle" /\ \E p \in {"get.mem", "scan.open"} : \E l : Goto(t, p, l)
    BY <1>3 DEF Get, Scan, Idle
  <2> QED BY <2>1
<1>4. CASE ForceFlush(t) \/ ForceCheck(t)
  <2>1. at[t] \in {"idle", "ff.check"}
        /\ \E p \in {"ff.check", "ff.lock", "idle", "flush"} : \E l : Goto(t, p, l)
    BY <1>4 DEF ForceFlush, ForceCheck, Idle
  <2> QED BY <2>1
<1>5. CASE FullCompaction(t) \/ Close(t) \/ CloseDrain(t) \/ StopThread(t) \/ ForceFreeze(t)
  <2>1. /\ at[t] \in {"idle", "close.drain", "ff.lock"}
        /\ \/ Goto(t, "merge", [op |-> "compact", task |-> FullTask(st)])
           \/ Goto(t, "close.join_compactor", [op |-> "close"]) \/ Goto(t, "flush", [op |-> "close"])
           \/ Goto(t, "stopped", NoOp)
           \/ Goto(t, "swap", [op |-> "force_flush", new |-> nextId])
    BY <1>5 DEF FullCompaction, Close, CloseDrain, StopThread, ForceFreeze, Idle
  <2> QED BY <2>1
<1>6. CASE CloseJoin(t) \/ CloseEnd(t)
  <2>1. at[t] \in {"close.join_compactor", "close.join_flusher", "close.synced", "close.drain"}
        /\ \E p \in {"idle", "close.join_flusher", "close.memtable"} : \E l : Goto(t, p, l)
    BY <1>6 DEF CloseJoin, CloseEnd, CloseGives
  <2> QED BY <2>1
<1>7. CASE FlushBuild(t)
  <2>1. at[t] = "flush" /\ \E l : Goto(t, "panicked", l) \/ Goto(t, "flush.install", l)
    BY <1>7 DEF FlushBuild, Panic
  <2> QED BY <2>1
<1>8. CASE FlushInstall(t)
  <2>1. at[t] = "flush.install" /\ \E l : Goto(t, "panicked", l) \/ Goto(t, "close.drain", l) \/ Goto(t, "idle", l)
    BY <1>8 DEF FlushInstall, Panic
  <2> QED BY <2>1
<1>9. CASE Install(t) \/ RemoveInputs(t)
  BY <1>9 DEF Install, RemoveInputs
<1>10. CASE (t = Flusher /\ FlushTick) \/ (t = Compactor /\ CompactTick)
  BY <1>10 DEF FlushTick, CompactTick, Idle
<1>11. CASE Merge(t) \/ Apply(t)
  <2>1. at[t] \in {"merge", "apply"}
        /\ \E p \in {"panicked", "apply", "install"} : \E l : Goto(t, p, l)
    BY <1>11 DEF Merge, Apply, Panic
  <2> QED BY <2>1
<1>12. CASE GetMemtable(t) \/ GetOld(t) \/ ReadReturns(t)
  <2>1. at[t] \in {"get.mem", "get.old", "got", "scanned"}
        /\ \E p \in {"got", "get.old", "idle"} : \E l : Goto(t, p, l)
    BY <1>12 DEF GetMemtable, GetOld, ReadReturns
  <2> QED BY <2>1
<1>13. CASE ScanOpen(t) \/ ScanNext(t) \/ ScanEnd(t)
  BY <1>13 DEF ScanOpen, ScanNext, ScanEnd
<1> HIDE DEF G
<1> QED
  BY <1>1, <1>2, <1>3, <1>4, <1>5, <1>6, <1>7, <1>8, <1>9, <1>10, <1>11, <1>12, <1>13
  DEF QuietStep, EngineStep

\* The other steps leave the records under way alone.
LEMMA PendingStays ==
    ASSUME Control, NEW t \in Thread, QuietStep(t) \/ EngineStep(t)
    PROVE  PendingSame
<1>1. PICK p, l : Goto(t, p, l) /\ p # "append" /\ at[t] # "append"
  BY AppendsNot
<1>2. /\ at'[t] = p
      /\ \A u \in Thread : u # t => at'[u] = at[u] /\ loc'[u] = loc[u]
  BY <1>1, Moved
<1> QED BY <1>1, <1>2, ThreadsApart DEF PendingSame, Pending

\* Fresh is a matter of the history and of the records under way.
LEMMA FreshStays ==
    ASSUME Fresh, UNCHANGED <<writes, current, done, stale>>, PendingSame
    PROVE  Fresh'
<1>1. Entry' = Entry
  BY DEF Entry
<1>2. \A c \in Client : (Pending(c)' <=> Pending(c)) /\ (Pending(c) => loc'[c] = loc[c])
  BY DEF PendingSame
<1>3. current' = current /\ done' = done /\ stale' = stale
  OBVIOUS
<1>4. EntriesFresh'
  <2>1. done' \in [Key -> SUBSET Entry'] /\ stale' \in [Key -> SUBSET Entry']
    BY <1>1, <1>3 DEF Fresh, EntriesFresh
  <2>2. ASSUME NEW c \in Client, Pending(c)'
        PROVE  /\ loc'[c].e # 0 /\ loc'[c].e \notin done'[loc'[c].k] \cup stale'[loc'[c].k]
               /\ loc'[c].before \subseteq done'[loc'[c].k]
    BY <1>2, <1>3, <2>2 DEF Fresh, EntriesFresh
  <2>3. ASSUME NEW c \in Client, NEW d \in Client, Pending(c)', Pending(d)', c # d
        PROVE  loc'[c].e # loc'[d].e
    BY <1>2, <2>3 DEF Fresh, EntriesFresh
  <2> QED BY <2>1, <2>2, <2>3 DEF EntriesFresh
<1>5. CurrentStands'
  <2> SUFFICES ASSUME NEW k \in Key
               PROVE  /\ current'[k] \notin stale'[k]
                      /\ \A c \in Client : Pending(c)' /\ loc'[c].k = k => current'[k] \notin loc'[c].before
                      /\ current'[k] = 0 => done'[k] = {} /\ \A c \in Client : ~(Pending(c)' /\ loc'[c].k = k)
                      /\ \/ current'[k] \in done'[k] \/ current'[k] = 0
                         \/ \E c \in Client : Pending(c)' /\ loc'[c].k = k /\ loc'[c].e = current'[k]
    BY DEF CurrentStands
  <2>1. CurrentStands
    BY DEF Fresh
  <2> QED BY <1>2, <1>3, <2>1 DEF CurrentStands
<1> QED BY <1>4, <1>5 DEF Fresh

-----------------------------------------------------------------------------
(* Insertions and appends.                                                 *)

\* c inserts the entry e for the key x and goes on with the locals l.
InsertsEntry(c, x, e, l) ==
    /\ at[c] # "append" /\ Goto(c, "append", l) /\ l.k = x /\ l.e = e /\ l.before = done[x]
    /\ e # 0 /\ e \notin Entry /\ e \in -writes'..writes' /\ writes' = writes + 1
    /\ current' = [current EXCEPT ![x] = e]
    /\ mt'[st.mem].data = [mt[st.mem].data EXCEPT ![x] = e]
    /\ \A i \in Ids(st.imm) : mt'[i] = mt[i]
    /\ UNCHANGED <<st, wal, sst, done, stale, setting>>

\* That is what an insertion does.
LEMMA InsertsEntryOf ==
    ASSUME Control, Store, NEW c \in Client, NEW b, Inserts(c, b)
    PROVE  \E x \in Key, e \in Int : \E l : InsertsEntry(c, x, e, l)
<1> DEFINE e == IF b[1].del THEN -(writes + 1) ELSE writes + 1
           x == b[1].k
           l == [op |-> "write", todo |-> Tail(b), mem |-> st.mem, k |-> x,
                 e |-> e, before |-> done[x], new |-> 0]
<1>1. StoreTyped /\ Memtables
  BY DEF Store
<1>2. /\ mt' = [mt EXCEPT ![st.mem].data[x] = e, ![st.mem].size = @ + 1]
      /\ current' = [current EXCEPT ![x] = e] /\ writes' = writes + 1
      /\ Goto(c, "append", l)
      /\ UNCHANGED <<st, wal, sst, done, stale, setting>>
  BY DEF Inserts, Insert, diskVars
<1>3. x \in Key
  <2>1. b \in Seq(Record) /\ b # <<>>
    BY DEF Inserts
  <2>2. b[1] \in Record
    BY <2>1
  <2> QED BY <2>2 DEF Record
<1>4. e \in Int /\ e # 0 /\ e \notin Entry /\ e \in -(writes + 1)..(writes + 1)
  <2>1. writes \in Nat
    BY DEF Control, Typed
  <2> QED BY <2>1 DEF Entry
<1>5. at[c] # "append"
  BY DEF Inserts
<1>6. l.k = x /\ l.e = e /\ l.before = done[x]
  OBVIOUS
<1> HIDE DEF e, x, l
<1>7. st.mem \in DOMAIN mt /\ (\A i \in Ids(st.imm) : i \in DOMAIN mt /\ i # st.mem)
  <2>1. MemIds \subseteq DOMAIN mt /\ (\A i \in Ids(st.imm) : i < st.mem)
    BY <1>1 DEF Memtables
  <2>2. st \in State
    BY <1>1 DEF StoreTyped
  <2>3. st.mem \in Nat /\ Ids(st.imm) \subseteq Nat
    BY <2>2, TableIdsOf
  <2> QED BY <2>1, <2>2, <2>3 DEF MemIds
<1>8. mt'[st.mem].data = [mt[st.mem].data EXCEPT ![x] = e]
  <2>1. mt \in [DOMAIN mt -> Memtable]
    BY <1>1 DEF StoreTyped
  <2>2. mt[st.mem] \in Memtable
    BY <1>7, <2>1
  <2> QED BY <1>2, <1>7, <2>1, <2>2 DEF Memtable
<1>9. \A i \in Ids(st.imm) : mt'[i] = mt[i]
  BY <1>2, <1>7
<1>10. InsertsEntry(c, x, e, l)
  BY <1>2, <1>4, <1>5, <1>6, <1>8, <1>9 DEF InsertsEntry
<1> QED BY <1>3, <1>4, <1>10

\* The locals of a record under way.
LEMMA PendingOf ==
    ASSUME Control, Store, NEW c \in Client, Pending(c)
    PROVE  loc[c].k \in Key /\ loc[c].e \in Entry /\ loc[c].mem = st.mem /\ c \in Thread
<1>1. StoreTyped /\ Memtables /\ c \in Thread
  BY ThreadsApart DEF Store
<1>2. loc[c] \in WriteLocals
  BY <1>1, LocalsOf DEF Pending
<1>3. loc[c].k \in Key
  BY <1>2 DEF WriteLocals
<1> QED BY <1>1, <1>3 DEF StoreTyped, Memtables, Pending

\* A new entry is fresh.
LEMMA InsertFresh ==
    ASSUME Engine, Fresh, NEW c \in Client, NEW b, Inserts(c, b)
    PROVE  Fresh'
<1>1. Control /\ Store
  BY DEF Engine
<1>2. PICK x \in Key, e \in Int : \E l : InsertsEntry(c, x, e, l)
  BY <1>1, InsertsEntryOf
<1>3. PICK l : InsertsEntry(c, x, e, l)
  BY <1>2
<1>4. /\ at[c] # "append" /\ Goto(c, "append", l) /\ l.k = x /\ l.e = e /\ l.before = done[x]
      /\ e # 0 /\ e \notin Entry /\ e \in -writes'..writes' /\ writes' = writes + 1
      /\ current' = [current EXCEPT ![x] = e] /\ done' = done /\ stale' = stale
  BY <1>3 DEF InsertsEntry
<1>5. c \in Thread /\ Client \subseteq Thread
  BY ThreadsApart
<1>6. /\ at'[c] = "append" /\ loc'[c] = l
      /\ \A d \in Client : d # c => at'[d] = at[d] /\ loc'[d] = loc[d]
  BY <1>1, <1>4, <1>5, Moved
<1>7. \A d \in Client : Pending(d)' <=> d = c \/ Pending(d)
  BY <1>6 DEF Pending
<1>8. EntriesFresh /\ CurrentStands
  BY DEF Fresh
<1>9. done[x] \subseteq Entry /\ stale[x] \subseteq Entry
  BY <1>8 DEF EntriesFresh
<1>10. \A d \in Client : Pending(d) => loc[d].e \in Entry /\ loc[d].e # e /\ d # c
  BY <1>1, <1>4, PendingOf DEF Pending
<1>11. EntriesFresh'
  <2>1. Entry \subseteq Entry'
    <3>1. writes \in Nat
      BY <1>1 DEF Control, Typed
    <3> QED BY <1>4, <3>1 DEF Entry
  <2>2. done' \in [Key -> SUBSET Entry'] /\ stale' \in [Key -> SUBSET Entry']
    <3> DEFINE E == Entry'
    <3>1. Entry \subseteq E
      BY <2>1
    <3> HIDE DEF E
    <3>2. done \in [Key -> SUBSET E] /\ stale \in [Key -> SUBSET E]
      BY <1>8, <3>1 DEF EntriesFresh
    <3> QED BY <1>4, <3>2 DEF E
  <2>3. ASSUME NEW d \in Client, Pending(d)'
        PROVE  /\ loc'[d].e # 0 /\ loc'[d].e \notin done'[loc'[d].k] \cup stale'[loc'[d].k]
               /\ loc'[d].before \subseteq done'[loc'[d].k]
    <3>1. CASE d = c
      BY <1>4, <1>6, <1>9, <3>1
    <3>2. CASE d # c
      <4>1. Pending(d) /\ loc'[d] = loc[d]
        BY <1>6, <1>7, <2>3, <3>2
      <4> QED BY <1>4, <1>8, <4>1 DEF EntriesFresh
    <3> QED BY <3>1, <3>2
  <2>4. ASSUME NEW d \in Client, NEW f \in Client, Pending(d)', Pending(f)', d # f
        PROVE  loc'[d].e # loc'[f].e
    <3>1. CASE d = c
      <4>1. Pending(f) /\ loc'[f] = loc[f] /\ loc'[d] = l
        BY <1>6, <1>7, <2>4, <3>1
      <4> QED BY <1>4, <1>10, <4>1
    <3>2. CASE f = c
      <4>1. Pending(d) /\ loc'[d] = loc[d] /\ loc'[f] = l
        BY <1>6, <1>7, <2>4, <3>2
      <4> QED BY <1>4, <1>10, <4>1
    <3>3. CASE d # c /\ f # c
      <4>1. Pending(d) /\ Pending(f) /\ loc'[d] = loc[d] /\ loc'[f] = loc[f]
        BY <1>6, <1>7, <2>4, <3>3
      <4> QED BY <1>8, <2>4, <4>1 DEF EntriesFresh
    <3> QED BY <3>1, <3>2, <3>3
  <2> QED BY <2>2, <2>3, <2>4 DEF EntriesFresh
<1>12. CurrentStands'
  <2> SUFFICES ASSUME NEW k \in Key
               PROVE  /\ current'[k] \notin stale'[k]
                      /\ \A d \in Client : Pending(d)' /\ loc'[d].k = k => current'[k] \notin loc'[d].before
                      /\ current'[k] = 0 => done'[k] = {} /\ \A d \in Client : ~(Pending(d)' /\ loc'[d].k = k)
                      /\ \/ current'[k] \in done'[k] \/ current'[k] = 0
                         \/ \E d \in Client : Pending(d)' /\ loc'[d].k = k /\ loc'[d].e = current'[k]
    BY DEF CurrentStands
  <2>1. current \in [Key -> Entry]
    BY DEF Engine, CurrentTyped
  <2>2. CASE k = x
    <3>1. current'[k] = e
      BY <1>4, <2>1, <2>2
    <3>2. \A d \in Client : Pending(d)' /\ loc'[d].k = k => loc'[d].before \subseteq Entry
      <4> SUFFICES ASSUME NEW d \in Client, Pending(d)', loc'[d].k = k PROVE loc'[d].before \subseteq Entry
        OBVIOUS
      <4>1. CASE d = c
        BY <1>4, <1>6, <1>9, <4>1
      <4>2. CASE d # c
        <5>1. Pending(d) /\ loc'[d] = loc[d]
          BY <1>6, <1>7, <4>2
        <5>2. loc[d].before \subseteq done[k]
          BY <1>8, <5>1 DEF EntriesFresh
        <5> QED BY <1>9, <2>2, <5>1, <5>2
      <4> QED BY <4>1, <4>2
    <3>3. Pending(c)' /\ loc'[c].k = k /\ loc'[c].e = current'[k]
      BY <1>4, <1>6, <1>7, <2>2, <3>1
    <3> QED BY <1>4, <1>9, <2>2, <3>1, <3>2, <3>3
  <2>3. CASE k # x
    <3>1. current'[k] = current[k] /\ done' = done /\ stale' = stale
      BY <1>4, <2>1, <2>3
    <3>2. \A d \in Client : /\ Pending(d)' /\ loc'[d].k = k => Pending(d) /\ loc'[d] = loc[d]
                            /\ Pending(d) => Pending(d)' /\ loc'[d] = loc[d]
      BY <1>4, <1>6, <1>7, <1>10, <2>3
    <3> QED BY <1>8, <3>1, <3>2 DEF CurrentStands
  <2> QED BY <2>2, <2>3
<1> QED BY <1>11, <1>12 DEF Fresh

\* c ends its record.
AppendsEntry(c, x, e) ==
    /\ Pending(c) /\ ~Pending(c)' /\ loc[c].k = x /\ loc[c].e = e
    /\ \A d \in Client : d # c => at'[d] = at[d] /\ loc'[d] = loc[d]
    /\ done'  = [done  EXCEPT ![x] = @ \cup {e}]
    /\ stale' = [stale EXCEPT ![x] = @ \cup loc[c].before]
    /\ wal' = IF setting.wal THEN [wal EXCEPT ![st.mem] = Append(@, [k |-> x, e |-> e])] ELSE wal
    /\ UNCHANGED <<st, mt, sst, current, writes, setting>>

\* That is what an append does.
LEMMA AppendsEntryOf ==
    ASSUME Control, Store, NEW c \in Client, AppendRecord(c)
    PROVE  \E x \in Key, e \in Entry : AppendsEntry(c, x, e)
<1> DEFINE x == loc[c].k
           e == loc[c].e
<1>1. at[c] = "append" /\ Pending(c)
  BY DEF AppendRecord, Pending
<1>2. x \in Key /\ e \in Entry /\ loc[c].mem = st.mem /\ c \in Thread /\ Client \subseteq Thread
  BY <1>1, PendingOf, ThreadsApart
<1>3. \E p, l : Goto(c, p, l) /\ p # "append"
  <2>1. \/ Goto(c, "freeze", loc[c]) \/ AfterRecord(c)
    BY DEF AppendRecord
  <2>2. \/ Goto(c, "freeze", loc[c]) \/ Goto(c, "idle", NoOp) \/ Goto(c, "insert", loc[c])
    BY <2>1, AfterRecordGoes
  <2> QED BY <2>2
<1>4. PICK p, l : Goto(c, p, l) /\ p # "append"
  BY <1>3
<1>5. at'[c] = p /\ \A d \in Thread : d # c => at'[d] = at[d] /\ loc'[d] = loc[d]
  BY <1>2, <1>4, Moved
<1>6. ~Pending(c)'
  BY <1>4, <1>5 DEF Pending
<1>7. /\ done'  = [done  EXCEPT ![x] = @ \cup {e}]
      /\ stale' = [stale EXCEPT ![x] = @ \cup loc[c].before]
      /\ wal' = IF setting.wal THEN [wal EXCEPT ![st.mem] = Append(@, [k |-> x, e |-> e])] ELSE wal
      /\ UNCHANGED <<st, mt, sst, current, writes, setting>>
  BY <1>2 DEF AppendRecord
<1>8. AppendsEntry(c, x, e)
  BY <1>1, <1>2, <1>5, <1>6, <1>7 DEF AppendsEntry
<1> QED BY <1>2, <1>8

\* What is done stands, and replaces what was done when it began.
LEMMA AppendFresh ==
    ASSUME Engine, Fresh, NEW c \in Client, NEW x \in Key, NEW e \in Entry, AppendsEntry(c, x, e)
    PROVE  Fresh'
<1> DEFINE before == loc[c].before
<1>1. /\ Pending(c) /\ ~Pending(c)' /\ loc[c].k = x /\ loc[c].e = e
      /\ \A d \in Client : d # c => at'[d] = at[d] /\ loc'[d] = loc[d]
      /\ done'  = [done  EXCEPT ![x] = @ \cup {e}]
      /\ stale' = [stale EXCEPT ![x] = @ \cup before]
      /\ current' = current /\ writes' = writes
  BY DEF AppendsEntry
<1>2. EntriesFresh /\ CurrentStands
  BY DEF Fresh
<1>3. done \in [Key -> SUBSET Entry] /\ stale \in [Key -> SUBSET Entry] /\ Entry' = Entry
  BY <1>1, <1>2 DEF EntriesFresh, Entry
<1>4. e # 0 /\ e \notin done[x] \cup stale[x] /\ before \subseteq done[x]
  BY <1>1, <1>2 DEF EntriesFresh
<1>5. \A d \in Client : Pending(d)' <=> d # c /\ Pending(d)
  BY <1>1 DEF Pending
<1>6. /\ \A k \in Key : done'[k] = IF k = x THEN done[k] \cup {e} ELSE done[k]
      /\ \A k \in Key : stale'[k] = IF k = x THEN stale[k] \cup before ELSE stale[k]
  BY <1>1, <1>3
<1> HIDE DEF before
<1>7. EntriesFresh'
  <2>1. done' \in [Key -> SUBSET Entry'] /\ stale' \in [Key -> SUBSET Entry']
    <3>1. done[x] \cup {e} \subseteq Entry /\ stale[x] \cup before \subseteq Entry
      BY <1>3, <1>4
    <3>2. [done  EXCEPT ![x] = @ \cup {e}] \in [Key -> SUBSET Entry]
      BY <1>3, <3>1
    <3>3. [stale  EXCEPT ![x] = @ \cup before] \in [Key -> SUBSET Entry]
      BY <1>3, <3>1
    <3> QED BY <1>1, <1>3, <3>2, <3>3
  <2>2. ASSUME NEW d \in Client, Pending(d)'
        PROVE  /\ loc'[d].e # 0 /\ loc'[d].e \notin done'[loc'[d].k] \cup stale'[loc'[d].k]
               /\ loc'[d].before \subseteq done'[loc'[d].k]
    <3>1. d # c /\ Pending(d) /\ loc'[d] = loc[d] /\ loc[d].k \in Key
      BY <1>1, <1>5, <2>2, PendingOf DEF Engine
    <3>2. /\ loc[d].e # 0 /\ loc[d].e \notin done[loc[d].k] \cup stale[loc[d].k]
          /\ loc[d].before \subseteq done[loc[d].k] /\ loc[d].e # e
      BY <1>1, <1>2, <3>1 DEF EntriesFresh
    <3> DEFINE k == loc[d].k
    <3>3. /\ done'[k] = IF k = x THEN done[k] \cup {e} ELSE done[k]
          /\ stale'[k] = IF k = x THEN stale[k] \cup before ELSE stale[k]
      BY <1>6, <3>1
    <3> HIDE DEF k
    <3>4. loc[d].e \notin done'[k] /\ done[k] \subseteq done'[k]
      BY <3>2, <3>3 DEF k
    <3>5. loc[d].e \notin stale'[k]
      <4>1. CASE k = x
        BY <1>4, <3>2, <3>3, <4>1 DEF k
      <4>2. CASE k # x
        BY <3>2, <3>3, <4>2 DEF k
      <4> QED BY <4>1, <4>2
    <3> QED BY <3>1, <3>2, <3>4, <3>5 DEF k
  <2>3. ASSUME NEW d \in Client, NEW f \in Client, Pending(d)', Pending(f)', d # f
        PROVE  loc'[d].e # loc'[f].e
    BY <1>1, <1>2, <1>5, <2>3 DEF EntriesFresh
  <2> QED BY <2>1, <2>2, <2>3 DEF EntriesFresh
<1>8. CurrentStands'
  <2> SUFFICES ASSUME NEW k \in Key
               PROVE  /\ current'[k] \notin stale'[k]
                      /\ \A d \in Client : Pending(d)' /\ loc'[d].k = k => current'[k] \notin loc'[d].before
                      /\ current'[k] = 0 => done'[k] = {} /\ \A d \in Client : ~(Pending(d)' /\ loc'[d].k = k)
                      /\ \/ current'[k] \in done'[k] \/ current'[k] = 0
                         \/ \E d \in Client : Pending(d)' /\ loc'[d].k = k /\ loc'[d].e = current'[k]
    BY DEF CurrentStands
  <2>1. /\ current[k] \notin stale[k]
        /\ \A d \in Client : Pending(d) /\ loc[d].k = k => current[k] \notin loc[d].before
        /\ current[k] = 0 => done[k] = {} /\ \A d \in Client : ~(Pending(d) /\ loc[d].k = k)
        /\ \/ current[k] \in done[k] \/ current[k] = 0
           \/ \E d \in Client : Pending(d) /\ loc[d].k = k /\ loc[d].e = current[k]
    BY <1>2 DEF CurrentStands
  <2>2. \A d \in Client : Pending(d)' => Pending(d) /\ loc'[d] = loc[d]
    BY <1>1, <1>5
  <2>3. \A d \in Client : Pending(d) /\ d # c => Pending(d)' /\ loc'[d] = loc[d]
    BY <1>1, <1>5
  <2>4. CASE k = x
    <3>1. current[k] \notin before /\ current[k] # 0
      BY <1>1, <2>1, <2>4 DEF before
    <3>2. current[k] \in done'[k] \/ \E d \in Client : Pending(d)' /\ loc'[d].k = k /\ loc'[d].e = current[k]
      <4>1. CASE current[k] \in done[k]
        BY <1>6, <2>4, <4>1
      <4>2. ASSUME NEW d \in Client, Pending(d), loc[d].k = k, loc[d].e = current[k]
            PROVE  current[k] \in done'[k] \/ (Pending(d)' /\ loc'[d].k = k /\ loc'[d].e = current[k])
        <5>1. CASE d = c
          BY <1>1, <1>6, <2>4, <4>2, <5>1
        <5>2. CASE d # c
          BY <2>3, <4>2, <5>2
        <5> QED BY <5>1, <5>2
      <4> QED BY <2>1, <3>1, <4>1, <4>2
    <3> QED BY <1>1, <1>6, <2>1, <2>2, <2>4, <3>1, <3>2
  <2>5. CASE k # x
    <3>1. done'[k] = done[k] /\ stale'[k] = stale[k]
      BY <1>6, <2>5
    <3>2. \A d \in Client : Pending(d) /\ loc[d].k = k => Pending(d)' /\ loc'[d] = loc[d]
      BY <1>1, <2>3, <2>5
    <3> QED BY <1>1, <2>1, <2>2, <3>1, <3>2
  <2> QED BY <2>4, <2>5
<1> QED BY <1>7, <1>8 DEF Fresh

\* An engine that was opened has nothing under way; what it reads stands.
LEMMA OpenFresh ==
    ASSUME Engine, Fresh, NEW c \in Client, Open(c), Opened.ok
    PROVE  Fresh' /\ \A d \in Client : ~Pending(d)'
<1>1. Control /\ Store
  BY DEF Engine
<1>2. /\ current' = [k \in Key |-> OpenedEntry(Opened, k)]
      /\ done'  = [k \in Key |-> {OpenedEntry(Opened, k)} \ {0}]
      /\ stale' = [k \in Key |-> (stale[k] \cup done[k]) \ {OpenedEntry(Opened, k)}]
      /\ writes' = writes
      /\ \A t \in Thread : at'[t] \in {"idle", "stopped"} /\ loc'[t] = NoOp
  BY <1>1, OpenIs
<1>3. \A d \in Client : ~Pending(d)'
  BY <1>2, ThreadsApart DEF Pending
<1>4. Entry' = Entry
  BY <1>2 DEF Entry
<1>5. \A k \in Key : OpenedEntry(Opened, k) \in Entry
  BY <1>1, OpenedEntries
<1>6. done \in [Key -> SUBSET Entry] /\ stale \in [Key -> SUBSET Entry]
  BY DEF Fresh, EntriesFresh
<1>7. done' \in [Key -> SUBSET Entry'] /\ stale' \in [Key -> SUBSET Entry']
  BY <1>2, <1>4, <1>5, <1>6
<1>8. EntriesFresh'
  BY <1>3, <1>7 DEF EntriesFresh
<1>9. CurrentStands'
  <2> SUFFICES ASSUME NEW k \in Key
               PROVE  /\ current'[k] \notin stale'[k]
                      /\ current'[k] = 0 => done'[k] = {}
                      /\ current'[k] \in done'[k] \/ current'[k] = 0
    BY <1>3 DEF CurrentStands
  <2> QED BY <1>2
<1> QED BY <1>3, <1>8, <1>9 DEF Fresh

-----------------------------------------------------------------------------
(* What the logs hold.                                                     *)

\* What recovery finds in a log.
Logged(i) == Recovered(wal[i])

\* A log of a younger memtable has the key.
NewerLogged(i, k) == \E j \in MemIds : j > i /\ Logged(j)[k] # 0

\* A record of k is between the memtable and its log.
UnderWay(k) == \E c \in Client : Pending(c) /\ loc[c].k = k

\* The youngest log that has a key holds a write that stands; so does its memtable once
\* it is frozen.  Memtables and logs have the same keys, but for records under way, and
\* the current memtable holds the latest entries.
LogsStand(k) ==
    /\ \A i \in MemIds : Logged(i)[k] # 0 /\ ~NewerLogged(i, k) => Logged(i)[k] \in Standing(k)
    /\ \A i \in Ids(st.imm) :
          /\ Logged(i)[k] = 0 <=> mt[i].data[k] = 0
          /\ Logged(i)[k] # 0 /\ ~NewerLogged(i, k) => mt[i].data[k] \in Standing(k)
    /\ mt[st.mem].data[k] # 0 => mt[st.mem].data[k] = current[k]
    /\ mt[st.mem].data[k] # 0 <=> Logged(st.mem)[k] # 0 \/ UnderWay(k)

\* The SSTs hold a write that stands for every key that no log has.
TablesStand(k) ==
    (\A i \in MemIds : Logged(i)[k] = 0) =>
        Visible(StoredIn(sst, st, k)) \in IF done[k] = {} THEN {0} ELSE Shown(Standing(k))

\* What the next open will read stands, with logs.
Stands == setting.wal => \A k \in Key : LogsStand(k) /\ TablesStand(k)

\* They hold on where neither memtables and logs nor what is stored change.
LEMMA StandsStay ==
    ASSUME NEW k, LogsStand(k), TablesStand(k), PendingSame,
           st'.mem = st.mem, st'.imm = st.imm,
           \A i \in MemIds : mt'[i].data = mt[i].data /\ wal'[i] = wal[i],
           UNCHANGED <<current, done, stale>>,
           Visible(StoredIn(sst', st', k)) = Visible(StoredIn(sst, st, k))
    PROVE  LogsStand(k)' /\ TablesStand(k)'
<1>1. MemIds' = MemIds
  BY DEF MemIds
<1>2. \A i \in MemIds : Logged(i)' = Logged(i)
  BY DEF Logged
<1>3. \A i \in MemIds : NewerLogged(i, k)' <=> NewerLogged(i, k)
  BY <1>1, <1>2 DEF NewerLogged
<1>4. Standing(k)' = Standing(k)
  BY DEF Standing
<1>5. UnderWay(k)' <=> UnderWay(k)
  BY DEF UnderWay, PendingSame
<1>6. st.mem \in MemIds /\ Ids(st.imm) \subseteq MemIds
  BY DEF MemIds
<1>7. LogsStand(k)'
  <2>1. ASSUME NEW i \in MemIds', Logged(i)'[k] # 0, ~NewerLogged(i, k)'
        PROVE  Logged(i)'[k] \in Standing(k)'
    BY <1>1, <1>2, <1>3, <1>4, <2>1 DEF LogsStand
  <2>2. ASSUME NEW i \in Ids(st'.imm)
        PROVE  /\ Logged(i)'[k] = 0 <=> mt'[i].data[k] = 0
               /\ Logged(i)'[k] # 0 /\ ~NewerLogged(i, k)' => mt'[i].data[k] \in Standing(k)'
    <3>1. i \in MemIds /\ i \in Ids(st.imm)
      BY <1>6, <2>2
    <3>2. mt'[i].data = mt[i].data
      BY <3>1
    <3> QED BY <1>2, <1>3, <1>4, <3>1, <3>2 DEF LogsStand
  <2>3. mt'[st'.mem].data = mt[st.mem].data /\ current' = current /\ Logged(st.mem)' = Logged(st.mem)
    BY <1>2, <1>6 DEF Logged
  <2>4. /\ mt'[st'.mem].data[k] # 0 => mt'[st'.mem].data[k] = current'[k]
        /\ mt'[st'.mem].data[k] # 0 <=> Logged(st.mem)'[k] # 0 \/ UnderWay(k)'
    BY <1>5, <2>3 DEF LogsStand
  <2> QED BY <2>1, <2>2, <2>4 DEF LogsStand
<1>8. TablesStand(k)'
  <2>1. done' = done
    OBVIOUS
  <2> QED BY <1>1, <1>2, <1>4, <2>1 DEF TablesStand
<1> QED BY <1>7, <1>8

\* Memtables by age, and their logs.
LEMMA LogsOf ==
    ASSUME Store, setting.wal
    PROVE  /\ st.mem \in MemIds /\ Ids(st.imm) \subseteq MemIds /\ MemIds \subseteq DOMAIN wal
           /\ MemIds \subseteq DOMAIN mt /\ MemIds \subseteq Nat /\ st.mem \in Nat
           /\ \A i \in Ids(st.imm) : i < st.mem
           /\ \A i \in MemIds : Logged(i) \in Table /\ mt[i].data \in Table
           /\ wal \in [DOMAIN wal -> Seq(LogRecord)]
<1>1. StoreTyped /\ Memtables /\ LogsKept
  BY DEF Store
<1>2. st \in State
  BY <1>1 DEF StoreTyped
<1>3. st.mem \in Nat /\ Ids(st.imm) \subseteq Nat
  BY <1>2, TableIdsOf
<1>4. MemIds \subseteq DOMAIN wal /\ MemIds \subseteq DOMAIN mt /\ \A i \in Ids(st.imm) : i < st.mem
  BY <1>1 DEF LogsKept, Memtables
<1>5. \A i \in MemIds : Logged(i) \in Table
  BY <1>1, <1>4, LogOf DEF Logged
<1>6. \A i \in MemIds : mt[i].data \in Table
  BY <1>1, <1>4 DEF StoreTyped, Memtable
<1>7. wal \in [DOMAIN wal -> Seq(LogRecord)]
  BY <1>1 DEF StoreTyped, LogRecord
<1> QED BY <1>3, <1>4, <1>5, <1>6, <1>7 DEF MemIds

\* An entry enters the memtable before its log.
LEMMA InsertStands ==
    ASSUME Control, Store, NEW k \in Key, LogsStand(k), TablesStand(k), setting.wal,
           NEW c \in Client, NEW x \in Key, NEW e \in Int, NEW l, InsertsEntry(c, x, e, l),
           current \in [Key -> Entry]
    PROVE  LogsStand(k)' /\ TablesStand(k)'
<1>1. /\ at[c] # "append" /\ Goto(c, "append", l) /\ l.k = x
      /\ e # 0 /\ current' = [current EXCEPT ![x] = e]
      /\ mt'[st.mem].data = [mt[st.mem].data EXCEPT ![x] = e]
      /\ \A i \in Ids(st.imm) : mt'[i] = mt[i]
      /\ st' = st /\ wal' = wal /\ sst' = sst /\ done' = done /\ stale' = stale
  BY DEF InsertsEntry
<1>2. /\ at'[c] = "append" /\ loc'[c] = l
      /\ \A d \in Client : d # c => at'[d] = at[d] /\ loc'[d] = loc[d]
  BY <1>1, ThreadsApart, Moved
<1>3. MemIds' = MemIds /\ Standing(k)' = Standing(k)
  BY <1>1 DEF MemIds, Standing
<1>4. \A i : Logged(i)' = Logged(i)
  BY <1>1 DEF Logged
<1>5. \A i : NewerLogged(i, k)' <=> NewerLogged(i, k)
  BY <1>3, <1>4 DEF NewerLogged
<1>6. mt[st.mem].data \in Table
  BY LogsOf
<1>7. /\ mt'[st.mem].data[k] # 0 => mt'[st.mem].data[k] = current'[k]
      /\ mt'[st.mem].data[k] # 0 <=> Logged(st.mem)[k] # 0 \/ UnderWay(k)'
  <2>1. CASE k = x
    <3>1. mt'[st.mem].data[k] = e /\ current'[k] = e
      BY <1>1, <1>6, <2>1 DEF Table
    <3>2. UnderWay(k)'
      BY <1>1, <1>2, <2>1 DEF UnderWay, Pending
    <3> QED BY <1>1, <3>1, <3>2
  <2>2. CASE k # x
    <3>1. mt'[st.mem].data[k] = mt[st.mem].data[k] /\ current'[k] = current[k]
      BY <1>1, <1>6, <2>2 DEF Table
    <3>2. UnderWay(k)' <=> UnderWay(k)
      BY <1>1, <1>2, <2>2 DEF UnderWay, Pending
    <3> QED BY <3>1, <3>2 DEF LogsStand
  <2> QED BY <2>1, <2>2
<1>8. LogsStand(k)'
  <2>1. \A i \in MemIds' : Logged(i)'[k] # 0 /\ ~NewerLogged(i, k)' => Logged(i)'[k] \in Standing(k)'
    BY <1>3, <1>4, <1>5 DEF LogsStand
  <2>2. \A i \in Ids(st'.imm) :
           /\ Logged(i)'[k] = 0 <=> mt'[i].data[k] = 0
           /\ Logged(i)'[k] # 0 /\ ~NewerLogged(i, k)' => mt'[i].data[k] \in Standing(k)'
    BY <1>1, <1>3, <1>4, <1>5 DEF LogsStand
  <2>3. /\ mt'[st'.mem].data[k] # 0 => mt'[st'.mem].data[k] = current'[k]
        /\ mt'[st'.mem].data[k] # 0 <=> Logged(st.mem)'[k] # 0 \/ UnderWay(k)'
    BY <1>1, <1>4, <1>7
  <2> QED BY <2>1, <2>2, <2>3 DEF LogsStand
<1>9. TablesStand(k)'
  BY <1>1, <1>3, <1>4 DEF TablesStand
<1> QED BY <1>8, <1>9

\* What is appended stands and is younger than what other logs hold.
LEMMA AppendStands ==
    ASSUME Engine, Fresh, NEW k \in Key, LogsStand(k), TablesStand(k), setting.wal,
           NEW c \in Client, NEW x \in Key, NEW e \in Entry, AppendsEntry(c, x, e)
    PROVE  LogsStand(k)' /\ TablesStand(k)'
<1> DEFINE before == loc[c].before
<1>1. /\ Pending(c) /\ ~Pending(c)' /\ loc[c].k = x /\ loc[c].e = e
      /\ \A d \in Client : d # c => at'[d] = at[d] /\ loc'[d] = loc[d]
      /\ done'  = [done  EXCEPT ![x] = @ \cup {e}]
      /\ stale' = [stale EXCEPT ![x] = @ \cup before]
      /\ wal' = [wal EXCEPT ![st.mem] = Append(@, [k |-> x, e |-> e])]
      /\ st' = st /\ mt' = mt /\ sst' = sst /\ current' = current
  BY DEF AppendsEntry
<1>2. /\ done \in [Key -> SUBSET Entry] /\ stale \in [Key -> SUBSET Entry]
      /\ e # 0 /\ e \notin done[x] \cup stale[x] /\ before \subseteq done[x]
  BY <1>1 DEF Fresh, EntriesFresh
<1>3. /\ st.mem \in MemIds /\ Ids(st.imm) \subseteq MemIds /\ MemIds \subseteq DOMAIN wal
      /\ MemIds \subseteq Nat /\ st.mem \in Nat /\ \A i \in Ids(st.imm) : i < st.mem
      /\ wal \in [DOMAIN wal -> Seq(LogRecord)]
  BY LogsOf DEF Engine
<1>4. MemIds' = MemIds
  BY <1>1 DEF MemIds
<1>5. \A i \in MemIds : i # st.mem => Logged(i)' = Logged(i)
  BY <1>1, <1>3 DEF Logged
<1>6. Logged(st.mem)'[k] = IF k = x THEN e ELSE Logged(st.mem)[k]
  <2>1. wal'[st.mem] = Append(wal[st.mem], [k |-> x, e |-> e])
    BY <1>1, <1>3
  <2>2. wal[st.mem] \in Seq(LogRecord) /\ [k |-> x, e |-> e] \in LogRecord
    <3>1. e \in Int
      BY DEF Entry
    <3> QED BY <1>3, <3>1 DEF LogRecord
  <2>3. Recovered(Append(wal[st.mem], [k |-> x, e |-> e]))[k] = IF k = x THEN e ELSE Recovered(wal[st.mem])[k]
    BY <2>2, RecoveredNext
  <2> QED BY <1>1, <2>1, <2>3 DEF Logged
<1>9. \A i \in MemIds : i = st.mem => Logged(i)'[k] = IF k = x THEN e ELSE Logged(i)[k]
  BY <1>1, <1>6 DEF Logged
<1> HIDE DEF before
<1>7. CASE k = x
  <2>1. e \in Standing(k)'
    BY <1>1, <1>2, <1>7 DEF Standing
  <2>2. Logged(st.mem)'[k] = e
    BY <1>6, <1>7
  <2>3. \A i \in Ids(st.imm) : NewerLogged(i, k)'
    BY <1>2, <1>3, <1>4, <1>7, <1>9 DEF NewerLogged
  <2>4. mt[st.mem].data[k] # 0
    BY <1>1, <1>7 DEF LogsStand, UnderWay
  <2>5. LogsStand(k)'
    <3>1. \A i \in MemIds' : Logged(i)'[k] # 0 /\ ~NewerLogged(i, k)' => Logged(i)'[k] \in Standing(k)'
      BY <1>4, <1>7, <1>9, <2>1, <2>3 DEF MemIds
    <3>2. \A i \in Ids(st'.imm) :
             /\ Logged(i)'[k] = 0 <=> mt'[i].data[k] = 0
             /\ Logged(i)'[k] # 0 /\ ~NewerLogged(i, k)' => mt'[i].data[k] \in Standing(k)'
      <4> SUFFICES ASSUME NEW i \in Ids(st.imm) PROVE Logged(i)'[k] = 0 <=> mt[i].data[k] = 0
        BY <1>1, <2>3
      <4>1. i \in MemIds /\ i # st.mem
        BY <1>3
      <4>2. Logged(i)' = Logged(i)
        BY <1>5, <4>1
      <4> QED BY <4>2 DEF LogsStand
    <3>3. /\ mt'[st'.mem].data[k] # 0 => mt'[st'.mem].data[k] = current'[k]
          /\ mt'[st'.mem].data[k] # 0 <=> Logged(st.mem)'[k] # 0 \/ UnderWay(k)'
      BY <1>1, <1>2, <2>2, <2>4 DEF LogsStand
    <3> QED BY <3>1, <3>2, <3>3 DEF LogsStand
  <2>6. TablesStand(k)'
    BY <1>2, <1>3, <1>4, <1>7, <1>9 DEF TablesStand
  <2> QED BY <2>5, <2>6
<1>8. CASE k # x
  <2>1. Standing(k)' = Standing(k) /\ done'[k] = done[k]
    BY <1>1, <1>2, <1>8 DEF Standing
  <2>2. \A i \in MemIds : Logged(i)'[k] = Logged(i)[k]
    BY <1>5, <1>8, <1>9
  <2>3. \A i \in MemIds : NewerLogged(i, k)' <=> NewerLogged(i, k)
    BY <1>4, <2>2 DEF NewerLogged
  <2>4. UnderWay(k)' <=> UnderWay(k)
    BY <1>1, <1>8 DEF UnderWay, Pending
  <2>5. LogsStand(k)'
    <3>1. \A i \in MemIds' : Logged(i)'[k] # 0 /\ ~NewerLogged(i, k)' => Logged(i)'[k] \in Standing(k)'
      BY <1>4, <2>1, <2>2, <2>3 DEF LogsStand
    <3>2. \A i \in Ids(st'.imm) :
             /\ Logged(i)'[k] = 0 <=> mt'[i].data[k] = 0
             /\ Logged(i)'[k] # 0 /\ ~NewerLogged(i, k)' => mt'[i].data[k] \in Standing(k)'
      BY <1>1, <1>3, <2>1, <2>2, <2>3 DEF LogsStand
    <3>3. /\ mt'[st'.mem].data[k] # 0 => mt'[st'.mem].data[k] = current'[k]
          /\ mt'[st'.mem].data[k] # 0 <=> Logged(st.mem)'[k] # 0 \/ UnderWay(k)'
      BY <1>1, <1>3, <2>2, <2>4 DEF LogsStand
    <3> QED BY <3>1, <3>2, <3>3 DEF LogsStand
  <2>6. TablesStand(k)'
    <3>1. StoredIn(sst', st', k) = StoredIn(sst, st, k)
      BY <1>1
    <3> QED BY <1>4, <2>1, <2>2, <3>1 DEF TablesStand
  <2> QED BY <2>5, <2>6
<1> QED BY <1>7, <1>8

\* With nothing under way the memtable holds writes that stand, and may be frozen.
LEMMA SwapStands ==
    ASSUME Engine, Fresh, NEW k \in Key, LogsStand(k), TablesStand(k), setting.wal,
           NEW i \in Nat, i > st.mem, st' = Frozen(st, i), ~UnderWay(k), ~UnderWay(k)',
           wal' = wal, wal[i] = <<>>, mt' = mt, mt[i] = EmptyMemtable,
           Visible(StoredIn(sst', st', k)) = Visible(StoredIn(sst, st, k)),
           UNCHANGED <<current, done, stale>>
    PROVE  LogsStand(k)' /\ TablesStand(k)'
<1>1. Store
  BY DEF Engine
<1>2. /\ st.mem \in MemIds /\ Ids(st.imm) \subseteq MemIds
      /\ MemIds \subseteq Nat /\ st.mem \in Nat /\ \A j \in Ids(st.imm) : j < st.mem
  BY <1>1, LogsOf
<1>3. st'.mem = i /\ Ids(st'.imm) = MemIds /\ MemIds' = MemIds \cup {i}
  BY <1>1, FrozenIs
<1>4. \A j : Logged(j)' = Logged(j)
  BY DEF Logged
<1>5. Logged(i)[k] = 0 /\ mt[i].data[k] = 0
  BY RecoveredNext DEF Logged, EmptyMemtable, Nothing
<1>6. \A j : NewerLogged(j, k)' <=> NewerLogged(j, k)
  BY <1>3, <1>4, <1>5 DEF NewerLogged
<1>7. Standing(k)' = Standing(k)
  BY DEF Standing
<1>8. mt[st.mem].data[k] # 0 => mt[st.mem].data[k] \in Standing(k)
  <2>1. CurrentStands
    BY DEF Fresh
  <2>2. \A c \in Client : ~(Pending(c) /\ loc[c].k = k)
    BY DEF UnderWay
  <2>3. current[k] # 0 => current[k] \in done[k] /\ current[k] \notin stale[k]
    BY <2>1, <2>2 DEF CurrentStands
  <2> QED BY <2>3 DEF LogsStand, Standing
<1>9. mt[st.mem].data[k] # 0 <=> Logged(st.mem)[k] # 0
  BY DEF LogsStand
<1>10. \A j \in MemIds : j = st.mem \/ j \in Ids(st.imm)
  BY DEF MemIds
<1>11. LogsStand(k)'
  <2>1. \A j \in MemIds' : Logged(j)'[k] # 0 /\ ~NewerLogged(j, k)' => Logged(j)'[k] \in Standing(k)'
    BY <1>3, <1>4, <1>5, <1>6, <1>7 DEF LogsStand
  <2>2. \A j \in Ids(st'.imm) :
           /\ Logged(j)'[k] = 0 <=> mt'[j].data[k] = 0
           /\ Logged(j)'[k] # 0 /\ ~NewerLogged(j, k)' => mt'[j].data[k] \in Standing(k)'
    BY <1>3, <1>4, <1>6, <1>7, <1>8, <1>9, <1>10 DEF LogsStand
  <2>3. /\ mt'[st'.mem].data[k] = 0
        /\ Logged(st.mem)'[k] = 0
    BY <1>3, <1>5 DEF Logged
  <2> QED BY <2>1, <2>2, <2>3 DEF LogsStand
<1>12. TablesStand(k)'
  <2>1. (\A j \in MemIds' : Logged(j)'[k] = 0) => \A j \in MemIds : Logged(j)[k] = 0
    BY <1>3, <1>4
  <2> QED BY <1>7, <2>1 DEF TablesStand
<1> QED BY <1>11, <1>12

\* The oldest memtable gives way to its table, which is then the youngest.
LEMMA FlushStands ==
    ASSUME Store, Store', NEW k \in Key, LogsStand(k), TablesStand(k), setting.wal,
           st.imm # <<>>, st' = Flushed(st), mt' = mt, sst' = sst,
           sst[Last(st.imm)] = mt[Last(st.imm)].data,
           \A j \in MemIds : j # Last(st.imm) => wal'[j] = wal[j],
           PendingSame, UNCHANGED <<current, done, stale>>
    PROVE  LogsStand(k)' /\ TablesStand(k)'
<1> DEFINE i == Last(st.imm)
           e == mt[i].data[k]
<1>1. /\ st'.mem = st.mem /\ i \in Nat /\ i < st.mem
      /\ Ids(st.imm) = Ids(st'.imm) \cup {i} /\ i \notin Ids(st'.imm)
      /\ MemIds = MemIds' \cup {i} /\ i \notin MemIds'
      /\ \A j \in Ids(st'.imm) : j > i
  BY FlushedIs
<1>2. StoredIn(sst, st', k) = Or(e, StoredIn(sst, st, k)) /\ e \in Int
  BY FlushStored
<1>3. \A j \in MemIds : j # i => wal'[j] = wal[j]
  OBVIOUS
<1> HIDE DEF i
<1>4. \A j \in MemIds' : Logged(j)' = Logged(j)
  BY <1>1, <1>3 DEF Logged
<1>5. /\ st.mem \in MemIds /\ Ids(st.imm) \subseteq MemIds /\ MemIds \subseteq Nat
  BY LogsOf
<1>6. \A j \in MemIds' : j > i
  <2>1. \A j \in MemIds' : j = st'.mem \/ j \in Ids(st'.imm)
    BY DEF MemIds
  <2> QED BY <1>1, <2>1
<1>7. \A j \in MemIds' : NewerLogged(j, k)' <=> NewerLogged(j, k)
  <2>1. ASSUME NEW j \in MemIds' PROVE NewerLogged(j, k)' <=> NewerLogged(j, k)
    <3>1. ~(i > j) /\ j \in Nat
      BY <1>1, <1>5, <1>6
    <3> QED BY <1>1, <1>4, <3>1 DEF NewerLogged
  <2> QED BY <2>1
<1>8. Standing(k)' = Standing(k)
  BY DEF Standing
<1>9. UnderWay(k)' <=> UnderWay(k)
  BY DEF UnderWay, PendingSame
<1>10. st'.mem \in MemIds' /\ Ids(st'.imm) \subseteq MemIds' /\ i \in MemIds /\ i \in Ids(st.imm)
  BY <1>1, <1>5 DEF MemIds
<1>11. LogsStand(k)'
  <2>1. \A j \in MemIds' : Logged(j)'[k] # 0 /\ ~NewerLogged(j, k)' => Logged(j)'[k] \in Standing(k)'
    BY <1>1, <1>4, <1>7, <1>8 DEF LogsStand
  <2>2. \A j \in Ids(st'.imm) :
           /\ Logged(j)'[k] = 0 <=> mt'[j].data[k] = 0
           /\ Logged(j)'[k] # 0 /\ ~NewerLogged(j, k)' => mt'[j].data[k] \in Standing(k)'
    BY <1>1, <1>4, <1>7, <1>8, <1>10 DEF LogsStand
  <2>3. wal'[st'.mem] = wal[st.mem]
    BY <1>1, <1>3, <1>5, <1>10
  <2>4. Logged(st.mem)' = Logged(st.mem)
    BY <2>3 DEF Logged
  <2>5. /\ mt'[st'.mem].data[k] # 0 => mt'[st'.mem].data[k] = current'[k]
        /\ mt'[st'.mem].data[k] # 0 <=> Logged(st.mem)'[k] # 0 \/ UnderWay(k)'
    BY <1>1, <1>9, <2>4 DEF LogsStand
  <2> QED BY <2>1, <2>2, <2>5 DEF LogsStand
<1>12. TablesStand(k)'
  <2> SUFFICES ASSUME \A j \in MemIds' : Logged(j)'[k] = 0
               PROVE  Visible(StoredIn(sst, st', k)) \in IF done[k] = {} THEN {0} ELSE Shown(Standing(k))
    BY <1>8 DEF TablesStand
  <2>1. \A j \in MemIds' : Logged(j)[k] = 0
    BY <1>4
  <2>2. ~NewerLogged(i, k)
    BY <1>1, <1>5, <2>1 DEF NewerLogged
  <2>3. (Logged(i)[k] = 0 <=> e = 0) /\ (Logged(i)[k] # 0 => e \in Standing(k))
    BY <1>10, <2>2 DEF LogsStand
  <2>4. CASE e = 0
    <3>1. StoredIn(sst, st', k) = StoredIn(sst, st, k)
      BY <1>2, <2>4 DEF Or
    <3>2. \A j \in MemIds : Logged(j)[k] = 0
      BY <1>1, <2>1, <2>3, <2>4
    <3> QED BY <3>1, <3>2 DEF TablesStand
  <2>5. CASE e # 0
    <3>1. StoredIn(sst, st', k) = e /\ e \in Standing(k)
      BY <1>2, <2>3, <2>5 DEF Or
    <3>2. done[k] # {}
      BY <3>1 DEF Standing
    <3> HIDE DEF e
    <3> QED BY <3>1, <3>2 DEF Shown
  <2> QED BY <2>4, <2>5
<1> QED BY <1>11, <1>12

-----------------------------------------------------------------------------
(* Open.                                                                   *)

\* What an opened engine reads is in the youngest log that has the key, or is stored.
LEMMA OpenedLogs ==
    ASSUME Control, Store, Opened.ok, NEW k \in Key
    PROVE  /\ Ids(Opened.s.imm) = (IF setting.wal THEN Kept ELSE {}) /\ Ids(Opened.s.imm) \subseteq Nat
           /\ \A i \in Ids(Opened.s.imm) :
                 Logged(i)[k] # 0 /\ (\A j \in Ids(Opened.s.imm) : j > i => Logged(j)[k] = 0)
                    => OpenedEntry(Opened, k) = Logged(i)[k]
           /\ (\A i \in Ids(Opened.s.imm) : Logged(i)[k] = 0) => OpenedEntry(Opened, k) = StoredIn(sst, st, k)
<1> DEFINE imm == Opened.s.imm
           m   == OpenedMt(Opened)
           T   == ImmOf(m, imm)
<1>1. StoreTyped /\ TablesHeld /\ Replays
  BY DEF Store
<1>2. /\ Opened.s \in State /\ Opened.s.l0 = st.l0 /\ Opened.s.levels = st.levels
      /\ Ids(imm) = (IF setting.wal THEN Kept ELSE {})
      /\ \A p, q \in DOMAIN imm : p < q => imm[p] > imm[q]
  BY <1>1, OpenedIs
<1>3. /\ Backed(m, sst, Opened.s)
      /\ \A i \in Ids(imm) : m[i] = [data |-> Recovered(wal[i]), size |-> 0]
      /\ OpenedEntry(Opened, k) = Behind(m, sst, Opened.s, k)
  BY <1>1, OpenedReads
<1>4. imm \in Seq(Nat) /\ Ids(imm) \subseteq Nat
  BY <1>2, TableIdsOf
<1>5. \A i \in Ids(imm) : m[i].data = Logged(i)
  <2>1. \A i \in Ids(imm) : m[i] = [data |-> Recovered(wal[i]), size |-> 0]
    BY <1>3
  <2> HIDE DEF m, imm
  <2> SUFFICES ASSUME NEW i \in Ids(imm) PROVE m[i].data = Logged(i)
    OBVIOUS
  <2> DEFINE d == Recovered(wal[i])
  <2>2. m[i] = [data |-> d, size |-> 0]
    BY <2>1
  <2> HIDE DEF d
  <2>3. m[i].data = d
    BY <2>2
  <2> QED BY <2>3 DEF Logged, d
<1>6. StoredIn(sst, Opened.s, k) = StoredIn(sst, st, k)
  BY <1>2 DEF StoredIn
<1>7. OpenedEntry(Opened, k) = Or(Newest(T, k), StoredIn(sst, st, k))
  BY <1>3, <1>6 DEF Behind
<1>8. T \in Seq(Table) /\ Len(T) = Len(imm) /\ Len(imm) \in Nat
  BY <1>3, ImmOfType DEF Backed
<1>9. \A p \in 1..Len(imm) : T[p][k] = Logged(imm[p])[k] /\ imm[p] \in Ids(imm)
  <2>1. \A p \in 1..Len(imm) : imm[p] \in Ids(imm)
    BY DEF Ids
  <2>2. \A p \in 1..Len(imm) : T[p] = m[imm[p]].data
    BY DEF ImmOf
  <2> HIDE DEF T, m, imm
  <2> QED BY <1>5, <2>1, <2>2
<1>10. DOMAIN imm = 1..Len(imm)
  BY <1>4
<1>11. Ids(imm) = {imm[p] : p \in DOMAIN imm}
  BY <1>4, IdsOf
<1> HIDE DEF T, m, imm
<1>12. \A i \in Ids(imm) :
          Logged(i)[k] # 0 /\ (\A j \in Ids(imm) : j > i => Logged(j)[k] = 0)
             => OpenedEntry(Opened, k) = Logged(i)[k]
  <2> SUFFICES ASSUME NEW i \in Ids(imm), Logged(i)[k] # 0, \A j \in Ids(imm) : j > i => Logged(j)[k] = 0
               PROVE  OpenedEntry(Opened, k) = Logged(i)[k]
    OBVIOUS
  <2>1. PICK p \in 1..Len(imm) : imm[p] = i
    BY <1>10, <1>11
  <2>2. T[p][k] = Logged(i)[k] /\ T[p][k] # 0
    BY <1>9, <2>1
  <2>3. \A q \in 1..Len(T) : q < p => T[q][k] = 0
    <3> SUFFICES ASSUME NEW q \in 1..Len(T), q < p PROVE T[q][k] = 0
      OBVIOUS
    <3>1. q \in 1..Len(imm)
      BY <1>8
    <3>2. imm[q] > i
      BY <1>2, <1>10, <2>1, <3>1
    <3> QED BY <1>9, <3>1, <3>2
  <2>4. p \in 1..Len(T)
    BY <1>8
  <2>5. Newest(T, k) = T[p][k]
    BY <1>8, <2>2, <2>3, <2>4, NewestOf
  <2> QED BY <1>7, <2>2, <2>5 DEF Or
<1>13. ASSUME \A i \in Ids(imm) : Logged(i)[k] = 0
       PROVE  OpenedEntry(Opened, k) = StoredIn(sst, st, k)
  <2>1. \A p \in 1..Len(T) : T[p][k] = 0
    BY <1>8, <1>9, <1>13
  <2>2. Newest(T, k) = 0
    BY <1>8, <2>1, NewestOf
  <2> QED BY <1>7, <2>2 DEF Or
<1> QED BY <1>2, <1>4, <1>12, <1>13 DEF imm

\* The logs of the opened engine are those that hold something, and an empty one.
LEMMA OpenStands ==
    ASSUME Engine, Engine', NEW k \in Key, setting.wal, NEW c \in Client, Open(c), Opened.ok,
           ~UnderWay(k)'
    PROVE  LogsStand(k)' /\ TablesStand(k)'
<1> DEFINE J == Ids(Opened.s.imm)
           e == OpenedEntry(Opened, k)
<1>1. Control /\ Store /\ StoreTyped /\ TablesHeld /\ Replays
  BY DEF Engine, Store
<1>2. /\ st' = Opened.s /\ mt' = OpenedMt(Opened) /\ wal' = With(wal, Opened.mem, <<>>)
      /\ current'[k] = e /\ done'[k] = {e} \ {0}
      /\ stale'[k] = (stale[k] \cup done[k]) \ {e} /\ sst' = sst
  BY <1>1, OpenIs
<1>3. /\ Opened.s.mem = Opened.mem /\ Opened.mem \in Nat
      /\ Opened.s.l0 = st.l0 /\ Opened.s.levels = st.levels
  BY <1>1, OpenedIs
<1>4. Opened.mem \notin J
      /\ \A i \in J : i \in DOMAIN wal /\ OpenedMt(Opened)[i] = [data |-> Recovered(wal[i]), size |-> 0]
  BY <1>1, OpenedReads
<1>5. J \subseteq Nat
      /\ (\A i \in J : Logged(i)[k] # 0 /\ (\A j \in J : j > i => Logged(j)[k] = 0) => e = Logged(i)[k])
      /\ ((\A i \in J : Logged(i)[k] = 0) => e = StoredIn(sst, st, k))
  BY <1>1, OpenedLogs
<1>6. MemIds' = J \cup {Opened.mem} /\ Ids(st'.imm) = J /\ st'.mem = Opened.mem
  BY <1>2, <1>3 DEF MemIds
<1> HIDE DEF J, e
<1>7. \A i \in J : wal'[i] = wal[i] /\ mt'[i].data = Recovered(wal[i])
  <2>1. \A i \in J : wal'[i] = wal[i]
    BY <1>2, <1>4 DEF With
  <2>2. \A i \in J : mt'[i] = [data |-> Recovered(wal[i]), size |-> 0]
    BY <1>2, <1>4
  <2>3. ASSUME NEW i \in J PROVE mt'[i].data = Recovered(wal[i])
    <3> DEFINE d == Recovered(wal[i])
    <3>1. mt'[i] = [data |-> d, size |-> 0]
      BY <2>2
    <3> HIDE DEF d
    <3>2. mt'[i].data = d
      BY <3>1
    <3> QED BY <3>2 DEF d
  <2> QED BY <2>1, <2>3
<1>8. wal'[Opened.mem] = <<>> /\ mt'[Opened.mem].data = Nothing
  <2>1. mt'[Opened.mem] = EmptyMemtable
    BY <1>2 DEF OpenedMt
  <2> QED BY <1>2, <2>1 DEF With, EmptyMemtable
<1>9. \A i \in J : Logged(i)' = Logged(i) /\ mt'[i].data = Logged(i)
  BY <1>7 DEF Logged
<1>10. \A i \in MemIds' : i = Opened.mem => Logged(i)'[k] = 0
  BY <1>8, RecoveredNext DEF Logged, Nothing
<1>11. Standing(k)' = {e} \ {0}
  BY <1>2 DEF Standing
<1>12. \A i \in J : Logged(i)[k] # 0 /\ ~NewerLogged(i, k)' => Logged(i)[k] = e
  <2> SUFFICES ASSUME NEW i \in J, Logged(i)[k] # 0, ~NewerLogged(i, k)' PROVE Logged(i)[k] = e
    OBVIOUS
  <2>1. \A j \in J : j > i => Logged(j)'[k] = 0
    BY <1>6 DEF NewerLogged
  <2>2. \A j \in J : j > i => Logged(j)[k] = 0
    BY <1>9, <2>1
  <2> QED BY <1>5, <2>2
<1>13. LogsStand(k)'
  <2>1. \A i \in MemIds' : Logged(i)'[k] # 0 /\ ~NewerLogged(i, k)' => Logged(i)'[k] \in Standing(k)'
    <3> SUFFICES ASSUME NEW i \in MemIds', Logged(i)'[k] # 0, ~NewerLogged(i, k)'
                 PROVE  Logged(i)'[k] \in Standing(k)'
      OBVIOUS
    <3>1. i \in J
      BY <1>6, <1>10
    <3>2. Logged(i)'[k] = Logged(i)[k]
      BY <1>9, <3>1
    <3> QED BY <1>11, <1>12, <3>1, <3>2
  <2>2. \A i \in Ids(st'.imm) :
           /\ Logged(i)'[k] = 0 <=> mt'[i].data[k] = 0
           /\ Logged(i)'[k] # 0 /\ ~NewerLogged(i, k)' => mt'[i].data[k] \in Standing(k)'
    BY <1>6, <1>9, <1>11, <1>12
  <2>3. mt'[st'.mem].data[k] = 0 /\ Logged(st.mem)'[k] = 0
    BY <1>6, <1>8, RecoveredNext DEF Logged, Nothing
  <2> QED BY <2>1, <2>2, <2>3 DEF LogsStand
<1>14. TablesStand(k)'
  <2> SUFFICES ASSUME \A i \in MemIds' : Logged(i)'[k] = 0
               PROVE  Visible(StoredIn(sst', st', k)) \in IF done'[k] = {} THEN {0} ELSE Shown(Standing(k)')
    BY DEF TablesStand
  <2>1. \A i \in J : Logged(i)[k] = 0
    BY <1>6, <1>9
  <2>2. e = StoredIn(sst, st, k)
    BY <1>5, <2>1
  <2>3. StoredIn(sst', st', k) = e
    BY <1>2, <1>3, <2>2 DEF StoredIn
  <2>4. CASE e = 0
    <3>1. Visible(StoredIn(sst', st', k)) = 0
      BY <2>3, <2>4 DEF Visible
    <3> QED BY <1>2, <2>4, <3>1
  <2>5. CASE e # 0
    <3>1. done'[k] # {} /\ e \in Standing(k)'
      BY <1>2, <1>11, <2>5
    <3> QED BY <2>3, <3>1 DEF Shown
  <2> QED BY <2>4, <2>5
<1> QED BY <1>13, <1>14

-----------------------------------------------------------------------------
(* Every step keeps what stands.                                           *)

\* What is stored reads the same while the state names the same tables.
LEMMA StoredSame ==
    ASSUME Control, Store, [Next]_vars, st' = st
    PROVE  \A k : StoredIn(sst', st', k) = StoredIn(sst, st, k)
<1>1. \A i \in TableIds(st) : sst'[i] = sst[i]
  BY HeldSame, HeldHas
<1>2. st \in State
  BY DEF Store, StoreTyped
<1> DEFINE g == sst'
<1>3. \A i \in TableIds(st) : g[i] = sst[i]
  BY <1>1
<1> HIDE DEF g
<1>4. \A k : StoredIn(g, st, k) = StoredIn(sst, st, k)
  BY <1>2, <1>3, BehindSame
<1> QED BY <1>4 DEF g

\* Nothing is under way while somebody holds the write guard of state.
LEMMA NoneUnderWay ==
    ASSUME Control, NEW t \in Thread, QuietStep(t) \/ EngineStep(t), ~GuardHeld
    PROVE  \A k : ~UnderWay(k) /\ ~UnderWay(k)'
<1>1. \A c \in Client : ~Pending(c)
  BY DEF GuardHeld, Pending
<1>2. \A c \in Client : ~Pending(c)'
  BY <1>1, PendingStays DEF PendingSame
<1> QED BY <1>1, <1>2 DEF UnderWay

\* Steps of flush and compaction.
LEMMA EngineStands ==
    ASSUME Contented, Engine', Fresh, [Next]_vars, NEW t \in Thread, EngineStep(t),
           setting.wal, NEW k \in Key, LogsStand(k), TablesStand(k)
    PROVE  LogsStand(k)' /\ TablesStand(k)'
<1>1. Engine /\ Control /\ Store /\ Store' /\ StoreTyped /\ Memtables /\ LogsKept /\ Faithfuls
  BY DEF Engine, Store, Contented
<1>2. PendingSame /\ UNCHANGED <<current, done, stale>>
  BY <1>1, PendingStays, EngineLeaves
<1>3. MemIds \subseteq DOMAIN mt /\ MemIds \subseteq DOMAIN wal
  BY <1>1 DEF Memtables, LogsKept
<1>4. ASSUME st' = st, \A i \in MemIds : mt'[i].data = mt[i].data /\ wal'[i] = wal[i]
      PROVE  LogsStand(k)' /\ TablesStand(k)'
  <2>1. StoredIn(sst', st', k) = StoredIn(sst, st, k)
    BY <1>1, <1>4, StoredSame
  <2>2. st'.mem = st.mem /\ st'.imm = st.imm /\ Visible(StoredIn(sst', st', k)) = Visible(StoredIn(sst, st, k))
    BY <1>4, <2>1
  <2> QED BY <1>2, <1>4, <2>2, StandsStay
<1>5. CASE FlushBuild(t) \/ Merge(t) \/ RemoveInputs(t)
  <2>1. st' = st /\ mt' = mt /\ wal' = wal
    BY <1>5 DEF FlushBuild, Merge, RemoveInputs
  <2> QED BY <1>4, <2>1
<1>6. CASE (t \in Client /\ TryFreeze(t)) \/ ForceFreeze(t)
  <2>1. st' = st /\ (CreateMemtable \/ (mt' = mt /\ wal' = wal))
    BY <1>6 DEF TryFreeze, ForceFreeze
  <2>2. \A i \in MemIds : mt'[i].data = mt[i].data /\ wal'[i] = wal[i]
    BY <1>1, <1>3, <2>1, CreateLeaves
  <2> QED BY <1>4, <2>1, <2>2
<1>7. CASE t \in Client /\ CloseMemtable(t)
  <2>1. st' = st /\ mt' = mt /\ wal' = wal
    BY <1>7 DEF CloseMemtable
  <2> QED BY <1>4, <2>1
<1>8. CASE Swap(t)
  <2>1. t \in Client /\ at[t] = "swap" /\ mt' = mt /\ wal' = wal /\ sst' = sst /\ st' = Frozen(st, loc[t].new)
        /\ ~GuardHeld
    <3>1. at[t] = "swap" /\ mt' = mt /\ wal' = wal /\ sst' = sst /\ st' = Frozen(st, loc[t].new) /\ ~GuardHeld
      BY <1>8 DEF Swap
    <3>2. ThreadFits(t, at[t], loc[t])
      BY <1>1, PlaceOf
    <3> QED BY <3>1, <3>2, ThreadsApart DEF ThreadFits
  <2> DEFINE i == loc[t].new
  <2>2. i \in DOMAIN mt /\ mt[i] = EmptyMemtable /\ i > st.mem /\ wal[i] = <<>>
    BY <1>1, <2>1 DEF Memtables, LogsKept
  <2>3. i \in Nat
    BY <1>1, <2>2 DEF StoreTyped
  <2>4. ~UnderWay(k) /\ ~UnderWay(k)'
    BY <1>1, <2>1, NoneUnderWay
  <2>5. st' = Frozen(st, i)
    BY <2>1
  <2> HIDE DEF i
  <2>6. Visible(StoredIn(sst', st', k)) = Visible(StoredIn(sst, st, k))
    <3>1. st'.l0 = st.l0 /\ st'.levels = st.levels
      BY <1>1, <2>2, <2>3, <2>5, FrozenIs
    <3> QED BY <2>1, <3>1 DEF StoredIn
  <2> QED BY <1>1, <1>2, <2>1, <2>2, <2>3, <2>4, <2>5, <2>6, SwapStands
<1>9. CASE FlushInstall(t)
  <2>1. /\ at[t] = "flush.install" /\ mt' = mt /\ sst' = sst
        /\ IF Last(st.imm) # loc[t].id THEN st' = st
           ELSE st' = Flushed(st) /\ wal' = [j \in DOMAIN wal \ {loc[t].id} |-> wal[j]]
    BY <1>9 DEF FlushInstall
  <2>2. st.imm # <<>> /\ loc[t].id = Last(st.imm) /\ sst[loc[t].id] = mt[loc[t].id].data
    BY <1>1, <2>1, FlushOf
  <2>3. st' = Flushed(st) /\ sst[Last(st.imm)] = mt[Last(st.imm)].data
        /\ wal' = [j \in DOMAIN wal \ {Last(st.imm)} |-> wal[j]]
    BY <2>1, <2>2
  <2>4. \A j \in MemIds : j # Last(st.imm) => wal'[j] = wal[j]
    BY <1>3, <2>3
  <2> QED BY <1>1, <1>2, <2>1, <2>2, <2>3, <2>4, FlushStands
<1>10. CASE Install(t)
  <2>1. mt' = mt /\ wal' = wal /\ sst' = sst
    BY <1>10 DEF Install
  <2>2. st'.mem = st.mem /\ st'.imm = st.imm
    BY <1>1, <1>10, InstallIs
  <2>3. /\ Dropped(StoredIn(sst, st, k), StoredIn(sst, st', k))
        /\ StoredIn(sst, st, k) \in Int /\ StoredIn(sst, st', k) \in Int
    BY <1>1, <1>10, InstallStored
  <2>4. Visible(StoredIn(sst, st, k)) = Visible(StoredIn(sst, st', k))
    BY <2>3 DEF Dropped, Visible
  <2>5. Visible(StoredIn(sst', st', k)) = Visible(StoredIn(sst, st, k))
    BY <2>1, <2>4
  <2> QED BY <1>2, <2>1, <2>2, <2>5, StandsStay
<1> QED BY <1>5, <1>6, <1>7, <1>8, <1>9, <1>10 DEF EngineStep

\* What stands through every step.
LEMMA StandsStep ==
    ASSUME Contented, Engine', Fresh, Stands, [Next]_vars
    PROVE  Fresh' /\ Stands'
<1>1. Engine /\ Control /\ Store
  BY DEF Contented, Engine
<1>2. \A k \in Key : setting.wal => LogsStand(k) /\ TablesStand(k)
  BY DEF Stands
<1>3. ASSUME UNCHANGED <<st, mt, wal, current, done, stale, writes, setting>>, PendingSame
      PROVE  Fresh' /\ Stands'
  <2>1. Fresh'
    BY <1>3, FreshStays
  <2>2. ASSUME NEW k \in Key, setting.wal PROVE LogsStand(k)' /\ TablesStand(k)'
    <3>1. StoredIn(sst', st', k) = StoredIn(sst, st, k)
      BY <1>1, <1>3, StoredSame
    <3>2. /\ st'.mem = st.mem /\ st'.imm = st.imm
          /\ \A i \in MemIds : mt'[i].data = mt[i].data /\ wal'[i] = wal[i]
          /\ UNCHANGED <<current, done, stale>>
          /\ Visible(StoredIn(sst', st', k)) = Visible(StoredIn(sst, st, k))
      BY <1>3, <3>1
    <3>3. LogsStand(k) /\ TablesStand(k)
      BY <1>2, <2>2
    <3> QED BY <1>3, <3>2, <3>3, StandsStay
  <2> QED BY <1>3, <2>1, <2>2 DEF Stands
<1>4. CASE UNCHANGED vars
  <2>1. UNCHANGED <<st, mt, wal, current, done, stale, writes, setting, at, loc>>
    BY <1>4 DEF vars, engineVars, historyVars, threadVars, diskVars
  <2>2. PendingSame
    BY <2>1 DEF PendingSame, Pending
  <2> QED BY <1>3, <2>1, <2>2
<1>5. ASSUME NEW t \in Thread, QuietStep(t) PROVE Fresh' /\ Stands'
  <2>1. UNCHANGED <<st, mt, wal, current, done, stale, writes, setting>>
    BY <1>5, QuietLeaves
  <2>2. PendingSame
    BY <1>1, <1>5, PendingStays
  <2> QED BY <1>3, <2>1, <2>2
<1>6. ASSUME NEW t \in Thread, EngineStep(t) PROVE Fresh' /\ Stands'
  <2>1. UNCHANGED <<writes, current, done, stale>> /\ setting' = setting /\ PendingSame
    BY <1>1, <1>6, EngineLeaves, PendingStays
  <2>2. Fresh'
    BY <2>1, FreshStays
  <2>3. ASSUME NEW k \in Key, setting.wal PROVE LogsStand(k)' /\ TablesStand(k)'
    <3>1. LogsStand(k) /\ TablesStand(k)
      BY <1>2, <2>3
    <3> QED BY <1>6, <2>3, <3>1, EngineStands
  <2> QED BY <2>1, <2>2, <2>3 DEF Stands
<1>7. ASSUME NEW c \in Client, NEW b, Inserts(c, b) PROVE Fresh' /\ Stands'
  <2>1. Fresh'
    BY <1>1, <1>7, InsertFresh
  <2>2. PICK x \in Key, e \in Int : \E l : InsertsEntry(c, x, e, l)
    BY <1>1, <1>7, InsertsEntryOf
  <2>3. PICK l : InsertsEntry(c, x, e, l)
    BY <2>2
  <2>4. setting' = setting /\ current \in [Key -> Entry]
    BY <1>1, <2>3 DEF InsertsEntry, Engine, CurrentTyped
  <2>5. ASSUME NEW k \in Key, setting.wal PROVE LogsStand(k)' /\ TablesStand(k)'
    <3>1. LogsStand(k) /\ TablesStand(k)
      BY <1>2, <2>5
    <3> QED BY <1>1, <2>3, <2>4, <2>5, <3>1, InsertStands
  <2> QED BY <2>1, <2>4, <2>5 DEF Stands
<1>8. ASSUME NEW c \in Client, AppendRecord(c) PROVE Fresh' /\ Stands'
  <2>1. PICK x \in Key, e \in Entry : AppendsEntry(c, x, e)
    BY <1>1, <1>8, AppendsEntryOf
  <2>2. Fresh'
    BY <1>1, <2>1, AppendFresh
  <2>3. setting' = setting
    BY <2>1 DEF AppendsEntry
  <2>4. ASSUME NEW k \in Key, setting.wal PROVE LogsStand(k)' /\ TablesStand(k)'
    <3>1. LogsStand(k) /\ TablesStand(k)
      BY <1>2, <2>4
    <3> QED BY <1>1, <2>1, <2>4, <3>1, AppendStands
  <2> QED BY <2>2, <2>3, <2>4 DEF Stands
<1>9. ASSUME NEW c \in Client, Open(c), Opened.ok PROVE Fresh' /\ Stands'
  <2>1. Fresh' /\ \A d \in Client : ~Pending(d)'
    BY <1>1, <1>9, OpenFresh
  <2>2. setting' = setting
    BY <1>9 DEF Open
  <2>3. ASSUME NEW k \in Key, setting.wal PROVE LogsStand(k)' /\ TablesStand(k)'
    <3>1. ~UnderWay(k)'
      BY <2>1 DEF UnderWay
    <3> QED BY <1>1, <1>9, <2>3, <3>1, OpenStands
  <2> QED BY <2>1, <2>2, <2>3 DEF Stands
<1>10. ASSUME NEW c \in Client, Open(c), ~Opened.ok PROVE Fresh' /\ Stands'
  <2>1. UNCHANGED <<st, mt, wal, current, done, stale, writes, setting, at, loc>>
    BY <1>10 DEF Open, engineVars, historyVars, threadVars, diskVars
  <2>2. PendingSame
    BY <2>1 DEF PendingSame, Pending
  <2> QED BY <1>3, <2>1, <2>2
<1> QED BY <1>1, <1>4, <1>5, <1>6, <1>7, <1>8, <1>9, <1>10, NextKinds

-----------------------------------------------------------------------------
(* Close without logs.                                                     *)

\* The places of close behind the freeze of the memtable.
Draining == {"close.drain", "flush", "flush.install"}

\* Without logs close has flushed the memtable before it returns.
Drained ==
    ~setting.wal =>
        /\ \A c \in Client : loc[c].op = "close" /\ at[c] \in Draining => mt[st.mem].data = Nothing
        /\ mode \in {"closed", "failed"} /\ closed = "ok" => mt[st.mem].data = Nothing /\ st.imm = <<>>
        /\ \A c \in Client : at[c] # "close.synced"

\* Where a step of t leads close.
DrainsTo(t, p, l) ==
    /\ l.op = "close" /\ p \in Draining =>
          (loc[t].op = "close" /\ at[t] \in Draining) \/ (t \in Client /\ CloseMemtable(t))
    /\ p = "close.synced" => t \in Client /\ CloseMemtable(t) /\ setting.wal

\* Close drains once it has frozen the memtable.
LEMMA DrainGoes ==
    ASSUME Control, NEW t \in Thread,
           QuietStep(t) \/ EngineStep(t) \/ (t \in Client /\ AppendRecord(t))
    PROVE  \E p, l : Goto(t, p, l) /\ DrainsTo(t, p, l)
<1> DEFINE G == \E p, l : Goto(t, p, l) /\ DrainsTo(t, p, l)
           Harmless == {"idle", "insert", "freeze", "swap", "ff.check", "ff.lock", "panicked", "stopped",
                        "merge", "apply", "install", "remove", "close.join_compactor",
                        "close.join_flusher", "close.memtable"} \cup ReadPlaces
<1> SUFFICES G
  OBVIOUS
<1>1. ASSUME NEW p, NEW l, Goto(t, p, l), DrainsTo(t, p, l) PROVE G
  BY <1>1
<1>2. ASSUME NEW p \in Harmless, NEW l, Goto(t, p, l) PROVE G
  <2>1. p \notin Draining /\ p # "close.synced"
    BY DEF Draining, ReadPlaces
  <2>2. DrainsTo(t, p, l)
    BY <2>1 DEF DrainsTo
  <2> HIDE DEF G
  <2> QED BY <1>1, <1>2, <2>2
<1>3. ASSUME NEW p \in Draining, NEW l, Goto(t, p, l),
             l.op = "close" => (loc[t].op = "close" /\ at[t] \in Draining) \/ (t \in Client /\ CloseMemtable(t))
      PROVE  G
  <2>1. DrainsTo(t, p, l)
    BY <1>3 DEF DrainsTo, Draining
  <2> HIDE DEF G
  <2> QED BY <1>1, <1>3, <2>1
<1> HIDE DEF G
<1>4. CASE (t \in Client /\ (TryFreeze(t) \/ AppendRecord(t))) \/ Swap(t) \/ ForceFreeze(t)
  <2>1. AfterRecord(t) \/ \E p \in {"ff.check", "freeze", "swap"} : \E l : Goto(t, p, l)
    BY <1>4 DEF TryFreeze, AppendRecord, Swap, ForceFreeze, Goto
  <2>2. AfterRecord(t) => \E p \in {"idle", "insert"} : \E l : Goto(t, p, l)
    BY AfterRecordGoes
  <2>3. PICK p \in {"ff.check", "freeze", "swap", "idle", "insert"} : \E l : Goto(t, p, l)
    BY <2>1, <2>2
  <2> QED BY <1>2, <2>3
<1>5. CASE ForceCheck(t)
  <2>1. at[t] = "ff.check" /\ (Goto(t, "idle", NoOp) \/ Goto(t, "flush", loc[t]))
    BY <1>5 DEF ForceCheck
  <2>2. loc[t].op # "close"
    BY <2>1, ForcedBy
  <2>3. CASE Goto(t, "idle", NoOp)
    BY <1>2, <2>3
  <2>4. CASE Goto(t, "flush", loc[t])
    BY <1>3, <2>2, <2>4 DEF Draining
  <2> QED BY <2>1, <2>3, <2>4
<1>6. CASE FlushBuild(t)
  <2>1. at[t] \in Draining
    BY <1>6 DEF FlushBuild, Draining
  <2> DEFINE l == [op |-> loc[t].op, id |-> Last(st.imm)]
  <2>2. (\E x : Goto(t, "panicked", x)) \/ Goto(t, "flush.install", l)
    BY <1>6 DEF FlushBuild, Panic
  <2>3. l.op = loc[t].op
    OBVIOUS
  <2> HIDE DEF l
  <2>4. CASE \E x : Goto(t, "panicked", x)
    BY <1>2, <2>4
  <2>5. CASE Goto(t, "flush.install", l)
    BY <1>3, <2>1, <2>3, <2>5 DEF Draining
  <2> QED BY <2>2, <2>4, <2>5
<1>7. CASE FlushInstall(t)
  <2>1. at[t] \in Draining
    BY <1>7 DEF FlushInstall, Draining
  <2> DEFINE l == [op |-> "close"]
  <2>2. (\E p \in {"panicked", "idle"} : \E x : Goto(t, p, x)) \/ (Goto(t, "close.drain", l) /\ loc[t].op = "close")
    BY <1>7 DEF FlushInstall, Panic
  <2> HIDE DEF l
  <2>3. CASE \E p \in {"panicked", "idle"} : \E x : Goto(t, p, x)
    BY <1>2, <2>3
  <2>4. CASE Goto(t, "close.drain", l) /\ loc[t].op = "close"
    BY <1>3, <2>1, <2>4 DEF Draining
  <2> QED BY <2>2, <2>3, <2>4
<1>8. CASE Merge(t) \/ Apply(t) \/ Install(t) \/ RemoveInputs(t) \/ StopThread(t)
  <2>1. PICK p \in {"apply", "panicked", "install", "remove", "idle", "stopped"} : \E l : Goto(t, p, l)
    BY <1>8, MergeIs DEF Apply, Install, RemoveInputs, StopThread, Panic
  <2> QED BY <1>2, <2>1
<1>9. CASE t \in Client /\ (FullCompaction(t) \/ Close(t) \/ CloseJoin(t) \/ CloseEnd(t) \/ ForceFlush(t))
  <2>1. PICK p \in {"merge", "close.join_compactor", "close.join_flusher", "close.memtable", "idle",
                    "ff.check", "ff.lock"} : \E l : Goto(t, p, l)
    BY <1>9 DEF FullCompaction, Close, CloseJoin, CloseEnd, CloseGives, ForceFlush
  <2> QED BY <1>2, <2>1
<1>10. CASE t = Compactor /\ CompactTick
  <2>1. \E l : Goto(t, "merge", l)
    BY <1>10 DEF CompactTick
  <2> QED BY <1>2, <2>1
<1>11. CASE t = Flusher /\ FlushTick
  <2> DEFINE l == [op |-> "tick"]
  <2>1. Goto(t, "flush", l) /\ l.op # "close"
    BY <1>11 DEF FlushTick
  <2> HIDE DEF l
  <2> QED BY <1>3, <2>1 DEF Draining
<1>12. CASE t \in Client /\ CloseDrain(t)
  <2>1. at[t] = "close.drain" /\ Goto(t, "flush", [op |-> "close"])
    BY <1>12 DEF CloseDrain
  <2>2. loc[t].op = "close"
    BY <1>12, <2>1, ClosedBy DEF ClosePlaces
  <2> QED BY <1>3, <2>1, <2>2 DEF Draining
<1>13. CASE t \in Client /\ CloseMemtable(t)
  <2> DEFINE l == [op |-> "close"]
  <2>1. Goto(t, "close.drain", l) \/ (setting.wal /\ Goto(t, "close.synced", l))
    BY <1>13 DEF CloseMemtable
  <2> HIDE DEF l
  <2>2. CASE Goto(t, "close.drain", l)
    BY <1>3, <1>13, <2>2 DEF Draining
  <2>3. CASE setting.wal /\ Goto(t, "close.synced", l)
    <3>1. DrainsTo(t, "close.synced", l)
      BY <1>13, <2>3 DEF DrainsTo, Draining
    <3> QED BY <1>1, <2>3, <3>1
  <2> QED BY <2>1, <2>2, <2>3
<1>14. CASE t \in Client /\ ReadStep(t)
  <2>1. PICK p, l : Goto(t, p, l) /\ p \in ReadPlaces \cup {"idle"}
    BY <1>14, ReadGoes
  <2> QED BY <1>2, <2>1
<1> QED BY <1>4, <1>5, <1>6, <1>7, <1>8, <1>9, <1>10, <1>11, <1>12, <1>13, <1>14
        DEF QuietStep, EngineStep, ReadStep

\* The mode moves with close only.
LEMMA ModeMoves ==
    ASSUME Control, NEW t \in Thread,
           QuietStep(t) \/ EngineStep(t) \/ (t \in Client /\ AppendRecord(t))
    PROVE  \/ mode' = mode /\ closed' = closed
           \/ mode' \notin {"closed", "failed"}
           \/ mode' = "closed" /\ closed' = "err"
           \/ mode' = "closed" /\ closed' = "ok" /\ t \in Client /\ CloseEnd(t)
<1>1. CASE EngineStep(t)
  BY <1>1, EngineLeaves
<1>2. CASE t \in Client /\ AppendRecord(t)
  BY <1>2, AppendLeaves
<1>3. CASE t \in Client /\ (Get(t) \/ GetMemtable(t) \/ GetOld(t) \/ ReadReturns(t)
                            \/ Scan(t) \/ ScanOpen(t) \/ ScanNext(t) \/ ScanEnd(t))
  BY <1>3 DEF Get, GetMemtable, GetOld, ReadReturns, Scan, ScanOpen, ScanNext, ScanEnd, controlVars
<1>4. CASE \/ ForceCheck(t) \/ Apply(t) \/ StopThread(t) \/ FlushTick \/ CompactTick
           \/ ForceFlush(t) \/ FullCompaction(t) \/ CloseDrain(t)
  BY <1>4 DEF ForceCheck, Apply, StopThread, FlushTick, CompactTick, ForceFlush, FullCompaction,
              CloseDrain, controlVars
<1>5. CASE t \in Client /\ (Close(t) \/ CloseJoin(t) \/ CloseEnd(t))
  BY <1>5 DEF Close, CloseJoin, CloseEnd, CloseGives
<1> QED BY <1>1, <1>2, <1>3, <1>4, <1>5 DEF QuietStep

\* Nobody but close touches the memtable once the engine is being closed.
LEMMA MemtableRests ==
    ASSUME Control, Store, mode # "open", NEW t \in Thread,
           QuietStep(t) \/ EngineStep(t) \/ (t \in Client /\ AppendRecord(t)),
           ~(t \in Client /\ CloseMemtable(t))
    PROVE  /\ st'.mem = st.mem /\ mt'[st.mem].data = mt[st.mem].data
           /\ st'.imm = st.imm \/ FlushInstall(t)
<1>1. CASE QuietStep(t)
  BY <1>1, QuietLeaves
<1>2. CASE t \in Client /\ AppendRecord(t)
  BY <1>2, AppendLeaves
<1>3. CASE FlushBuild(t) \/ Merge(t) \/ RemoveInputs(t)
  <2>1. st' = st /\ mt' = mt
    BY <1>3 DEF FlushBuild, Merge, RemoveInputs
  <2> QED BY <2>1
<1>4. ASSUME at[t] \in {"freeze", "swap"}, t \in Client PROVE FALSE
  <2>1. loc[t] \in WriteLocals \cup [op : {"force_flush"}, new : Nat]
    BY <1>4, LocalsOf
  <2>2. loc[t].op \in {"write", "force_flush"}
    BY <2>1 DEF WriteLocals
  <2> QED BY <1>4, <2>2, PlaceOf DEF ModeFits
<1>5. CASE (t \in Client /\ TryFreeze(t)) \/ Swap(t)
  <2>1. at[t] \in {"freeze", "swap"}
    BY <1>5 DEF TryFreeze, Swap
  <2>2. t \in Client
    BY <2>1, PlaceOf, ThreadsApart DEF ThreadFits
  <2> QED BY <1>4, <2>1, <2>2
<1>6. CASE ForceFreeze(t)
  <2>1. at[t] = "ff.lock"
    BY <1>6 DEF ForceFreeze
  <2> QED BY <2>1, ForcedBy
<1>7. CASE FlushInstall(t)
  <2>1. at[t] = "flush.install" /\ mt' = mt
    BY <1>7 DEF FlushInstall
  <2>2. st.imm # <<>> /\ loc[t].id = Last(st.imm)
    BY <2>1, FlushOf
  <2>3. st' = Flushed(st)
    BY <1>7, <2>2 DEF FlushInstall
  <2>4. st'.mem = st.mem
    BY <2>2, <2>3, FlushedIs
  <2> QED BY <1>7, <2>1, <2>4
<1>8. CASE Install(t)
  <2>1. mt' = mt
    BY <1>8 DEF Install
  <2> QED BY <1>8, <2>1, InstallIs
<1> QED BY <1>1, <1>2, <1>3, <1>5, <1>6, <1>7, <1>8 DEF EngineStep

\* A memtable that close freezes leaves an empty one behind.
LEMMA CloseFreezes ==
    ASSUME Store, NEW c, CloseMemtable(c), ~setting.wal
    PROVE  mt'[st'.mem].data = Nothing
<1>1. CASE IsEmptyTable(mt[st.mem].data)
  <2>1. st' = st /\ mt' = mt
    BY <1>1 DEF CloseMemtable
  <2> QED BY <1>1, <2>1 DEF IsEmptyTable
<1>2. CASE ~IsEmptyTable(mt[st.mem].data)
  <2>1. mt' = With(mt, nextId, EmptyMemtable) /\ st' = Frozen(st, nextId)
    BY <1>2 DEF CloseMemtable, CreateMemtable
  <2>2. st \in State
    BY DEF Store, StoreTyped
  <2>3. st'.mem = nextId
    BY <2>1, <2>2 DEF Frozen, State
  <2>4. mt'[nextId] = EmptyMemtable
    BY <2>1 DEF With
  <2> QED BY <2>3, <2>4 DEF EmptyMemtable
<1> QED BY <1>1, <1>2

\* What close without logs has drained stays so.
LEMMA DrainedStep ==
    ASSUME Engine, Drained, [Next]_vars
    PROVE  Drained'
<1>0. Control /\ Store
  BY DEF Engine
<1>1. setting' = setting
  <2>1. CASE UNCHANGED vars
    BY <2>1 DEF vars
  <2>2. ASSUME NEW t \in Thread, QuietStep(t) \/ EngineStep(t) PROVE setting' = setting
    BY <2>2, QuietLeaves, EngineLeaves
  <2>3. ASSUME NEW c \in Client, (\E b : Inserts(c, b)) \/ AppendRecord(c) \/ Open(c) PROVE setting' = setting
    BY <2>3 DEF Inserts, Insert, AppendRecord, Open
  <2> QED BY <1>0, <2>1, <2>2, <2>3, NextKinds
<1> DEFINE M  == mt[st.mem].data = Nothing
           M2 == mt'[st'.mem].data = Nothing
<1> SUFFICES ASSUME ~setting.wal
             PROVE  /\ \A c \in Client : loc'[c].op = "close" /\ at'[c] \in Draining => M2
                    /\ mode' \in {"closed", "failed"} /\ closed' = "ok" => M2 /\ st'.imm = <<>>
                    /\ \A c \in Client : at'[c] # "close.synced"
  BY <1>1 DEF Drained
<1>2. /\ \A c \in Client : loc[c].op = "close" /\ at[c] \in Draining => M
      /\ mode \in {"closed", "failed"} /\ closed = "ok" => M /\ st.imm = <<>>
      /\ \A c \in Client : at[c] # "close.synced"
  BY DEF Drained
<1> DEFINE H == /\ \A c \in Client : loc'[c].op = "close" /\ at'[c] \in Draining => M2
                /\ mode' \in {"closed", "failed"} /\ closed' = "ok" => M2 /\ st'.imm = <<>>
                /\ \A c \in Client : at'[c] # "close.synced"
<1> SUFFICES H
  OBVIOUS
<1>3. ASSUME UNCHANGED <<st, mt, at, loc, closed>>, mode' = mode \/ (mode = "closed" /\ mode' = "failed")
      PROVE  H
  BY <1>2, <1>3
<1>4. CASE UNCHANGED vars
  <2>1. UNCHANGED <<st, mt, at, loc, closed>> /\ mode' = mode
    BY <1>4 DEF vars, engineVars, threadVars, controlVars
  <2> HIDE DEF H
  <2> QED BY <1>3, <2>1
<1>5. ASSUME NEW t \in Thread, QuietStep(t) \/ EngineStep(t) \/ (t \in Client /\ AppendRecord(t))
      PROVE  H
  <2>1. PICK p, l : Goto(t, p, l) /\ DrainsTo(t, p, l)
    BY <1>0, <1>5, DrainGoes
  <2>2. /\ at'[t] = p /\ loc'[t] = l
        /\ \A u \in Thread : u # t => at'[u] = at[u] /\ loc'[u] = loc[u]
    BY <1>0, <2>1, Moved
  <2>3. ASSUME NEW c \in Client PROVE at'[c] # "close.synced"
    BY <1>2, <2>1, <2>2, ThreadsApart DEF DrainsTo
  <2>4. CASE t \in Client /\ CloseMemtable(t)
    <3>1. M2
      BY <1>0, <2>4, CloseFreezes
    <3>2. at[t] = "close.memtable" /\ mode' = mode
      BY <2>4 DEF CloseMemtable, controlVars
    <3>3. mode = "closing"
      BY <1>0, <2>4, <3>2, ClosedBy DEF ClosePlaces
    <3> HIDE DEF M2
    <3> QED BY <2>3, <3>1, <3>2, <3>3
  <2>5. CASE ~(t \in Client /\ CloseMemtable(t))
    <3>1. ASSUME mode # "open", M PROVE M2
      BY <1>0, <1>5, <2>5, <3>1, MemtableRests
    <3>2. ASSUME NEW c \in Client, loc'[c].op = "close", at'[c] \in Draining PROVE M2
      <4>1. loc[c].op = "close" /\ at[c] \in Draining
        <5>1. CASE c = t
          BY <2>1, <2>2, <2>5, <3>2, <5>1 DEF DrainsTo
        <5>2. CASE c # t
          BY <2>2, <3>2, <5>2, ThreadsApart
        <5> QED BY <5>1, <5>2
      <4>2. mode # "open"
        <5>1. c \in Thread
          BY ThreadsApart
        <5> QED BY <1>0, <4>1, <5>1, PlaceOf DEF ModeFits
      <4> HIDE DEF M, M2
      <4> QED BY <1>2, <3>1, <4>1, <4>2
    <3>3. ASSUME mode' \in {"closed", "failed"}, closed' = "ok" PROVE M2 /\ st'.imm = <<>>
      <4>1. CASE mode' = mode /\ closed' = closed
        <5>1. M /\ st.imm = <<>> /\ mode # "open"
          BY <1>2, <3>3, <4>1
        <5>2. ~FlushInstall(t)
          <6>1. at[t] # "flush.install"
            BY <1>0, <5>1, FlushOf
          <6> QED BY <6>1 DEF FlushInstall
        <5>3. st'.imm = st.imm
          BY <1>0, <1>5, <2>5, <5>1, <5>2, MemtableRests
        <5> HIDE DEF M, M2
        <5> QED BY <3>1, <5>1, <5>3
      <4>2. CASE mode' = "closed" /\ closed' = "ok" /\ t \in Client /\ CloseEnd(t)
        <5>1. QuietStep(t)
          BY <4>2 DEF QuietStep
        <5>2. st' = st /\ mt' = mt
          BY <5>1, QuietLeaves
        <5>3. at[t] = "close.drain" /\ st.imm = <<>>
          BY <1>2, <4>2 DEF CloseEnd
        <5>4. loc[t].op = "close"
          BY <1>0, <4>2, <5>3, ClosedBy DEF ClosePlaces
        <5>5. M
          BY <1>2, <4>2, <5>3, <5>4 DEF Draining
        <5> QED BY <5>2, <5>3, <5>5
      <4> QED BY <1>0, <1>5, <3>3, <4>1, <4>2, ModeMoves
    <3> HIDE DEF M2
    <3> QED BY <2>3, <3>2, <3>3
  <2> HIDE DEF H
  <2> QED BY <2>4, <2>5
<1>6. ASSUME NEW c \in Client, NEW b, Inserts(c, b) PROVE H
  <2>1. PICK x \in Key, e \in Int : \E l : InsertsEntry(c, x, e, l)
    BY <1>0, <1>6, InsertsEntryOf
  <2>2. PICK l : Goto(c, "append", l)
    BY <2>1 DEF InsertsEntry
  <2>3. mode = "open" /\ mode' = mode
    BY <1>6 DEF Inserts, Insert, controlVars
  <2>4. /\ at'[c] = "append" /\ c \in Thread
        /\ \A u \in Thread : u # c => at'[u] = at[u] /\ loc'[u] = loc[u]
    BY <1>0, <2>2, Moved, ThreadsApart
  <2>5. ASSUME NEW d \in Client
        PROVE  ~(loc'[d].op = "close" /\ at'[d] \in Draining) /\ at'[d] # "close.synced"
    <3>1. CASE d = c
      BY <2>4, <3>1 DEF Draining
    <3>2. CASE d # c
      <4>1. d \in Thread /\ at'[d] = at[d] /\ loc'[d] = loc[d]
        BY <2>4, <3>2, ThreadsApart
      <4>2. loc[d].op # "close"
        BY <1>0, <2>3, <4>1, PlaceOf DEF ModeFits
      <4> QED BY <1>2, <4>1, <4>2
    <3> QED BY <3>1, <3>2
  <2> HIDE DEF M2
  <2> QED BY <2>3, <2>5
<1>7. ASSUME NEW c \in Client, Open(c), Opened.ok PROVE H
  <2>1. mode' = "open" /\ \A t \in Thread : at'[t] \in {"idle", "stopped"} /\ loc'[t] = NoOp
    BY <1>0, <1>7, OpenIs
  <2>2. ASSUME NEW d \in Client PROVE ~(at'[d] \in Draining) /\ at'[d] # "close.synced"
    BY <2>1, ThreadsApart DEF Draining
  <2> HIDE DEF M2
  <2> QED BY <2>1, <2>2
<1>8. ASSUME NEW c \in Client, Open(c), ~Opened.ok PROVE H
  <2>1. UNCHANGED <<st, mt, at, loc, closed>> /\ mode = "closed" /\ mode' = "failed"
    BY <1>8 DEF Open, engineVars, threadVars, Stopped
  <2> HIDE DEF H
  <2> QED BY <1>3, <2>1
<1> HIDE DEF H
<1>9. ASSUME NEW c \in Client, (\E b : Inserts(c, b)) \/ AppendRecord(c) \/ Open(c) PROVE H
  <2>1. c \in Thread
    BY ThreadsApart
  <2> QED BY <1>5, <1>6, <1>7, <1>8, <1>9, <2>1
<1>10. ASSUME NEW t \in Thread, QuietStep(t) \/ EngineStep(t) PROVE H
  BY <1>5, <1>10
<1> QED BY <1>0, <1>4, <1>9, <1>10, NextKinds

-----------------------------------------------------------------------------
(* What the next open reads.                                               *)

\* The invariant of RestartKeepsReturned.
Restartable == Fresh /\ Stands /\ Drained

\* In a new directory nothing is written yet.
LEMMA RestartableInit ==
    ASSUME Init
    PROVE  Restartable
<1>1. /\ current = Nothing /\ writes = 0
      /\ done = [k \in Key |-> {}] /\ stale = [k \in Key |-> {}]
      /\ st.mem = 0 /\ st.imm = <<>> /\ st.l0 = <<>> /\ mode = "open"
      /\ mt[0] = EmptyMemtable /\ (setting.wal => wal[0] = <<>>)
  BY DEF Init
<1>2. \A c \in Client : at[c] = "idle" /\ loc[c] = NoOp
  BY ThreadsApart DEF Init, Start
<1>3. NoOp.op # "close"
  BY DEF NoOp
<1>4. \A c \in Client : ~Pending(c)
  BY <1>2 DEF Pending
<1>5. Fresh
  BY <1>1, <1>4 DEF Fresh, EntriesFresh, CurrentStands, Nothing
<1>6. Drained
  BY <1>1, <1>2, <1>3 DEF Drained
<1>7. ASSUME setting.wal, NEW k \in Key PROVE LogsStand(k) /\ TablesStand(k)
  <2>1. MemIds = {0} /\ Ids(st.imm) = {}
    BY <1>1, IdsOf DEF MemIds
  <2>2. Logged(0)[k] = 0 /\ mt[0].data[k] = 0
    BY <1>1, <1>7, RecoveredNext DEF Logged, Nothing, EmptyMemtable
  <2>3. LogsStand(k)
    BY <1>1, <1>4, <2>1, <2>2 DEF LogsStand, UnderWay
  <2>4. StoredIn(sst, st, k) = 0
    <3>1. Store /\ st \in State
      BY StoreInit DEF Store, StoreTyped
    <3>2. Backed(mt, sst, st)
      BY <3>1, ContentIs
    <3>3. TableIds(st) = {}
      <4>1. \A i \in DOMAIN st.levels : st.levels[i] = <<>>
        BY DEF Init, EmptyLevels
      <4> QED BY <1>1, <4>1, IdsOf DEF TableIds
    <3> DEFINE E == {0}
    <3>4. 0 \in E /\ (\A i \in Ids(st.imm) : mt[i].data[k] \in E) /\ (\A i \in TableIds(st) : sst[i][k] \in E)
      BY <2>1, <3>3
    <3> HIDE DEF E
    <3>5. StoredIn(sst, st, k) \in E
      BY <3>1, <3>2, <3>4, BehindIn
    <3> QED BY <3>5 DEF E
  <2>5. TablesStand(k)
    BY <1>1, <2>4 DEF TablesStand, Visible
  <2> QED BY <2>3, <2>5
<1> QED BY <1>5, <1>6, <1>7 DEF Restartable, Stands

\* Nothing that a step does takes away what the next open needs.
THEOREM RestartHolds == Spec => []Restartable
<1>1. Init => Restartable
  BY RestartableInit
<1>2. Contented /\ Contented' /\ Restartable /\ [Next]_vars => Restartable'
  <2> SUFFICES ASSUME Contented, Restartable, [Next]_vars PROVE Restartable'
    OBVIOUS
  <2>1. Engine /\ Fresh /\ Stands /\ Drained
    BY DEF Contented, Restartable
  <2>2. Engine'
    BY <2>1, EngineStepKeeps
  <2>3. Fresh' /\ Stands'
    BY <2>1, <2>2, StandsStep
  <2>4. Drained'
    BY <2>1, DrainedStep
  <2> QED BY <2>3, <2>4 DEF Restartable
<1> QED BY <1>1, <1>2, ContentedHolds, PTL DEF Spec

\* The logs that a stopped engine leaves with something in them are those of its memtables.
LEMMA KeptLogs ==
    ASSUME Control, Store, Opened.ok, Stopped, setting.wal
    PROVE  /\ Kept \subseteq MemIds
           /\ \A i \in MemIds, k \in Key : Logged(i)[k] # 0 => i \in Kept
<1>1. StoreTyped /\ Replays
  BY DEF Store
<1>2. NoFull
  BY <1>1, OpenedIs
<1>3. /\ Ids(st.imm) \subseteq Replay.mems /\ st.mem \in Replay.mems
      /\ \A i \in Replay.mems \ MemIds : Recovered(wal[i]) = Nothing
  BY <1>1, <1>2 DEF Replays
<1>4. MemIds \subseteq Replay.mems
  BY <1>3 DEF MemIds
<1>5. MemIds \subseteq DOMAIN wal
  BY LogsOf
<1>6. Kept \subseteq MemIds
  BY <1>3 DEF Kept, IsEmptyTable
<1>7. ASSUME NEW i \in MemIds, NEW k \in Key, Logged(i)[k] # 0 PROVE i \in Kept
  <2>1. Recovered(wal[i]) # Nothing
    BY <1>7 DEF Logged, Nothing
  <2> QED BY <1>4, <1>5, <2>1 DEF Kept, IsEmptyTable
<1> QED BY <1>6, <1>7

\* With logs: the youngest log that has the key, or else the tables.
LEMMA LogsRead ==
    ASSUME Control, Store, Opened.ok, Stopped, setting.wal, NEW k \in Key, LogsStand(k), TablesStand(k)
    PROVE  Visible(OpenedEntry(Opened, k)) \in IF done[k] = {} THEN {0} ELSE Shown(Standing(k))
<1> DEFINE J == Ids(Opened.s.imm)
           e == OpenedEntry(Opened, k)
           having == {i \in MemIds : Logged(i)[k] # 0}
<1>1. /\ J = Kept
      /\ \A i \in J : Logged(i)[k] # 0 /\ (\A j \in J : j > i => Logged(j)[k] = 0) => e = Logged(i)[k]
      /\ (\A i \in J : Logged(i)[k] = 0) => e = StoredIn(sst, st, k)
  BY OpenedLogs
<1>2. Kept \subseteq MemIds /\ \A i \in MemIds : Logged(i)[k] # 0 => i \in Kept
  BY KeptLogs
<1> HIDE DEF J, e
<1>3. CASE having = {}
  <2>1. \A i \in MemIds : Logged(i)[k] = 0
    BY <1>3
  <2>2. \A i \in J : Logged(i)[k] = 0
    BY <1>1, <1>2, <2>1
  <2>3. e = StoredIn(sst, st, k)
    BY <1>1, <2>2
  <2>4. Visible(StoredIn(sst, st, k)) \in IF done[k] = {} THEN {0} ELSE Shown(Standing(k))
    BY <2>1 DEF TablesStand
  <2> QED BY <2>3, <2>4 DEF e
<1>4. CASE having # {}
  <2>1. st.mem \in Nat /\ MemIds \subseteq 0..st.mem
    <3>1. /\ st.mem \in Nat /\ MemIds \subseteq Nat /\ \A i \in Ids(st.imm) : i < st.mem
      BY LogsOf
    <3>2. \A i \in MemIds : i \in Nat /\ i <= st.mem
      BY <3>1 DEF MemIds
    <3> QED BY <3>1, <3>2
  <2>2. having \in SUBSET (0..st.mem)
    BY <2>1
  <2> DEFINE N == st.mem
  <2>3. N \in Nat /\ having \in SUBSET (0..N)
    BY <2>1, <2>2
  <2> HIDE DEF N, having
  <2>4. PICK i \in having : \A x \in having : x <= i
    BY <1>4, <2>3, GreatestOf
  <2>5. i \in MemIds /\ Logged(i)[k] # 0
    BY <2>4 DEF having
  <2>6. i \in Nat /\ \A j \in MemIds : j \in Nat
    BY <2>1, <2>5
  <2>7. \A j \in MemIds : j > i => Logged(j)[k] = 0
    <3> SUFFICES ASSUME NEW j \in MemIds, j > i, Logged(j)[k] # 0 PROVE FALSE
      OBVIOUS
    <3>1. j \in having
      BY DEF having
    <3>2. j <= i
      BY <2>4, <3>1
    <3> QED BY <2>6, <3>2
  <2>8. i \in J /\ \A j \in J : j > i => Logged(j)[k] = 0
    BY <1>1, <1>2, <2>5, <2>7
  <2>9. e = Logged(i)[k]
    BY <1>1, <2>5, <2>8
  <2>10. ~NewerLogged(i, k)
    BY <2>7 DEF NewerLogged
  <2>11. e \in Standing(k)
    BY <2>5, <2>9, <2>10 DEF LogsStand
  <2>12. done[k] # {} /\ Visible(e) \in Shown(Standing(k))
    BY <2>11 DEF Standing, Shown
  <2> QED BY <2>12 DEF e
<1> QED BY <1>3, <1>4

\* Without logs: the tables, which hold the content of the engine that was closed.
LEMMA TablesRead ==
    ASSUME Contented, Fresh, Drained, Opened.ok, Stopped, closed = "ok", ~setting.wal, NEW k \in Key
    PROVE  /\ Visible(OpenedEntry(Opened, k)) = Visible(current[k])
           /\ Visible(current[k]) \in IF done[k] = {} THEN {0} ELSE Shown(Standing(k))
<1>1. Control /\ Store /\ ContentHolds
  BY DEF Contented, Engine
<1>2. mt[st.mem].data = Nothing /\ st.imm = <<>>
  BY DEF Drained, Stopped
<1>3. OpenedEntry(Opened, k) = StoredIn(sst, st, k)
  <2>1. /\ Ids(Opened.s.imm) = {}
        /\ (\A i \in Ids(Opened.s.imm) : Logged(i)[k] = 0) => OpenedEntry(Opened, k) = StoredIn(sst, st, k)
    BY <1>1, OpenedLogs
  <2> QED BY <2>1
<1>4. /\ Content(st, k) = Or(mt[st.mem].data[k], Or(Newest(ImmOf(mt, st.imm), k), StoredIn(sst, st, k)))
  BY <1>1, ContentSplit
<1>5. Newest(ImmOf(mt, <<>>), k) = 0 /\ mt[st.mem].data[k] = 0
  BY <1>2, ImmSmall DEF Nothing
<1>6. Content(st, k) = StoredIn(sst, st, k)
  BY <1>2, <1>4, <1>5 DEF Or
<1>7. Visible(OpenedEntry(Opened, k)) = Visible(current[k])
  BY <1>1, <1>3, <1>6 DEF ContentHolds
<1>8. \A c \in Client : ~Pending(c)
  BY <1>1, StoppedIs, ThreadsApart DEF Pending
<1>9. /\ current[k] \notin stale[k] /\ (current[k] = 0 => done[k] = {})
      /\ current[k] \in done[k] \/ current[k] = 0
  BY <1>8 DEF Fresh, CurrentStands
<1>10. CASE current[k] = 0
  <2>1. Visible(current[k]) = 0 /\ done[k] = {}
    BY <1>9, <1>10 DEF Visible
  <2> QED BY <1>7, <2>1
<1>11. CASE current[k] # 0
  <2>1. current[k] \in Standing(k) /\ done[k] # {}
    BY <1>9, <1>11 DEF Standing
  <2>2. Visible(current[k]) \in Shown(Standing(k))
    BY <2>1 DEF Shown
  <2> QED BY <1>7, <2>1, <2>2
<1> QED BY <1>10, <1>11

\* After a close without error the next open reads, for every key, a write that no
\* later completed write replaced; without logs it is the last one.
THEOREM Restarting == Spec => []RestartKeepsReturned
<1>1. Contented /\ Restartable => RestartKeepsReturned
  <2> SUFFICES ASSUME Contented, Restartable, Stopped, closed = "ok", Opened.ok, NEW k \in Key
               PROVE  /\ Visible(OpenedEntry(Opened, k)) \in
                            {Visible(e) : e \in IF done[k] = {} THEN {0} ELSE done[k] \ stale[k]}
                      /\ ~setting.wal => Visible(OpenedEntry(Opened, k)) = Visible(current[k])
    BY DEF RestartKeepsReturned
  <2>1. Control /\ Store /\ Fresh /\ Stands /\ Drained
    BY DEF Contented, Engine, Restartable
  <2> DEFINE v == Visible(OpenedEntry(Opened, k))
             R == IF done[k] = {} THEN {0} ELSE done[k] \ stale[k]
  <2>2. v \in (IF done[k] = {} THEN {0} ELSE Shown(Standing(k)))
        /\ (~setting.wal => v = Visible(current[k]))
    <3>1. CASE setting.wal
      <4>1. LogsStand(k) /\ TablesStand(k)
        BY <2>1, <3>1 DEF Stands
      <4> QED BY <2>1, <3>1, <4>1, LogsRead
    <3>2. CASE ~setting.wal
      BY <2>1, <3>2, TablesRead
    <3> QED BY <3>1, <3>2
  <2> HIDE DEF v
  <2>3. (IF done[k] = {} THEN {0} ELSE Shown(Standing(k))) \subseteq {Visible(e) : e \in R}
    <3>1. CASE done[k] = {}
      <4>1. 0 \in R /\ Visible(0) = 0
        BY <3>1 DEF Visible
      <4> QED BY <3>1, <4>1
    <3>2. CASE done[k] # {}
      BY <3>2 DEF Shown, Standing
    <3> QED BY <3>1, <3>2
  <2>4. v \in {Visible(e) : e \in R}
    BY <2>2, <2>3
  <2> QED BY <2>2, <2>4 DEF v
<1> QED BY <1>1, ContentedHolds, RestartHolds, PTL

=============================================================================
