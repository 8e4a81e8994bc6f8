---------------------------- MODULE Week2Proofs ----------------------------
(***************************************************************************)
(* Proofs about Week2: flush, compaction and open keep memory, files, logs *)
(* and manifest in order; the state reads as the insertions left it; get   *)
(* and scan answer from the time of the call.                              *)
(***************************************************************************)
EXTENDS Week2StepProofs

-----------------------------------------------------------------------------
(* Steps that replace the tables of the state.                             *)

\* The oldest memtable leaves, its table becomes the newest of L0.
LEMMA FlushedIs ==
    ASSUME Store, st.imm # <<>>, NEW i, i = Last(st.imm), st' = Flushed(st)
    PROVE  /\ st' \in State /\ st'.mem = st.mem /\ st'.l0 = <<i>> \o st.l0 /\ st'.levels = st.levels
           /\ st'.imm = Front(st.imm) /\ i \in Nat /\ i < st.mem
           /\ Ids(st.imm) = Ids(st'.imm) \cup {i} /\ i \notin Ids(st'.imm)
           /\ MemIds = MemIds' \cup {i} /\ i \notin MemIds'
           /\ TableIds(st') = TableIds(st) \cup {i}
           /\ \A p, q \in DOMAIN st'.imm : p < q => st'.imm[p] > st'.imm[q]
           /\ \A j \in Ids(st'.imm) : j < st'.mem
           /\ \A j \in Ids(st'.imm) : j > i
           /\ st.imm = st'.imm \o <<i>>
<1>1. st \in State /\ st.imm \in Seq(Nat) /\ st.mem \in Nat /\ st.l0 \in Seq(Nat) /\ st.levels \in Seq(Seq(Nat))
  BY DEF Store, StoreTyped, State
<1>2. /\ Front(st.imm) \in Seq(Nat) /\ Len(Front(st.imm)) = Len(st.imm) - 1
      /\ Len(st.imm) \in Nat \ {0}
      /\ \A p \in 1..Len(st.imm) - 1 : Front(st.imm)[p] = st.imm[p]
      /\ i = st.imm[Len(st.imm)] /\ i \in Ids(st.imm) /\ i \in Nat
      /\ Ids(st.imm) = Ids(Front(st.imm)) \cup {i}
      /\ st.imm = Front(st.imm) \o <<i>>
  BY <1>1, FrontOf
<1>3. <<i>> \o st.l0 \in Seq(Nat) /\ Ids(<<i>> \o st.l0) = {i} \cup Ids(st.l0)
  BY <1>1, <1>2, Prepended
<1>4. st'.mem = st.mem /\ st'.l0 = <<i>> \o st.l0 /\ st'.levels = st.levels /\ st'.imm = Front(st.imm)
  BY <1>1 DEF Flushed, State
<1>5. st' \in State
  <2> DEFINE f == Front(st.imm)
             n == <<i>> \o st.l0
  <2>1. f \in Seq(Nat) /\ n \in Seq(Nat) /\ st' = [st EXCEPT !.imm = f, !.l0 = n]
    BY <1>1, <1>2, <1>3 DEF Flushed, State
  <2> HIDE DEF f, n
  <2> QED BY <1>1, <2>1 DEF State
<1>6. /\ \A p, q \in DOMAIN st.imm : p < q => st.imm[p] > st.imm[q]
      /\ \A j \in Ids(st.imm) : j < st.mem
  BY DEF Store, Memtables
<1>7. DOMAIN st'.imm = 1..Len(st.imm) - 1 /\ DOMAIN st.imm = 1..Len(st.imm)
      /\ \A p \in 1..Len(st.imm) - 1 : st'.imm[p] = st.imm[p]
  BY <1>1, <1>2, <1>4
<1>8. \A p, q \in DOMAIN st'.imm : p < q => st'.imm[p] > st'.imm[q]
  <2>1. \A p \in DOMAIN st'.imm : p \in DOMAIN st.imm /\ st'.imm[p] = st.imm[p]
    <3>1. \A n \in Nat \ {0} : \A p \in 1..n - 1 : p \in 1..n
      OBVIOUS
    <3>2. \A p \in 1..Len(st.imm) - 1 : p \in 1..Len(st.imm)
      BY <1>2, <3>1
    <3> QED BY <1>7, <3>2
  <2> QED BY <1>6, <2>1
<1>9. \A j \in Ids(st'.imm) : j > i
  <2>1. ASSUME NEW p \in 1..Len(st.imm) - 1 PROVE st'.imm[p] > i
    <3>1. p \in DOMAIN st.imm /\ Len(st.imm) \in DOMAIN st.imm /\ p < Len(st.imm)
      BY <1>2, <1>7
    <3> QED BY <1>2, <1>6, <1>7, <3>1
  <2>2. Len(st'.imm) = Len(st.imm) - 1
    BY <1>2, <1>4
  <2> QED BY <2>1, <2>2 DEF Ids
<1>10. Ids(st.imm) = Ids(st'.imm) \cup {i} /\ i \notin Ids(st'.imm)
  BY <1>2, <1>4, <1>9
<1>11. i < st.mem /\ \A j \in Ids(st'.imm) : j < st'.mem
  BY <1>2, <1>4, <1>6, <1>10
<1>12. MemIds = MemIds' \cup {i} /\ i \notin MemIds'
  <2>1. MemIds' = Ids(st'.imm) \cup {st'.mem}
    BY DEF MemIds, Ids
  <2>2. MemIds = Ids(st.imm) \cup {st.mem}
    BY DEF MemIds
  <2> QED BY <1>1, <1>2, <1>4, <1>10, <1>11, <2>1, <2>2
<1>13. TableIds(st') = TableIds(st) \cup {i}
  BY <1>3, <1>4 DEF TableIds
<1> QED BY <1>2, <1>4, <1>5, <1>8, <1>9, <1>10, <1>11, <1>12, <1>13

\* A flushed memtable's table enters L0.
LEMMA FlushInstallStores ==
    ASSUME Control, Store, NEW t \in Thread, FlushInstall(t), Last(st.imm) = loc[t].id
    PROVE  Store'
<1> DEFINE i == loc[t].id
           rec == [kind |-> "flush", id |-> i]
<1>1. /\ at[t] = "flush.install" /\ ~GuardHeld /\ st' = Flushed(st)
      /\ manifest' = Append(manifest, rec)
      /\ wal' = IF setting.wal THEN [j \in DOMAIN wal \ {i} |-> wal[j]] ELSE wal
      /\ mt' = mt /\ sst' = sst /\ files' = files /\ nextId' = nextId
      /\ mode' = mode /\ setting' = setting /\ writes' = writes
      /\ Goto(t, "close.drain", [op |-> "close"]) \/ Goto(t, "idle", NoOp)
  BY DEF FlushInstall, controlVars, historyVars
<1>2. PICK p \in {"close.drain", "idle"} : \E l : Goto(t, p, l)
  BY <1>1
<1>3. PICK l : Goto(t, p, l)
  BY <1>2
<1>4. /\ at'[t] = p /\ \A u \in Thread : u # t => at'[u] = at[u] /\ loc'[u] = loc[u]
  BY <1>3, Moved
<1>5. /\ StoreTyped /\ Memtables /\ TablesApart /\ TablesHeld /\ Jobs /\ TasksFit /\ InputsLast
      /\ Clones /\ LogsKept /\ Replays
  BY DEF Store
<1>6. /\ st.imm # <<>> /\ i = Last(st.imm) /\ i \in Ids(st.imm) /\ i \in MemIds
      /\ i \in Nat /\ i \in DOMAIN sst /\ i \in files /\ i \in DOMAIN mt /\ i \notin Held
  BY <1>1, FlushOf
<1>7. \A u \in Thread : u # t => at[u] \notin Holding
  BY <1>1, Alone DEF Holding
<1>8. \A d \in Client : at'[d] \notin {"swap", "append"}
  <2>1. \A d \in Client : at[d] # "append"
    BY <1>1 DEF GuardHeld
  <2> QED BY <1>2, <1>4, <1>7, <2>1, ThreadsApart DEF Holding
<1> HIDE DEF i
<1>9. /\ st' \in State /\ st'.mem = st.mem /\ st'.l0 = <<i>> \o st.l0 /\ st'.levels = st.levels
      /\ i < st.mem
      /\ Ids(st.imm) = Ids(st'.imm) \cup {i} /\ i \notin Ids(st'.imm)
      /\ MemIds = MemIds' \cup {i} /\ i \notin MemIds'
      /\ TableIds(st') = TableIds(st) \cup {i}
      /\ \A x, y \in DOMAIN st'.imm : x < y => st'.imm[x] > st'.imm[y]
      /\ \A j \in Ids(st'.imm) : j < st'.mem
  BY <1>1, <1>6, FlushedIs
<1>10. /\ setting.wal => DOMAIN wal' = DOMAIN wal \ {i} /\ \A j \in DOMAIN wal' : wal'[j] = wal[j]
       /\ ~setting.wal => wal' = wal
       /\ DOMAIN wal' \subseteq DOMAIN wal /\ \A j \in DOMAIN wal' : wal'[j] = wal[j]
       /\ wal' = [j \in DOMAIN wal' |-> wal'[j]]
  <2>1. wal = [j \in DOMAIN wal |-> wal[j]]
    BY <1>5 DEF StoreTyped
  <2> QED BY <1>1, <2>1
<1>11. StoreTyped'
  <2>1. Entry' = Entry /\ Len(st'.levels) = Len(st.levels)
    BY <1>1, <1>9 DEF Entry
  <2>2. (wal \in [DOMAIN wal -> Seq([k : Key, e : Int])])'
    <3>1. \A j \in DOMAIN wal' : wal'[j] \in Seq([k : Key, e : Int])
      BY <1>5, <1>10 DEF StoreTyped
    <3> QED BY <1>10, <3>1
  <2>3. (\A j \in DOMAIN wal : \A n \in DOMAIN wal[j] : wal[j][n].e \in Entry)'
    BY <1>5, <1>10, <2>1 DEF StoreTyped
  <2>4. DOMAIN wal' \subseteq 0..(nextId' - 1)
    BY <1>1, <1>5, <1>10 DEF StoreTyped
  <2> QED BY <1>1, <1>5, <1>8, <1>9, <2>1, <2>2, <2>3, <2>4 DEF StoreTyped
<1>12. Lands(t, p, l)
  BY <1>2 DEF Lands, Working, ClonePlaces
<1>13. Held' \subseteq Held \cup {i}
  <2>1. TableIds(st)' \subseteq Held \cup {i}
    <3>1. TableIds(st)' = TableIds(st')
      BY DEF TableIds, Ids
    <3> QED BY <1>9, <3>1, HeldHas
  <2>2. p \notin {"apply", "install"}
    BY <1>2
  <2> QED BY <1>3, <1>12, <2>1, <2>2, HeldAfter
<1>14. Memtables'
  <2>1. MemIds' \subseteq DOMAIN mt
    BY <1>5, <1>9 DEF Memtables
  <2> QED BY <1>1, <1>8, <1>9, <2>1 DEF Memtables, Ids
<1>15. TablesApart'
  <2>1. i \notin TableIds(st)
    BY <1>6, HeldHas
  <2>2. /\ i \notin Ids(st.l0) /\ \A n \in DOMAIN st.levels : i \notin Ids(st.levels[n])
    BY <2>1 DEF TableIds
  <2>3. st.l0 \in Seq(Nat)
    BY <1>5 DEF StoreTyped, State
  <2>4. /\ <<i>> \o st.l0 \in Seq(Nat) /\ Len(<<i>> \o st.l0) = Len(st.l0) + 1
        /\ (<<i>> \o st.l0)[1] = i
        /\ \A n \in 2..Len(st.l0) + 1 : (<<i>> \o st.l0)[n] = st.l0[n - 1]
        /\ Ids(<<i>> \o st.l0) = {i} \cup Ids(st.l0)
    BY <1>6, <2>3, Prepended
  <2>5. Distinct(st.l0)
    BY <1>5 DEF TablesApart, Apart
  <2>6. ASSUME NEW x \in DOMAIN st'.l0, NEW y \in DOMAIN st'.l0, x < y PROVE st'.l0[x] # st'.l0[y]
    <3>1. Len(st.l0) \in Nat /\ DOMAIN st.l0 = 1..Len(st.l0) /\ DOMAIN st'.l0 = 1..Len(st.l0) + 1
      BY <1>9, <2>3, <2>4
    <3>2. y \in 2..Len(st.l0) + 1 /\ y - 1 \in 1..Len(st.l0)
      BY <2>6, <3>1
    <3>3. st'.l0[y] = st.l0[y - 1]
      BY <1>9, <2>4, <3>2
    <3>4. CASE x = 1
      BY <1>9, <2>2, <2>4, <3>2, <3>3, <3>4 DEF Ids
    <3>5. CASE x # 1
      <4>1. x \in 2..Len(st.l0) + 1 /\ x - 1 \in 1..Len(st.l0) /\ x - 1 # y - 1
        BY <2>6, <3>1, <3>2, <3>5
      <4>2. st'.l0[x] = st.l0[x - 1]
        BY <1>9, <2>4, <4>1
      <4> QED BY <2>5, <3>1, <3>2, <3>3, <4>1, <4>2 DEF Distinct
    <3> QED BY <3>4, <3>5
  <2>7. Distinct(st'.l0)
    <3>1. DOMAIN st'.l0 \subseteq Int
      BY <1>9, <2>4
    <3>2. \A x, y \in DOMAIN st'.l0 : x # y => x < y \/ y < x
      BY <3>1
    <3> QED BY <2>6, <3>2 DEF Distinct
  <2>8. Apart(st')
    <3>1. Ids(st'.l0) = {i} \cup Ids(st.l0) /\ st'.levels = st.levels
      BY <1>9, <2>4
    <3>2. Apart(st)
      BY <1>5 DEF TablesApart
    <3> QED BY <2>2, <2>7, <3>1, <3>2 DEF Apart
  <2> QED BY <2>8 DEF TablesApart, Apart, Distinct, Ids
<1>16. TablesHeld'
  <2>1. Held \subseteq DOMAIN sst \cap 0..(nextId - 1) /\ Held \cap MemIds = {} /\ TableIds(st) \subseteq files
    BY <1>5 DEF TablesHeld
  <2>2. i \in 0..(nextId - 1)
    BY <1>5, <1>6 DEF StoreTyped
  <2>3. Held' \subseteq DOMAIN sst \cap 0..(nextId - 1) /\ Held' \cap MemIds' = {} /\ TableIds(st') \subseteq files
    BY <1>6, <1>9, <1>13, <2>1, <2>2
  <2> QED BY <1>1, <2>3 DEF TablesHeld
<1>17. Jobs'
  <2>1. StoreGrows(t, {i})
    <3>1. TableIds(st') \subseteq TableIds(st) \cup {i} /\ {i} \cap Held = {}
      BY <1>6, <1>9
    <3>2. \A u \in Builders : Outputs(u) \subseteq files'
      BY <1>1, <1>5 DEF Jobs
    <3>3. \A u \in Thread : u # t => at[u] # "install" /\ at[u] # "flush.install"
      BY <1>7 DEF Holding
    <3> QED BY <3>1, <3>2, <3>3 DEF StoreGrows
  <2>2. p \notin {"apply", "remove", "install", "flush.install"}
    BY <1>2
  <2> QED BY <1>3, <1>5, <1>12, <2>1, <2>2, JobsKept
<1>18. TasksFit' /\ InputsLast'
  <2>1. Len(st'.levels) = Len(st.levels)
    BY <1>9
  <2>2. p \notin Working
    BY <1>2 DEF Working
  <2>3. \A u \in Compacting : i \notin Taken(u)
    BY <1>6, HeldHas
  <2> QED BY <1>3, <1>5, <1>6, <1>9, <1>12, <2>1, <2>2, <2>3, TasksKept, InputsKept
<1>19. Clones'
  <2>1. Len(st'.levels) = Len(st.levels) /\ st'.mem \in Nat /\ st.mem <= st'.mem /\ DOMAIN mt \subseteq DOMAIN mt'
    BY <1>1, <1>9 DEF State
  <2> QED BY <1>3, <1>5, <1>12, <2>1, ClonesKept
<1>20. LogsKept'
  BY <1>1, <1>5, <1>8, <1>9, <1>10 DEF LogsKept
<1>21. Replays'
  <2>1. rec \in ManifestRecord
    BY <1>6 DEF ManifestRecord, i
  <2>2. rec.kind # "full" /\ rec = [kind |-> "flush", id |-> i]
    OBVIOUS
  <2> HIDE DEF rec
  <2>3. /\ manifest' \in Seq(ManifestRecord) /\ ManifestRecord' = ManifestRecord
        /\ NoFull' <=> NoFull
        /\ Replay' = Replayed(Replay, rec)
        /\ DOMAIN Replay = {"ok", "mems", "ids", "s"}
        /\ ~NoFull => ~Replay.ok
    BY <1>1, <1>5, <2>1, <2>2, Recorded
  <2> HIDE DEF Replay
  <2>4. /\ Replay'.ok <=> Replay.ok /\ i \in Replay.mems
        /\ Replay'.mems = Replay.mems \ {i} /\ Replay'.ids = Replay.ids \cup {i}
        /\ Replay'.s = [Replay.s EXCEPT !.l0 = <<i>> \o @]
    BY <2>2, <2>3, ReplayedIs
  <2>5. CASE ~NoFull
    BY <2>3, <2>4, <2>5 DEF Replays
  <2>6. CASE NoFull
    <3>1. /\ Replay.ok
          /\ Replay.s = [mem |-> 0, imm |-> <<>>, l0 |-> st.l0, levels |-> st.levels]
          /\ Replay.mems \subseteq Replay.ids
          /\ Ids(st.imm) \subseteq Replay.mems
          /\ TableIds(st) \subseteq Replay.ids
          /\ 1 \in Replay.ids /\ Replay.ids \subseteq 0..nextId
          /\ setting.wal =>
                  /\ st.mem \in Replay.mems
                  /\ DOMAIN wal = Replay.mems \cup Coming
                  /\ \A j \in Replay.mems \ MemIds : Recovered(wal[j]) = Nothing
          /\ Recording => st.mem \in Replay.mems
      BY <1>5, <2>6 DEF Replays
    <3>2. Coming' = Coming
      BY <1>1, <1>2, <1>3, ComingOf
    <3>3. Coming' = {}
      BY <1>8 DEF Coming
    <3>4. Recording' => Recording
      BY <1>1, <1>2, <1>4, ThreadsApart DEF Recording
    <3>5. i \in Replay.mems /\ i \in 0..nextId /\ i # st.mem
      <4>1. st.mem \in Nat
        BY <1>5 DEF StoreTyped, State
      <4> QED BY <1>6, <1>9, <3>1, <4>1
    <3>6. Ids(st'.imm) \subseteq Replay'.mems
      BY <1>9, <2>4, <3>1
    <3>7. setting.wal =>
                  /\ st'.mem \in Replay'.mems
                  /\ DOMAIN wal' = Replay'.mems \cup Coming'
                  /\ \A j \in Replay'.mems \ MemIds' : Recovered(wal'[j]) = Nothing
      <4>1. ASSUME setting.wal
            PROVE  /\ st'.mem \in Replay'.mems
                   /\ DOMAIN wal' = Replay'.mems \cup Coming'
                   /\ \A j \in Replay'.mems \ MemIds' : Recovered(wal'[j]) = Nothing
        <5>1. DOMAIN wal' = Replay.mems \ {i}
          BY <1>10, <3>1, <3>2, <3>3, <4>1
        <5>2. \A j \in Replay'.mems \ MemIds' : j \in Replay.mems \ MemIds /\ j # i
          BY <1>9, <2>4
        <5> QED BY <1>9, <1>10, <2>4, <3>1, <3>3, <3>5, <4>1, <5>1, <5>2
      <4> QED BY <4>1
    <3>8. Replay'.s = [mem |-> 0, imm |-> <<>>, l0 |-> st'.l0, levels |-> st'.levels]
      <4>1. \A a, b, x : [[mem |-> 0, imm |-> <<>>, l0 |-> a, levels |-> b] EXCEPT !.l0 = x]
                            = [mem |-> 0, imm |-> <<>>, l0 |-> x, levels |-> b]
        OBVIOUS
      <4> DEFINE x == <<i>> \o st.l0
                 s == Replay.s
      <4>2. Replay'.s = [s EXCEPT !.l0 = x]
        <5>1. s.l0 = st.l0
          BY <3>1
        <5> QED BY <2>4, <5>1
      <4>3. s = [mem |-> 0, imm |-> <<>>, l0 |-> st.l0, levels |-> st.levels]
        BY <3>1
      <4> HIDE DEF x, s
      <4>4. Replay'.s = [mem |-> 0, imm |-> <<>>, l0 |-> x, levels |-> st.levels]
        BY <4>1, <4>2, <4>3
      <4> QED BY <1>9, <4>4 DEF x
    <3>9. /\ Replay'.ok /\ Replay'.mems \subseteq Replay'.ids /\ TableIds(st') \subseteq Replay'.ids
          /\ 1 \in Replay'.ids /\ Replay'.ids \subseteq 0..nextId' /\ (Recording' => st'.mem \in Replay'.mems)
      BY <1>1, <1>9, <2>4, <3>1, <3>4, <3>5
    <3>10. TableIds(st)' = TableIds(st') /\ Ids(st.imm)' = Ids(st'.imm)
      BY DEF TableIds, Ids
    <3> QED BY <1>1, <2>3, <2>6, <3>6, <3>7, <3>8, <3>9, <3>10 DEF Replays
  <2> QED BY <2>5, <2>6
<1> QED BY <1>11, <1>14, <1>15, <1>16, <1>17, <1>18, <1>19, <1>20, <1>21 DEF Store

\* Ranges of naturals grow with their end.
LEMMA RangesGrow ==
    \A a, b \in Nat : a <= b => 0..(a - 1) \subseteq 0..(b - 1)
OBVIOUS

\* What a compaction merges are entries of the tables.
LEMMA MergedEntries ==
    ASSUME Control, Store, NEW t \in Compacting
    PROVE  /\ Merged(loc[t].task) = MergedOf(sst, loc[t].task) /\ Merged(loc[t].task) \in Table
           /\ \A k \in Key : Merged(loc[t].task)[k] \in Entry
           /\ loc[t].task \in Task /\ loc[t].task.bottom \in BOOLEAN
<1> DEFINE task == loc[t].task
<1>1. t \in Thread /\ at[t] \in {"merge", "apply", "install", "remove"}
  BY DEF Compacting
<1>2. AtHand(sst, task.us) /\ AtHand(sst, task.ls)
  BY <1>1, TaskAtHand DEF Store
<1>3. task \in Task /\ task.bottom \in BOOLEAN
  BY <1>1, CompactedBy, TaskOf
<1> HIDE DEF task
<1>4. Merged(task) = MergedOf(sst, task) /\ Merged(task) \in Table
  BY <1>2, MergedIs
<1>5. 0 \in Entry
  <2>1. writes \in Nat
    BY DEF Control, Typed
  <2> QED BY <2>1 DEF Entry
<1>6. ASSUME NEW ids, AtHand(sst, ids), NEW k \in Key PROVE Lookup(sst, ids, k) \in Entry
  <2>1. Lookup(sst, ids, k) # 0 => \E i \in Ids(ids) : Lookup(sst, ids, k) = sst[i][k]
    BY <1>6, LookupType
  <2>2. \A i \in Ids(ids) : i \in DOMAIN sst
    BY <1>6 DEF AtHand
  <2>3. \A i \in DOMAIN sst : sst[i][k] \in Entry
    BY DEF Store, StoreTyped
  <2> QED BY <1>5, <2>1, <2>2, <2>3
<1>7. ASSUME NEW k \in Key PROVE Merged(task)[k] \in Entry
  <2>1. Lookup(sst, task.us, k) \in Entry /\ Lookup(sst, task.ls, k) \in Entry
    BY <1>2, <1>6
  <2>2. Merged(task)[k] = Or(Lookup(sst, task.us, k), Lookup(sst, task.ls, k))
    BY <1>4 DEF MergedOf
  <2> QED BY <2>1, <2>2 DEF Or
<1> QED BY <1>3, <1>4, <1>7 DEF task

\* The tables that are built hold entries of the merged one.
LEMMA OutOfEntries ==
    ASSUME NEW m \in Table, NEW bottom \in BOOLEAN
    PROVE  LET b == Built(m, bottom) IN
           /\ b \in Builder
           /\ \A i \in 1..Len(OutOf(b)), k \in Key : OutOf(b)[i][k] \in {0, m[k]}
           /\ ~Dead(b) => \A k \in Key : Newest(OutOf(b), k) = KeptEntry(m, bottom, k)
           /\ Dead(b) => bottom /\ \E k \in Key : m[k] < 0
<1> DEFINE b == Built(m, bottom)
<1>1. BuiltUpTo(b, m, bottom, MaxKey)
  BY BuiltAll
<1> HIDE DEF b
<1>2. /\ b \in Builder
      /\ \A k \in Key : Or(Newest(b.out, k), b.cur[k]) = IF k <= MaxKey THEN KeptEntry(m, bottom, k) ELSE 0
      /\ \A k \in Key : b.cur[k] \in {0, m[k]}
      /\ \A k \in Key, i \in 1..Len(b.out) : b.out[i][k] \in {0, m[k]}
      /\ ~b.open => b.cur = Nothing
      /\ b.open /\ b.cur = Nothing => bottom /\ \E j \in Key : m[j] < 0
  BY <1>1 DEF BuiltUpTo
<1>3. b.out \in Seq(Table) /\ b.cur \in Table /\ b.open \in BOOLEAN
  BY <1>2 DEF Builder
<1>4. \A k \in Key : Or(Newest(b.out, k), b.cur[k]) = KeptEntry(m, bottom, k)
  BY <1>2, Week2Assumption DEF Key
<1>5. ASSUME NEW i \in 1..Len(OutOf(b)), NEW k \in Key PROVE OutOf(b)[i][k] \in {0, m[k]}
  <2>1. CASE b.open /\ ~Dead(b)
    <3>1. OutOf(b) = Append(b.out, b.cur)
      BY <2>1 DEF OutOf
    <3>2. Len(b.out) \in Nat /\ Len(OutOf(b)) = Len(b.out) + 1
      BY <1>3, <3>1
    <3>3. CASE i = Len(b.out) + 1
      <4>1. OutOf(b)[i] = b.cur
        BY <1>3, <3>1, <3>3
      <4> QED BY <1>2, <4>1
    <3>4. CASE i # Len(b.out) + 1
      <4>1. i \in 1..Len(b.out) /\ OutOf(b)[i] = b.out[i]
        BY <1>3, <1>5, <3>1, <3>2, <3>4
      <4> QED BY <1>2, <4>1
    <3> QED BY <3>3, <3>4
  <2>2. CASE ~(b.open /\ ~Dead(b))
    <3>1. OutOf(b) = b.out
      BY <2>2 DEF OutOf
    <3> QED BY <1>2, <1>5, <3>1
  <2> QED BY <2>1, <2>2
<1>6. ASSUME ~Dead(b), NEW k \in Key PROVE Newest(OutOf(b), k) = KeptEntry(m, bottom, k)
  <2>1. CASE b.open
    <3>1. OutOf(b) = b.out \o <<b.cur>>
      <4>1. OutOf(b) = Append(b.out, b.cur)
        BY <1>6, <2>1 DEF OutOf
      <4> QED BY <1>3, <4>1
    <3>2. <<b.cur>> \in Seq(Table) /\ Newest(<<b.cur>>, k) = b.cur[k]
      BY <1>3, NewestSmall
    <3>3. Newest(OutOf(b), k) = Or(Newest(b.out, k), Newest(<<b.cur>>, k))
      BY <1>3, <3>1, <3>2, NewestJoined
    <3> QED BY <1>4, <3>2, <3>3
  <2>2. CASE ~b.open
    <3>1. OutOf(b) = b.out /\ b.cur[k] = 0
      BY <1>2, <2>2 DEF OutOf, Nothing
    <3>2. Or(Newest(b.out, k), 0) = Newest(b.out, k)
      BY DEF Or
    <3> QED BY <1>4, <3>1, <3>2
  <2> QED BY <1>3, <2>1, <2>2
<1>7. Dead(b) => bottom /\ \E k \in Key : m[k] < 0
  BY <1>2 DEF Dead, IsEmptyTable
<1> QED BY <1>2, <1>5, <1>6, <1>7 DEF b

\* The tables of a compaction are built.
LEMMA MergeStores ==
    ASSUME Control, Store, NEW t \in Thread, Merge(t)
    PROVE  Store'
<1> DEFINE b == MergeResult(t)
           N == Ids(OutIds(b))
           m == Merged(loc[t].task)
           la == [op |-> "compact", task |-> loc[t].task, ids |-> OutIds(b)]
<1>1. /\ at[t] = "merge"
      /\ sst' = [i \in DOMAIN sst \cup N |-> IF i \in N THEN OutOf(b)[i - nextId + 1] ELSE sst[i]]
      /\ files' = files \cup N
      /\ nextId' = nextId + Len(OutOf(b)) + (IF Dead(b) THEN 1 ELSE 0)
      /\ IF Dead(b) THEN Panic(t, "empty table") ELSE Goto(t, "apply", la)
      /\ UNCHANGED <<st, mt, wal, manifest, lock, controlVars, historyVars, left, setting>>
  BY MergeIs
<1>2. /\ st' = st /\ mt' = mt /\ wal' = wal /\ manifest' = manifest /\ setting' = setting
      /\ writes' = writes /\ mode' = mode
  BY <1>1 DEF controlVars, historyVars
<1>3. t \in Compacting
  BY <1>1 DEF Compacting
<1>4. m \in Table /\ (\A k \in Key : m[k] \in Entry) /\ loc[t].task \in Task /\ loc[t].task.bottom \in BOOLEAN
  BY <1>3, MergedEntries
<1>5. b \in Builder /\ \A i \in 1..Len(OutOf(b)), k \in Key : OutOf(b)[i][k] \in {0, m[k]}
  <2> HIDE DEF m
  <2>1. b = Built(m, loc[t].task.bottom)
    BY DEF MergeResult, m
  <2> HIDE DEF b
  <2> QED BY <1>4, <2>1, OutOfEntries
<1>6. /\ StoreTyped /\ Memtables /\ TablesApart /\ TablesHeld /\ Jobs /\ TasksFit /\ InputsLast
      /\ Clones /\ LogsKept /\ Replays
  BY DEF Store
<1>7. nextId \in Nat
  BY <1>6 DEF StoreTyped
<1> HIDE DEF b, m
<1>8. /\ OutOf(b) \in Seq(Table) /\ Len(OutOf(b)) \in Nat
      /\ OutIds(b) \in Seq(Nat) /\ N = nextId..(nextId + Len(OutOf(b)) - 1)
  BY <1>5, <1>7, OutIdsOf
<1>9. /\ nextId' \in Nat /\ nextId <= nextId' /\ N \subseteq 0..(nextId' - 1) /\ \A x \in N : x >= nextId
      /\ \A i \in N : i - nextId + 1 \in 1..Len(OutOf(b))
  <2> DEFINE len == Len(OutOf(b))
  <2>1. len \in Nat /\ N = nextId..(nextId + len - 1)
    BY <1>8
  <2>2. nextId' = nextId + len \/ nextId' = nextId + len + 1
    <3>1. nextId' = nextId + len + (IF Dead(b) THEN 1 ELSE 0)
      BY <1>1
    <3> HIDE DEF len
    <3>2. CASE Dead(b)
      BY <3>1, <3>2
    <3>3. CASE ~Dead(b)
      <4>1. nextId + len + 0 = nextId + len
        BY <1>7, <2>1
      <4> QED BY <3>1, <3>3, <4>1
    <3> QED BY <3>2, <3>3
  <2> HIDE DEF len, N
  <2>3. /\ nextId' \in Nat /\ nextId <= nextId' /\ N \subseteq 0..(nextId' - 1) /\ \A x \in N : x >= nextId
        /\ \A i \in N : i - nextId + 1 \in 1..len
    BY <1>7, <2>1, <2>2
  <2> QED BY <2>3 DEF len
<1>10. PICK p \in {"apply", "panicked"} : \E l : Goto(t, p, l) /\ (p = "apply" => l = la)
  BY <1>1 DEF Panic
<1>11. PICK l : Goto(t, p, l) /\ (p = "apply" => l.task = loc[t].task /\ l.ids = OutIds(b))
  <2>1. la.task = loc[t].task /\ la.ids = OutIds(b)
    OBVIOUS
  <2> HIDE DEF la
  <2> QED BY <1>10, <2>1
<1> HIDE DEF la
<1>12. /\ at'[t] = p /\ \A d \in Client : d # t => at'[d] = at[d] /\ loc'[d] = loc[d]
  BY <1>11, Moved, ThreadsApart
<1>13. /\ Held \subseteq DOMAIN sst \cap 0..(nextId - 1) /\ Held \cap MemIds = {} /\ TableIds(st) \subseteq files
       /\ N \cap Held = {}
  <2>1. /\ Held \subseteq DOMAIN sst \cap 0..(nextId - 1) /\ Held \cap MemIds = {} /\ TableIds(st) \subseteq files
    BY <1>6 DEF TablesHeld
  <2> HIDE DEF N
  <2>2. \A x \in 0..(nextId - 1) : ~(x >= nextId)
    BY <1>7
  <2> QED BY <1>9, <2>1, <2>2
<1>14. \A i \in DOMAIN mt \cup DOMAIN wal : i \notin N
  <2>1. DOMAIN mt \subseteq 0..(nextId - 1) /\ DOMAIN wal \subseteq 0..(nextId - 1)
    BY <1>6 DEF StoreTyped
  <2> HIDE DEF N
  <2>2. \A x \in 0..(nextId - 1) : ~(x >= nextId)
    BY <1>7
  <2> QED BY <1>9, <2>1, <2>2
<1>15. /\ DOMAIN sst' = DOMAIN sst \cup N
       /\ \A i \in N : sst'[i] = OutOf(b)[i - nextId + 1]
       /\ \A i \in DOMAIN sst : i \notin N => sst'[i] = sst[i]
       /\ sst' = [i \in DOMAIN sst' |-> sst'[i]]
  <2> HIDE DEF N
  <2> QED BY <1>1
<1> HIDE DEF N
<1>16. StoreTyped'
  <2>1. Entry' = Entry /\ 0 \in Entry
    <3>1. writes \in Nat
      BY DEF Control, Typed
    <3> QED BY <1>2, <3>1 DEF Entry
  <2>2. (sst \in [DOMAIN sst -> Table])'
    <3>1. ASSUME NEW i \in DOMAIN sst' PROVE sst'[i] \in Table
      <4>1. CASE i \in N
        <5>1. OutOf(b)[i - nextId + 1] \in Table
          BY <1>8, <1>9, <4>1
        <5> QED BY <1>15, <4>1, <5>1
      <4>2. CASE i \notin N
        BY <1>6, <1>15, <3>1, <4>2 DEF StoreTyped
      <4> QED BY <4>1, <4>2
    <3> QED BY <1>15, <3>1
  <2>3. (\A i \in DOMAIN sst, k \in Key : sst[i][k] \in Entry)'
    <3>1. ASSUME NEW i \in DOMAIN sst', NEW k \in Key PROVE sst'[i][k] \in Entry
      <4>1. CASE i \in N
        <5>1. OutOf(b)[i - nextId + 1][k] \in {0, m[k]}
          BY <1>5, <1>9, <4>1
        <5> QED BY <1>4, <1>15, <2>1, <4>1, <5>1
      <4>2. CASE i \notin N
        BY <1>6, <1>15, <3>1, <4>2 DEF StoreTyped
      <4> QED BY <4>1, <4>2
    <3> QED BY <2>1, <3>1
  <2>4. (\A d \in Client : at[d] = "append" => loc[d].e \in Entry)'
    BY <1>6, <1>10, <1>12, <2>1 DEF StoreTyped
  <2>5. (DOMAIN mt \subseteq 0..(nextId - 1))' /\ (DOMAIN wal \subseteq 0..(nextId - 1))'
    <3>1. DOMAIN mt \subseteq 0..(nextId - 1) /\ DOMAIN wal \subseteq 0..(nextId - 1)
      BY <1>6 DEF StoreTyped
    <3>2. 0..(nextId - 1) \subseteq 0..(nextId' - 1)
      BY <1>7, <1>9, RangesGrow
    <3> QED BY <1>2, <3>1, <3>2
  <2>6. (\A i \in DOMAIN mt, k \in Key : mt[i].data[k] \in Entry)' /\ (\A i \in DOMAIN wal : \A n \in DOMAIN wal[i] : wal[i][n].e \in Entry)'
    BY <1>2, <1>6, <2>1 DEF StoreTyped
  <2>7. (mt \in [DOMAIN mt -> Memtable])' /\ (wal \in [DOMAIN wal -> Seq([k : Key, e : Int])])'
    BY <1>2, <1>6 DEF StoreTyped
  <2> QED BY <1>2, <1>6, <1>9, <2>2, <2>3, <2>4, <2>5, <2>6, <2>7 DEF StoreTyped
<1>17. MemIds' = MemIds /\ TableIds(st') = TableIds(st) /\ TableIds(st)' = TableIds(st)
  BY <1>2 DEF MemIds, Ids, TableIds
<1>18. Lands(t, p, l)
  BY <1>1, <1>3, <1>10, <1>11 DEF Lands, Working, ClonePlaces
<1>19. Held' \subseteq Held \cup N
  <2>1. TableIds(st)' \subseteq Held \cup N
    BY <1>17, HeldHas
  <2>2. p \in {"apply", "install"} => Ids(l.ids) \subseteq Held \cup N
    BY <1>10, <1>11 DEF N
  <2> QED BY <1>11, <1>18, <2>1, <2>2, HeldAfter
<1>20. TablesApart'
  <2>1. st' = st /\ TablesApart
    BY <1>2, <1>6
  <2> QED BY <2>1 DEF TablesApart
<1>21. TablesHeld'
  <2>1. MemIds \cap N = {}
    <3>1. MemIds \subseteq DOMAIN mt
      BY <1>6 DEF Memtables
    <3> QED BY <1>14, <3>1
  <2>2. 0..(nextId - 1) \subseteq 0..(nextId' - 1)
    BY <1>7, <1>9, RangesGrow
  <2>3. Held' \subseteq DOMAIN sst' \cap 0..(nextId' - 1) /\ Held' \cap MemIds' = {} /\ TableIds(st) \subseteq files'
    BY <1>1, <1>9, <1>13, <1>15, <1>17, <1>19, <2>1, <2>2 DEF N
  <2> QED BY <1>17, <2>3 DEF TablesHeld
<1>22. Memtables'
  <2>1. ASSUME NEW d \in Client, at'[d] = "swap" PROVE loc'[d].new \notin Held'
    <3>1. at[d] = "swap" /\ loc'[d] = loc[d]
      BY <1>10, <1>12, <2>1
    <3>2. loc[d].new \in DOMAIN mt /\ loc[d].new \notin Held
      BY <1>6, <3>1 DEF Memtables
    <3> QED BY <1>14, <1>19, <3>1, <3>2
  <2> QED BY <1>2, <1>6, <1>10, <1>12, <1>17, <2>1 DEF Memtables, Ids
<1>23. Jobs'
  <2>1. ASSUME NEW u \in Builders'
        PROVE  u \in Thread /\ (\/ u \in Builders /\ u # t /\ Outputs(u)' = Outputs(u) /\ loc'[u] = loc[u]
                                                  /\ at'[u] = at[u]
                                \/ u = t /\ Outputs(u)' = N /\ at'[u] = "apply")
    <3>1. u \in Thread
      BY <1>11, SetsAfter
    <3>2. CASE u = t
      <4>1. p = "apply" /\ Outputs(t)' = Ids(l.ids)
        BY <1>10, <1>11, <2>1, <3>2, SetsAfter
      <4> QED BY <1>11, <1>12, <3>1, <3>2, <4>1 DEF N
    <3>3. CASE u # t
      <4>1. u \in Builders /\ Outputs(u)' = Outputs(u) /\ loc'[u] = loc[u] /\ at'[u] = at[u]
        BY <1>11, <2>1, <3>1, <3>3, SetsAfter
      <4> QED BY <3>1, <3>3, <4>1
    <3> QED BY <3>2, <3>3
  <2>2. ASSUME NEW u \in Compacting' PROVE u \in Compacting /\ Taken(u)' = Taken(u)
    <3>1. u \in Thread
      BY <1>11, SetsAfter
    <3>2. CASE u = t
      <4>1. p = "apply" /\ Taken(t)' = Ids(Inputs(l.task))
        BY <1>10, <1>11, <2>2, <3>2, SetsAfter DEF Working
      <4> QED BY <1>3, <1>11, <3>2, <4>1 DEF Taken
    <3>3. CASE u # t
      BY <1>11, <2>2, <3>1, <3>3, SetsAfter
    <3> QED BY <3>2, <3>3
  <2>3. /\ \A u \in Builders : Outputs(u) \subseteq Held
        /\ \A u \in Compacting : Taken(u) \subseteq Held
        /\ TableIds(st) \subseteq Held
    BY HeldHas
  <2>4. (\A u \in Builders : Outputs(u) \subseteq files /\ Outputs(u) \cap TableIds(st) = {})'
    <3>1. ASSUME NEW u \in Builders' PROVE Outputs(u)' \subseteq files' /\ Outputs(u)' \cap TableIds(st') = {}
      <4>1. CASE u \in Builders /\ Outputs(u)' = Outputs(u)
        BY <1>1, <1>6, <1>17, <4>1 DEF Jobs, N
      <4>2. CASE Outputs(u)' = N
        BY <1>1, <1>13, <1>17, <2>3, <4>2 DEF N
      <4> QED BY <2>1, <4>1, <4>2
    <3> QED BY <1>17, <3>1
  <2>5. (\A u \in Builders, v \in Compacting : Outputs(u) \cap Taken(v) = {})'
    <3>1. ASSUME NEW u \in Builders', NEW v \in Compacting' PROVE Outputs(u)' \cap Taken(v)' = {}
      <4>1. v \in Compacting /\ Taken(v)' = Taken(v)
        BY <2>2
      <4>2. CASE u \in Builders /\ Outputs(u)' = Outputs(u)
        BY <1>6, <4>1, <4>2 DEF Jobs
      <4>3. CASE Outputs(u)' = N
        BY <1>13, <2>3, <4>1, <4>3
      <4> QED BY <2>1, <4>2, <4>3
    <3> QED BY <3>1
  <2>6. (\A u, v \in Builders : u # v => Outputs(u) \cap Outputs(v) = {})'
    <3>1. ASSUME NEW u \in Builders', NEW v \in Builders', u # v PROVE Outputs(u)' \cap Outputs(v)' = {}
      <4>1. CASE u # t /\ v # t
        <5>1. u \in Builders /\ Outputs(u)' = Outputs(u) /\ v \in Builders /\ Outputs(v)' = Outputs(v)
          BY <2>1, <4>1
        <5> QED BY <1>6, <3>1, <5>1 DEF Jobs
      <4>2. CASE u = t
        <5>1. Outputs(u)' = N /\ v \in Builders /\ Outputs(v)' = Outputs(v)
          BY <2>1, <3>1, <4>2
        <5> QED BY <1>13, <2>3, <5>1
      <4>3. CASE v = t
        <5>1. Outputs(v)' = N /\ u \in Builders /\ Outputs(u)' = Outputs(u)
          BY <2>1, <3>1, <4>3
        <5> QED BY <1>13, <2>3, <5>1
      <4> QED BY <4>1, <4>2, <4>3
    <3> QED BY <3>1
  <2>7. (\A u \in Compacting : at[u] = "remove" => Taken(u) \cap TableIds(st) = {})'
    <3>1. ASSUME NEW u \in Compacting', at'[u] = "remove" PROVE Taken(u)' \cap TableIds(st') = {}
      <4>1. u # t /\ u \in Thread
        BY <1>10, <1>11, <1>12, <3>1, SetsAfter
      <4>2. at[u] = "remove" /\ u \in Compacting /\ Taken(u)' = Taken(u)
        BY <1>11, <2>2, <3>1, <4>1, SetsAfter
      <4> QED BY <1>6, <1>17, <4>2 DEF Jobs
    <3> QED BY <1>17, <3>1
  <2>8. (\A u \in Builders : at[u] = "install" =>
            /\ InputsInPlace(st, loc[u].task)
            /\ loc[u].st = Applied(st, loc[u].task, loc[u].ids))'
    <3>1. ASSUME NEW u \in Builders', at'[u] = "install"
          PROVE  InputsInPlace(st', loc'[u].task) /\ loc'[u].st = Applied(st', loc'[u].task, loc'[u].ids)
      <4>1. u \in Builders /\ at[u] = "install" /\ loc'[u] = loc[u]
        BY <2>1, <3>1
      <4> QED BY <1>2, <1>6, <4>1 DEF Jobs
    <3> QED BY <3>1 DEF InputsInPlace, Applied, Without, Ids
  <2>9. (\A u \in Thread : at[u] = "flush.install" =>
            /\ st.imm # <<>> /\ loc[u].id = Last(st.imm)
            /\ loc[u].id \in DOMAIN sst \cap files
            /\ sst[loc[u].id] = mt[loc[u].id].data)'
    <3>1. ASSUME NEW u \in Thread, at'[u] = "flush.install"
          PROVE  /\ st.imm # <<>> /\ loc'[u].id = Last(st.imm)
                 /\ loc'[u].id \in DOMAIN sst' \cap files'
                 /\ sst'[loc'[u].id] = mt[loc'[u].id].data
      <4>1. at[u] = "flush.install" /\ loc'[u] = loc[u]
        BY <1>10, <1>11, <3>1, SetsAfter
      <4>2. /\ st.imm # <<>> /\ loc[u].id = Last(st.imm) /\ loc[u].id \in DOMAIN sst /\ loc[u].id \in files
            /\ loc[u].id \in DOMAIN mt /\ sst[loc[u].id] = mt[loc[u].id].data
        BY <4>1, FlushOf
      <4> QED BY <1>1, <1>14, <1>15, <4>1, <4>2 DEF N
    <3> QED BY <1>2, <3>1
  <2> QED BY <2>4, <2>5, <2>6, <2>7, <2>8, <2>9 DEF Jobs
<1>24. TasksFit' /\ InputsLast'
  BY <1>2, <1>6, <1>11, <1>18, TasksKept, InputsKept
<1>25. Clones'
  <2>1. st'.mem \in Nat /\ st.mem <= st'.mem
    BY <1>2, <1>6 DEF StoreTyped, State
  <2> QED BY <1>2, <1>6, <1>11, <1>18, <2>1, ClonesKept
<1>26. LogsKept'
  BY <1>2, <1>6, <1>10, <1>12, <1>17 DEF LogsKept
<1>27. Replays'
  <2>1. Coming' = Coming
    BY <1>1, <1>10, <1>11, ComingOf
  <2>2. Recording' => Recording
    BY <1>2, <1>10, <1>12 DEF Recording
  <2>3. UNCHANGED <<manifest, setting, st>>
    BY <1>2
  <2>4. \A i \in DOMAIN wal \ MemIds : wal'[i] = wal[i]
    BY <1>2
  <2>5. setting.wal /\ DOMAIN wal = Replay.mems \cup Coming => DOMAIN wal' = Replay.mems \cup Coming'
    BY <1>2, <2>1
  <2> QED BY <1>6, <1>7, <1>9, <2>2, <2>3, <2>4, <2>5, ReplaysStill
<1> QED BY <1>16, <1>20, <1>21, <1>22, <1>23, <1>24, <1>25, <1>26, <1>27 DEF Store

\* What a task makes of the tables of a state: the inputs go, the output comes.
LEMMA AppliedIs ==
    ASSUME NEW s \in State, NEW task \in Task, NEW ids \in Seq(Nat), task.lower = task.upper + 1,
           task.lower <= Len(s.levels)
    PROVE  LET a == Applied(s, task, ids) IN
           /\ a.mem = s.mem /\ a.imm = s.imm
           /\ a.l0 = IF task.upper = 0 THEN Without(s.l0, task.us) ELSE s.l0
           /\ DOMAIN a.levels = DOMAIN s.levels /\ task.lower \in DOMAIN s.levels
           /\ a.levels[task.lower] = ids
           /\ task.upper # 0 => a.levels[task.upper] = <<>> /\ task.upper \in DOMAIN s.levels
           /\ \A i \in DOMAIN s.levels : i # task.lower /\ i # task.upper => a.levels[i] = s.levels[i]
<1>1. /\ DOMAIN s = {"mem", "imm", "l0", "levels"} /\ s.levels \in Seq(Seq(Nat))
      /\ DOMAIN s.levels = 1..Len(s.levels) /\ Len(s.levels) \in Nat
  BY DEF State
<1>2. task.lower \in Nat /\ task.upper \in Nat /\ task.lower >= 1
  BY TaskOf
<1>3. task.lower \in DOMAIN s.levels /\ (task.upper # 0 => task.upper \in DOMAIN s.levels) /\ task.lower # task.upper
  BY <1>1, <1>2
<1>4. CASE task.upper = 0
  <2> DEFINE x == Without(s.l0, task.us)
             lv == [s.levels EXCEPT ![task.lower] = ids]
             a == Applied(s, task, ids)
  <2>1. a = [s EXCEPT !.l0 = x, !.levels = lv]
    BY <1>4 DEF Applied
  <2>2. DOMAIN lv = DOMAIN s.levels /\ lv[task.lower] = ids /\ \A i \in DOMAIN s.levels : i # task.lower => lv[i] = s.levels[i]
    BY <1>1, <1>3
  <2> HIDE DEF lv, x, a
  <2>3. a.mem = s.mem /\ a.imm = s.imm /\ a.l0 = x /\ a.levels = lv
    BY <2>1 DEF State
  <2>4. /\ a.mem = s.mem /\ a.imm = s.imm /\ a.l0 = x
        /\ DOMAIN a.levels = DOMAIN s.levels /\ a.levels[task.lower] = ids
        /\ \A i \in DOMAIN s.levels : i # task.lower /\ i # task.upper => a.levels[i] = s.levels[i]
    BY <2>2, <2>3
  <2> QED BY <1>3, <1>4, <2>4 DEF a, x
<1>5. CASE task.upper # 0
  <2> DEFINE mid == [s.levels EXCEPT ![task.upper] = <<>>]
             lv == [mid EXCEPT ![task.lower] = ids]
             a == Applied(s, task, ids)
  <2>1. a = [s EXCEPT !.levels = lv]
    BY <1>1, <1>5 DEF Applied, State
  <2>2. DOMAIN lv = DOMAIN s.levels /\ lv[task.lower] = ids /\ lv[task.upper] = <<>>
        /\ \A i \in DOMAIN s.levels : i # task.lower /\ i # task.upper => lv[i] = s.levels[i]
    BY <1>1, <1>3, <1>5
  <2> HIDE DEF lv, a
  <2>3. a.mem = s.mem /\ a.imm = s.imm /\ a.l0 = s.l0 /\ a.levels = lv
    BY <2>1 DEF State
  <2>4. /\ a.mem = s.mem /\ a.imm = s.imm /\ a.l0 = s.l0
        /\ DOMAIN a.levels = DOMAIN s.levels /\ a.levels[task.lower] = ids /\ a.levels[task.upper] = <<>>
        /\ \A i \in DOMAIN s.levels : i # task.lower /\ i # task.upper => a.levels[i] = s.levels[i]
    BY <2>2, <2>3
  <2> QED BY <1>3, <1>5, <2>4 DEF a
<1> QED BY <1>4, <1>5

\* An installed compaction: the state it prepared is the current one with the task applied, and no
\* input is left in it.
LEMMA InstallIs ==
    ASSUME Control, Store, NEW t \in Thread, Install(t)
    PROVE  LET task == loc[t].task
               ids  == loc[t].ids
           IN
           /\ at[t] = "install" /\ t \in Compacting /\ t \in Builders
           /\ Goto(t, "remove", [op |-> "compact", task |-> task])
           /\ task \in Task /\ ids \in Seq(Nat) /\ st \in State /\ st' \in State
           /\ task.lower = task.upper + 1 /\ InputsInPlace(st, task)
           /\ st'.mem = st.mem /\ st'.imm = st.imm
           /\ DOMAIN st'.levels = DOMAIN st.levels /\ task.lower \in DOMAIN st.levels
           /\ st'.levels[task.lower] = ids /\ st.levels[task.lower] = task.ls
           /\ task.upper # 0 => /\ st'.levels[task.upper] = <<>> /\ task.upper \in DOMAIN st.levels
                                /\ st.levels[task.upper] = task.us /\ st'.l0 = st.l0
           /\ task.upper = 0 => /\ st.l0 = st'.l0 \o task.us /\ Ids(st.l0) = Ids(st'.l0) \cup Ids(task.us)
                                /\ Ids(st'.l0) \cap Ids(task.us) = {} /\ Distinct(st'.l0)
           /\ \A i \in DOMAIN st.levels : i # task.lower /\ i # task.upper => st'.levels[i] = st.levels[i]
           /\ st' = Applied(st, task, ids)
<1> DEFINE task == loc[t].task
           ids  == loc[t].ids
<1>1. at[t] = "install" /\ st' = loc[t].st /\ Goto(t, "remove", [op |-> "compact", task |-> task])
  BY DEF Install
<1>2. t \in Compacting /\ t \in Builders
  BY <1>1 DEF Compacting, Builders
<1>3. task \in Task /\ ids \in Seq(Nat) /\ loc[t].st \in State
  BY <1>1, LocalsOf
<1>4. /\ StoreTyped /\ TablesApart /\ Jobs /\ TasksFit /\ InputsLast
  BY DEF Store
<1>5. task.lower = task.upper + 1 /\ task.lower <= Len(st.levels)
  BY <1>2, <1>4 DEF TasksFit
<1>6. InputsInPlace(st, task) /\ st' = Applied(st, task, ids)
  BY <1>1, <1>2, <1>4 DEF Jobs
<1>7. st \in State /\ st' \in State
  BY <1>1, <1>3, <1>4 DEF StoreTyped
<1>8. task.upper = 0 => /\ st.l0 = Without(st.l0, task.us) \o task.us
                        /\ Ids(st.l0) = Ids(Without(st.l0, task.us)) \cup Ids(task.us)
                        /\ Ids(Without(st.l0, task.us)) \cap Ids(task.us) = {}
                        /\ Distinct(Without(st.l0, task.us))
  BY <1>1, <1>4, <1>6, TailOf
<1>9. st.levels[task.lower] = task.ls /\ (task.upper # 0 => st.levels[task.upper] = task.us)
  BY <1>6 DEF InputsInPlace
<1> HIDE DEF task, ids
<1>10.     /\ st'.mem = st.mem /\ st'.imm = st.imm
           /\ st'.l0 = IF task.upper = 0 THEN Without(st.l0, task.us) ELSE st.l0
           /\ DOMAIN st'.levels = DOMAIN st.levels /\ task.lower \in DOMAIN st.levels
           /\ st'.levels[task.lower] = ids
           /\ task.upper # 0 => st'.levels[task.upper] = <<>> /\ task.upper \in DOMAIN st.levels
           /\ \A i \in DOMAIN st.levels : i # task.lower /\ i # task.upper => st'.levels[i] = st.levels[i]
  BY <1>3, <1>5, <1>6, <1>7, AppliedIs
<1>11. task.upper # 0 => st'.l0 = st.l0
  BY <1>10
<1>12. task.upper = 0 => st'.l0 = Without(st.l0, task.us)
  BY <1>10
<1>13. task.upper = 0 => /\ st.l0 = st'.l0 \o task.us /\ Ids(st.l0) = Ids(st'.l0) \cup Ids(task.us)
                         /\ Ids(st'.l0) \cap Ids(task.us) = {} /\ Distinct(st'.l0)
  BY <1>8, <1>12
<1> QED BY <1>1, <1>2, <1>3, <1>5, <1>6, <1>7, <1>9, <1>10, <1>11, <1>13 DEF task, ids

\* An installed compaction takes its inputs out of the state and brings its outputs, no table twice.
LEMMA InstallTables ==
    ASSUME Control, Store, NEW t \in Thread, Install(t)
    PROVE  /\ \A i \in TableIds(st') : i \in Outputs(t) \/ (i \in TableIds(st) /\ i \notin Taken(t))
           /\ Apart(st') /\ TableIds(st)' = TableIds(st')
           /\ Outputs(t) \cap TableIds(st) = {} /\ Outputs(t) \cap Taken(t) = {}
           /\ Outputs(t) \subseteq files
<1> DEFINE task == loc[t].task
           ids  == loc[t].ids
<1>1.      /\ at[t] = "install" /\ t \in Compacting /\ t \in Builders
           /\ task \in Task /\ ids \in Seq(Nat) /\ st \in State /\ st' \in State
           /\ task.lower = task.upper + 1
           /\ DOMAIN st'.levels = DOMAIN st.levels /\ task.lower \in DOMAIN st.levels
           /\ st'.levels[task.lower] = ids /\ st.levels[task.lower] = task.ls
           /\ task.upper # 0 => /\ st'.levels[task.upper] = <<>> /\ task.upper \in DOMAIN st.levels
                                /\ st.levels[task.upper] = task.us /\ st'.l0 = st.l0
           /\ task.upper = 0 => /\ st.l0 = st'.l0 \o task.us /\ Ids(st.l0) = Ids(st'.l0) \cup Ids(task.us)
                                /\ Ids(st'.l0) \cap Ids(task.us) = {} /\ Distinct(st'.l0)
           /\ \A i \in DOMAIN st.levels : i # task.lower /\ i # task.upper => st'.levels[i] = st.levels[i]
  BY InstallIs
<1>2. Outputs(t) = Ids(ids) /\ Taken(t) = Ids(task.us) \cup Ids(task.ls)
  BY <1>1, TaskOf DEF Outputs, Taken
<1>3. /\ Outputs(t) \cap TableIds(st) = {} /\ Outputs(t) \cap Taken(t) = {} /\ Outputs(t) \subseteq files
      /\ Apart(st)
  <2>1. Jobs /\ TablesApart
    BY DEF Store
  <2> QED BY <1>1, <2>1 DEF Jobs, TablesApart
<1> HIDE DEF task, ids
<1>4. /\ Distinct(st.l0)
      /\ \A i \in DOMAIN st.levels : Ids(st.l0) \cap Ids(st.levels[i]) = {}
      /\ \A i, j \in DOMAIN st.levels : i # j => Ids(st.levels[i]) \cap Ids(st.levels[j]) = {}
      /\ Ids(<<>>) = {}
  BY <1>3, IdsOf DEF Apart
<1>5. /\ Ids(st.l0) \subseteq TableIds(st)
      /\ \A i \in DOMAIN st.levels : Ids(st.levels[i]) \subseteq TableIds(st)
  BY DEF TableIds
<1>6. task.lower \in Nat /\ task.upper \in Nat /\ task.lower # task.upper
  BY <1>1, TaskOf
<1>7. \A i \in Ids(st'.l0) : i \in TableIds(st) /\ i \in Ids(st.l0) /\ i \notin Taken(t)
  <2>1. CASE task.upper = 0
    BY <1>1, <1>2, <1>4, <1>5, <2>1
  <2>2. CASE task.upper # 0
    BY <1>1, <1>2, <1>4, <1>5, <2>2
  <2> QED BY <2>1, <2>2
<1>8. ASSUME NEW n \in DOMAIN st'.levels, n # task.lower, NEW i \in Ids(st'.levels[n])
      PROVE  i \in TableIds(st) /\ i \in Ids(st.levels[n]) /\ i \notin Taken(t) /\ n \in DOMAIN st.levels
  <2>1. n # task.upper /\ n \in DOMAIN st.levels /\ i \in Ids(st.levels[n])
    <3>1. CASE n = task.upper
      <4>1. 0 \notin DOMAIN st'.levels
        BY <1>1 DEF State
      <4>2. st'.levels[n] = <<>>
        BY <1>1, <3>1, <4>1
      <4> QED BY <1>4, <1>8, <4>2
    <3>2. CASE n # task.upper
      BY <1>1, <1>8, <3>2
    <3> QED BY <3>1, <3>2
  <2>2. i \notin Ids(task.ls)
    BY <1>1, <1>4, <1>8, <2>1
  <2>3. i \notin Ids(task.us)
    <3>1. CASE task.upper = 0
      BY <1>1, <1>4, <2>1, <3>1
    <3>2. CASE task.upper # 0
      BY <1>1, <1>4, <2>1, <3>2
    <3> QED BY <3>1, <3>2
  <2> QED BY <1>2, <1>5, <2>1, <2>2, <2>3
<1>9. ASSUME NEW i \in TableIds(st')
      PROVE  i \in Outputs(t) \/ (i \in TableIds(st) /\ i \notin Taken(t))
  <2>1. CASE i \in Ids(st'.l0)
    BY <1>7, <2>1
  <2>2. CASE \E n \in DOMAIN st'.levels : i \in Ids(st'.levels[n])
    <3>1. PICK n \in DOMAIN st'.levels : i \in Ids(st'.levels[n])
      BY <2>2
    <3>2. CASE n = task.lower
      BY <1>1, <1>2, <3>1, <3>2
    <3>3. CASE n # task.lower
      BY <1>8, <3>1, <3>3
    <3> QED BY <3>2, <3>3
  <2> QED BY <2>1, <2>2 DEF TableIds
<1>10. Apart(st')
  <2>1. Distinct(st'.l0)
    BY <1>1, <1>4
  <2>2. ASSUME NEW n \in DOMAIN st'.levels PROVE Ids(st'.l0) \cap Ids(st'.levels[n]) = {}
    <3>1. CASE n = task.lower
      BY <1>1, <1>2, <1>3, <1>7, <3>1
    <3>2. CASE n # task.lower
      BY <1>4, <1>7, <1>8, <3>2
    <3> QED BY <3>1, <3>2
  <2>3. ASSUME NEW n \in DOMAIN st'.levels, NEW m \in DOMAIN st'.levels, n # m
        PROVE  Ids(st'.levels[n]) \cap Ids(st'.levels[m]) = {}
    <3>1. CASE n = task.lower
      BY <1>1, <1>2, <1>3, <1>8, <2>3, <3>1
    <3>2. CASE m = task.lower
      BY <1>1, <1>2, <1>3, <1>8, <2>3, <3>2
    <3>3. CASE n # task.lower /\ m # task.lower
      BY <1>4, <1>8, <2>3, <3>3
    <3> QED BY <3>1, <3>2, <3>3
  <2> QED BY <2>1, <2>2, <2>3 DEF Apart
<1>11. TableIds(st)' = TableIds(st')
  BY DEF TableIds, Ids
<1> QED BY <1>3, <1>9, <1>10, <1>11

\* A compaction whose inputs the replay finds in place is applied.
LEMMA ReplayedCompaction ==
    ASSUME NEW r, DOMAIN r = {"ok", "mems", "ids", "s"}, NEW task, NEW ids, InputsInPlace(r.s, task),
           NEW q, q = Replayed(r, [kind |-> "compact", task |-> task, ids |-> ids])
    PROVE  (q.ok <=> r.ok) /\ q.mems = r.mems /\ q.ids = r.ids \cup Ids(ids) /\ q.s = Applied(r.s, task, ids)
<1> DEFINE ok == r.ok /\ InputsInPlace(r.s, task)
           x == Applied(r.s, task, ids)
           y == r.ids \cup Ids(ids)
<1>1. q = [r EXCEPT !.ok = @ /\ InputsInPlace(r.s, task),
                    !.s = IF InputsInPlace(r.s, task) THEN Applied(@, task, ids) ELSE @,
                    !.ids = @ \cup Ids(ids)]
  BY DEF Replayed
<1>2. q = [r EXCEPT !.ok = ok, !.s = x, !.ids = y]
  BY <1>1
<1> HIDE DEF ok, x, y
<1>3. q.ok = ok /\ q.s = x /\ q.ids = y /\ q.mems = r.mems
  BY <1>2
<1> QED BY <1>3 DEF ok, x, y

\* A compaction is replayed in vain once the replay has failed, a full one always.
LEMMA ReplayedFails ==
    ASSUME NEW r, DOMAIN r = {"ok", "mems", "ids", "s"}, NEW task, NEW ids
    PROVE  /\ ~r.ok => ~Replayed(r, [kind |-> "compact", task |-> task, ids |-> ids]).ok
           /\ ~Replayed(r, [kind |-> "full", task |-> task, ids |-> ids]).ok
<1> DEFINE rec == [kind |-> "compact", task |-> task, ids |-> ids]
           full == [kind |-> "full", task |-> task, ids |-> ids]
           ok == r.ok /\ InputsInPlace(r.s, task)
           x == IF InputsInPlace(r.s, task) THEN Applied(r.s, task, ids) ELSE r.s
           y == r.ids \cup Ids(ids)
<1>1. Replayed(r, full) = [r EXCEPT !.ok = FALSE]
  BY DEF Replayed
<1>2. Replayed(r, rec) = [r EXCEPT !.ok = @ /\ InputsInPlace(r.s, task),
                            !.s = IF InputsInPlace(r.s, task)
                                  THEN Applied(@, task, ids) ELSE @,
                            !.ids = @ \cup Ids(ids)]
  BY DEF Replayed
<1>3. Replayed(r, rec) = [r EXCEPT !.ok = ok, !.s = x, !.ids = y]
  BY <1>2
<1> HIDE DEF ok, x, y
<1>4. [r EXCEPT !.ok = ok, !.s = x, !.ids = y].ok = ok /\ [r EXCEPT !.ok = FALSE].ok = FALSE
  OBVIOUS
<1> HIDE DEF rec, full
<1>5. Replayed(r, rec).ok = ok /\ ~Replayed(r, full).ok
  BY <1>1, <1>3, <1>4
<1> QED BY <1>5 DEF ok, rec, full

\* A task does to the tables that the manifest tells of what it does to those in memory.
LEMMA AppliedReplay ==
    ASSUME NEW s \in State, NEW q \in State, q.l0 = s.l0, q.levels = s.levels, q.mem = 0, q.imm = <<>>,
           NEW task \in Task, NEW ids \in Seq(Nat), task.lower = task.upper + 1, task.lower <= Len(s.levels)
    PROVE  /\ InputsInPlace(q, task) <=> InputsInPlace(s, task)
           /\ Applied(q, task, ids) = [mem |-> 0, imm |-> <<>>, l0 |-> Applied(s, task, ids).l0,
                                       levels |-> Applied(s, task, ids).levels]
<1>1. InputsInPlace(q, task) <=> InputsInPlace(s, task)
  BY DEF InputsInPlace
<1>4. q = [mem |-> 0, imm |-> <<>>, l0 |-> s.l0, levels |-> s.levels]
  <2>1. q = [mem |-> q.mem, imm |-> q.imm, l0 |-> q.l0, levels |-> q.levels]
    BY DEF State
  <2> QED BY <2>1
<1>5. \A a, b, y : [[mem |-> 0, imm |-> <<>>, l0 |-> a, levels |-> b] EXCEPT !.levels = y]
                      = [mem |-> 0, imm |-> <<>>, l0 |-> a, levels |-> y]
  OBVIOUS
<1>6. \A a, b, x : [[mem |-> 0, imm |-> <<>>, l0 |-> a, levels |-> b] EXCEPT !.l0 = x]
                      = [mem |-> 0, imm |-> <<>>, l0 |-> x, levels |-> b]
  OBVIOUS
<1>2. CASE task.upper = 0
  <2> DEFINE x == Without(s.l0, task.us)
             lv == [s.levels EXCEPT ![task.lower] = ids]
  <2>1. Applied(s, task, ids) = [s EXCEPT !.l0 = x, !.levels = lv] /\ Applied(q, task, ids) = [q EXCEPT !.l0 = x, !.levels = lv]
    BY <1>2 DEF Applied
  <2> HIDE DEF lv, x
  <2>2. Applied(s, task, ids).l0 = x /\ Applied(s, task, ids).levels = lv
    BY <2>1 DEF State
  <2>3. [q EXCEPT !.l0 = x, !.levels = lv] = [mem |-> 0, imm |-> <<>>, l0 |-> x, levels |-> lv]
    <3>1. [q EXCEPT !.l0 = x] = [mem |-> 0, imm |-> <<>>, l0 |-> x, levels |-> s.levels]
      BY <1>4, <1>6
    <3>2. [q EXCEPT !.l0 = x, !.levels = lv] = [[q EXCEPT !.l0 = x] EXCEPT !.levels = lv]
      OBVIOUS
    <3> DEFINE z == [q EXCEPT !.l0 = x]
    <3>3. z = [mem |-> 0, imm |-> <<>>, l0 |-> x, levels |-> s.levels] /\ [q EXCEPT !.l0 = x, !.levels = lv] = [z EXCEPT !.levels = lv]
      BY <3>1, <3>2
    <3> HIDE DEF z
    <3>4. [z EXCEPT !.levels = lv] = [mem |-> 0, imm |-> <<>>, l0 |-> x, levels |-> lv]
      BY <1>5, <3>3
    <3> QED BY <3>3, <3>4
  <2> QED BY <1>1, <2>1, <2>2, <2>3
<1>3. CASE task.upper # 0
  <2> DEFINE mid == [s.levels EXCEPT ![task.upper] = <<>>]
             lv == [mid EXCEPT ![task.lower] = ids]
  <2>1. Applied(s, task, ids) = [s EXCEPT !.levels = lv]
    BY <1>3 DEF Applied, State
  <2>2. Applied(q, task, ids) = [q EXCEPT !.levels = lv]
    BY <1>3 DEF Applied, State
  <2> HIDE DEF lv
  <2>3. Applied(s, task, ids).l0 = s.l0 /\ Applied(s, task, ids).levels = lv
    BY <2>1 DEF State
  <2>4. [q EXCEPT !.levels = lv] = [mem |-> 0, imm |-> <<>>, l0 |-> s.l0, levels |-> lv]
    BY <1>4, <1>5
  <2> QED BY <1>1, <2>2, <2>3, <2>4
<1> QED BY <1>2, <1>3

\* The second piece of a joined sequence follows the first one.
LEMMA JoinedOf ==
    ASSUME NEW a \in Seq(Nat), NEW b \in Seq(Nat)
    PROVE  /\ Len(a) \in Nat /\ Len(b) \in Nat /\ Len(a \o b) = Len(a) + Len(b)
           /\ \A p \in 1..Len(a) : (a \o b)[p] = a[p]
           /\ \A p \in 1..Len(b) : (a \o b)[Len(a) + p] = b[p]
           /\ Len(b) # 0 => (a \o b)[Len(a) + Len(b)] \in Ids(b)
<1>1. Len(a) \in Nat /\ Len(b) \in Nat /\ Len(a \o b) = Len(a) + Len(b)
  OBVIOUS
<1>2. \A p \in 1..Len(b) : (a \o b)[Len(a) + p] = b[p] /\ Len(a) + p \in 1..Len(a \o b)
  BY <1>1
<1>3. \A p \in 1..Len(a) : (a \o b)[p] = a[p]
  BY <1>1
<1>4. Len(b) # 0 => (a \o b)[Len(a) + Len(b)] \in Ids(b)
  BY <1>1, <1>2 DEF Ids
<1> QED BY <1>1, <1>2, <1>3, <1>4

\* One list ends with us and with ut, and us is made of what comes before ut.
Tails(v, us, w, ut) ==
    v \o us = w \o ut /\ Ids(us) \subseteq Ids(w) /\ Ids(w) \cap Ids(ut) = {}

\* Then us ends what comes before ut.
LEMMA SuffixKept ==
    ASSUME NEW v \in Seq(Nat), NEW us \in Seq(Nat), NEW w \in Seq(Nat), NEW ut \in Seq(Nat),
           Tails(v, us, w, ut)
    PROVE  \E x \in Seq(Nat) : w = x \o us
<1>1. Len(v) \in Nat /\ Len(us) \in Nat /\ Len(w) \in Nat /\ Len(ut) \in Nat /\ <<>> \in Seq(Nat)
  OBVIOUS
<1>2. CASE Len(us) = 0
  <2>1. us = <<>> /\ w \o us = w
    BY <1>2
  <2> QED BY <2>1
<1>3. CASE Len(ut) = 0
  <2>1. ut = <<>> /\ w \o ut = w
    BY <1>3
  <2> QED BY <2>1 DEF Tails
<1>4. CASE Len(us) # 0 /\ Len(ut) # 0
  <2>1. (v \o us)[Len(v) + Len(us)] \in Ids(us) /\ Len(v \o us) = Len(v) + Len(us)
    BY <1>4, JoinedOf
  <2>2. (w \o ut)[Len(w) + Len(ut)] \in Ids(ut) /\ Len(w \o ut) = Len(w) + Len(ut)
    BY <1>4, JoinedOf
  <2> QED BY <2>1, <2>2 DEF Tails
<1> QED BY <1>2, <1>3, <1>4

\* A compaction is installed: its inputs leave the state, its outputs enter it.
LEMMA InstallStores ==
    ASSUME Control, Store, NEW t \in Thread, Install(t)
    PROVE  Store'
<1> DEFINE task == loc[t].task
           ids  == loc[t].ids
           l    == [op |-> "compact", task |-> task]
           rec  == [kind |-> IF setting.simple THEN "compact" ELSE "full", task |-> task, ids |-> ids]
<1>1. /\ at[t] = "install" /\ ~GuardHeld /\ manifest' = Append(manifest, rec)
      /\ Goto(t, "remove", l)
      /\ mt' = mt /\ wal' = wal /\ sst' = sst /\ files' = files /\ nextId' = nextId
      /\ mode' = mode /\ setting' = setting /\ writes' = writes
  BY DEF Install, controlVars, historyVars
<1>2. /\ t \in Compacting /\ t \in Builders
      /\ task \in Task /\ ids \in Seq(Nat) /\ st \in State /\ st' \in State
      /\ task.lower = task.upper + 1 /\ InputsInPlace(st, task)
      /\ st'.mem = st.mem /\ st'.imm = st.imm
      /\ DOMAIN st'.levels = DOMAIN st.levels /\ task.lower \in DOMAIN st.levels
      /\ task.upper # 0 => st'.l0 = st.l0
      /\ task.upper = 0 => /\ st.l0 = st'.l0 \o task.us /\ Ids(st.l0) = Ids(st'.l0) \cup Ids(task.us)
                                /\ Ids(st'.l0) \cap Ids(task.us) = {} /\ Distinct(st'.l0)
      /\ st' = Applied(st, task, ids)
  BY InstallIs
<1>3. /\ \A i \in TableIds(st') : i \in Outputs(t) \/ (i \in TableIds(st) /\ i \notin Taken(t))
      /\ Apart(st') /\ TableIds(st)' = TableIds(st')
      /\ Outputs(t) \cap TableIds(st) = {} /\ Outputs(t) \cap Taken(t) = {}
      /\ Outputs(t) \subseteq files
  BY InstallTables
<1>4. /\ StoreTyped /\ Memtables /\ TablesApart /\ TablesHeld /\ Jobs /\ TasksFit /\ InputsLast
      /\ Clones /\ LogsKept /\ Replays
  BY DEF Store
<1>5. /\ at'[t] = "remove" /\ loc'[t] = l
      /\ \A u \in Thread : u # t => at'[u] = at[u] /\ loc'[u] = loc[u]
  BY <1>1, Moved
<1>6. l.task = task
  OBVIOUS
<1> HIDE DEF l
<1>7. Lands(t, "remove", l)
  BY <1>2, <1>6 DEF Lands, Working, ClonePlaces, task
<1>8. \A u \in Thread : u # t => at[u] \notin Holding
  BY <1>1, Alone DEF Holding
<1>9. \A d \in Client : at'[d] \notin {"swap", "append"}
  <2>1. \A d \in Client : at[d] # "append"
    BY <1>1 DEF GuardHeld
  <2> QED BY <1>1, <1>5, <1>8, <2>1, ThreadsApart DEF Holding
<1>10. Len(st'.levels) = Len(st.levels)
  <2>1. /\ DOMAIN st'.levels = 1..Len(st'.levels) /\ Len(st'.levels) \in Nat
        /\ DOMAIN st.levels = 1..Len(st.levels) /\ Len(st.levels) \in Nat
    BY <1>2 DEF State
  <2> DEFINE a == Len(st'.levels)
             b == Len(st.levels)
  <2>2. a \in Nat /\ b \in Nat /\ 1..a = 1..b
    BY <1>2, <2>1
  <2> HIDE DEF a, b
  <2>3. a = b
    BY <2>2
  <2> QED BY <2>3 DEF a, b
<1>11. Held' \subseteq Held
  <2>1. TableIds(st)' \subseteq Held \cup {}
    <3>1. \A i \in Outputs(t) : i \in Held
      BY <1>2, HeldHas
    <3> QED BY <1>3, <3>1, HeldHas
  <2> QED BY <1>1, <1>7, <2>1, HeldAfter
<1>12. MemIds' = MemIds
  BY <1>2 DEF MemIds, Ids
<1>13. StoreTyped'
  BY <1>1, <1>2, <1>4, <1>9, <1>10 DEF StoreTyped, Entry
<1>14. Memtables'
  <2>1. MemIds' \subseteq DOMAIN mt'
    BY <1>1, <1>4, <1>12 DEF Memtables
  <2>2. /\ \A p, q \in DOMAIN st'.imm : p < q => st'.imm[p] > st'.imm[q]
        /\ \A i \in Ids(st'.imm) : i < st'.mem
    <3>1. /\ \A p, q \in DOMAIN st.imm : p < q => st.imm[p] > st.imm[q]
          /\ \A i \in Ids(st.imm) : i < st.mem
      BY <1>4 DEF Memtables
    <3> QED BY ONLY <1>2, <3>1
  <2> QED BY <1>9, <2>1, <2>2 DEF Memtables
<1>15. TablesApart'
  BY <1>3 DEF TablesApart, Apart, Distinct, Ids
<1>16. TablesHeld'
  <2>1. TableIds(st') \subseteq files'
    BY <1>1, <1>3, <1>4 DEF TablesHeld
  <2> QED BY <1>1, <1>3, <1>4, <1>11, <1>12, <2>1 DEF TablesHeld
<1>17. Jobs'
  <2>1. ASSUME NEW u \in Builders'
        PROVE  u \in Thread /\ u \in Builders /\ u # t /\ Outputs(u)' = Outputs(u) /\ loc'[u] = loc[u] /\ at'[u] = at[u]
    <3>1. u \in Thread /\ u # t
      BY <1>1, <1>5, <2>1, SetsAfter DEF Builders
    <3> QED BY <1>1, <1>5, <2>1, <3>1, SetsAfter
  <2>2. ASSUME NEW u \in Compacting' PROVE u \in Thread /\ u \in Compacting /\ Taken(u)' = Taken(u)
    <3>1. u \in Thread
      BY <1>1, SetsAfter
    <3>2. CASE u = t
      <4>1. Taken(t)' = Ids(Inputs(l.task))
        BY <1>1, SetsAfter
      <4> QED BY <1>2, <1>6, <3>1, <3>2, <4>1 DEF Taken, task
    <3>3. CASE u # t
      BY <1>1, <2>2, <3>1, <3>3, SetsAfter
    <3> QED BY <3>2, <3>3
  <2>3. (\A u \in Builders : Outputs(u) \subseteq files /\ Outputs(u) \cap TableIds(st) = {})'
    <3>1. ASSUME NEW u \in Builders' PROVE Outputs(u)' \subseteq files' /\ Outputs(u)' \cap TableIds(st') = {}
      <4>1. Outputs(u) \cap Outputs(t) = {} /\ Outputs(u) \cap TableIds(st) = {} /\ Outputs(u) \subseteq files
        BY <1>2, <1>4, <2>1 DEF Jobs
      <4> QED BY <1>1, <1>3, <2>1, <4>1
    <3> QED BY <1>3, <3>1
  <2>4. (\A u \in Builders, v \in Compacting : Outputs(u) \cap Taken(v) = {})'
    <3>1. ASSUME NEW u \in Builders', NEW v \in Compacting' PROVE Outputs(u)' \cap Taken(v)' = {}
      BY <1>4, <2>1, <2>2 DEF Jobs
    <3> QED BY <3>1
  <2>5. (\A u, v \in Builders : u # v => Outputs(u) \cap Outputs(v) = {})'
    <3>1. ASSUME NEW u \in Builders', NEW v \in Builders', u # v PROVE Outputs(u)' \cap Outputs(v)' = {}
      BY <1>4, <2>1, <3>1 DEF Jobs
    <3> QED BY <3>1
  <2>6. (\A u \in Compacting : at[u] = "remove" => Taken(u) \cap TableIds(st) = {})'
    <3>1. ASSUME NEW u \in Compacting', at'[u] = "remove" PROVE Taken(u)' \cap TableIds(st') = {}
      <4>1. u \in Compacting /\ Taken(u)' = Taken(u) /\ Outputs(t) \cap Taken(u) = {}
        BY <1>2, <1>4, <2>2 DEF Jobs
      <4>2. CASE u = t
        BY <1>3, <4>1, <4>2
      <4>3. CASE u # t
        <5>1. at[u] = "remove"
          BY <1>5, <2>2, <3>1, <4>3
        <5>2. Taken(u) \cap TableIds(st) = {}
          BY <1>4, <4>1, <5>1 DEF Jobs
        <5> QED BY <1>3, <4>1, <5>2
      <4> QED BY <4>2, <4>3
    <3> QED BY <1>3, <3>1
  <2>7. \A u \in Builders' : at'[u] # "install"
    BY <1>8, <2>1 DEF Holding
  <2>8. \A u \in Thread : at'[u] # "flush.install"
    BY <1>5, <1>8 DEF Holding
  <2> QED BY <2>3, <2>4, <2>5, <2>6, <2>7, <2>8 DEF Jobs
<1>18. TasksFit'
  BY <1>1, <1>4, <1>7, <1>10, TasksKept
<1>19. InputsLast'
  <2>1. ASSUME NEW u \in Thread, at'[u] \in {"merge", "apply", "install"}, loc'[u].task.upper = 0,
               Ids(loc'[u].task.us) \subseteq Ids(st'.l0)
        PROVE  \E v \in Seq(Nat) : st'.l0 = v \o loc'[u].task.us
    <3>1. u # t /\ at[u] = at'[u] /\ loc'[u] = loc[u]
      BY <1>5, <2>1
    <3>2. loc[u].task.us \in Seq(Nat)
      BY <2>1, <3>1, CompactedBy, TaskOf
    <3>3. Ids(loc[u].task.us) \subseteq Ids(st.l0)
      BY <1>2, <2>1, <3>1
    <3>4. PICK v \in Seq(Nat) : st.l0 = v \o loc[u].task.us
      BY <1>4, <2>1, <3>1, <3>3 DEF InputsLast
    <3>5. CASE task.upper # 0
      BY <1>2, <3>1, <3>4, <3>5
    <3>6. CASE task.upper = 0
      <4>1. st'.l0 \in Seq(Nat) /\ task.us \in Seq(Nat)
        BY <1>2, TaskOf DEF State
      <4>2. v \o loc[u].task.us = st'.l0 \o task.us /\ Ids(st'.l0) \cap Ids(task.us) = {}
        BY <1>2, <3>4, <3>6
      <4>3. Ids(loc[u].task.us) \subseteq Ids(st'.l0)
        BY <2>1, <3>1
      <4> HIDE DEF task
      <4> DEFINE us == loc[u].task.us
                 w == st'.l0
                 ut == task.us
      <4>4. us \in Seq(Nat) /\ w \in Seq(Nat) /\ ut \in Seq(Nat)
        BY <3>2, <4>1
      <4>6. Tails(v, us, w, ut)
        BY <4>2, <4>3 DEF Tails
      <4> HIDE DEF us, w, ut
      <4>5. \E x \in Seq(Nat) : w = x \o us
        BY <4>4, <4>6, SuffixKept
      <4> QED BY <3>1, <4>5 DEF w, us
    <3> QED BY <3>5, <3>6
  <2> QED BY <2>1 DEF InputsLast, Ids
<1>20. Clones'
  <2>1. st'.mem \in Nat /\ st.mem <= st'.mem /\ DOMAIN mt \subseteq DOMAIN mt'
    BY <1>1, <1>2 DEF State
  <2> QED BY <1>1, <1>4, <1>7, <1>10, <2>1, ClonesKept
<1>21. LogsKept'
  BY <1>1, <1>4, <1>9, <1>12 DEF LogsKept
<1>22. Replays'
  <2>1. rec \in ManifestRecord
    BY <1>2 DEF ManifestRecord
  <2>2. /\ manifest' \in Seq(ManifestRecord) /\ ManifestRecord' = ManifestRecord
        /\ NoFull' <=> NoFull /\ rec.kind # "full"
        /\ Replay' = Replayed(Replay, rec)
        /\ DOMAIN Replay = {"ok", "mems", "ids", "s"}
        /\ ~NoFull => ~Replay.ok
    <3> HIDE DEF rec
    <3> QED BY <1>1, <1>4, <2>1, Recorded
  <2>3. CASE ~setting.simple
    <3>1. rec = [kind |-> "full", task |-> task, ids |-> ids] /\ rec.kind = "full"
      BY <2>3
    <3> HIDE DEF rec, task, ids
    <3>2. ~Replay'.ok
      <4> HIDE DEF Replay
      <4> QED BY <2>2, <3>1, ReplayedFails
    <3>3. ~NoFull'
      BY <2>2, <3>1
    <3> QED BY <2>2, <3>2, <3>3 DEF Replays
  <2>4. CASE setting.simple
    <3>1. rec = [kind |-> "compact", task |-> task, ids |-> ids] /\ rec.kind = "compact"
      BY <2>4
    <3> DEFINE r == Replay
    <3>2. DOMAIN r = {"ok", "mems", "ids", "s"}
      BY <2>2
    <3> HIDE DEF rec, task, ids
    <3>3. Replay' = Replayed(r, [kind |-> "compact", task |-> task, ids |-> ids])
      BY <2>2, <3>1
    <3>4. NoFull' <=> NoFull
      BY <2>2, <3>1
    <3> HIDE DEF Replay
    <3>5. ~r.ok => ~Replay'.ok
      <4> HIDE DEF r
      <4> QED BY <3>2, <3>3, ReplayedFails
    <3>6. CASE ~NoFull
      BY <2>2, <3>4, <3>5, <3>6 DEF Replays
    <3>7. CASE NoFull
      <4>1. /\ Replay.ok
            /\ Replay.s = [mem |-> 0, imm |-> <<>>, l0 |-> st.l0, levels |-> st.levels]
            /\ Replay.mems \subseteq Replay.ids
            /\ Ids(st.imm) \subseteq Replay.mems
            /\ TableIds(st) \subseteq Replay.ids
            /\ 1 \in Replay.ids /\ Replay.ids \subseteq 0..nextId
            /\ setting.wal =>
                  /\ st.mem \in Replay.mems
                  /\ DOMAIN wal = Replay.mems \cup Coming
                  /\ \A j \in Replay.mems \ MemIds : Recovered(wal[j]) = Nothing
            /\ Recording => st.mem \in Replay.mems
        BY <1>4, <3>7 DEF Replays
      <4> DEFINE s == r.s
                 a == Applied(st, task, ids)
      <4>2. s = [mem |-> 0, imm |-> <<>>, l0 |-> st.l0, levels |-> st.levels]
        BY <4>1
      <4>3. s \in State /\ s.l0 = st.l0 /\ s.levels = st.levels /\ s.mem = 0 /\ s.imm = <<>>
        <5>1. st.l0 \in Seq(Nat) /\ st.levels \in Seq(Seq(Nat)) /\ <<>> \in Seq(Nat)
          BY <1>2 DEF State
        <5> HIDE DEF s
        <5> QED BY <4>2, <5>1 DEF State
      <4>4. task.lower = task.upper + 1 /\ task.lower <= Len(st.levels)
        BY <1>2, <1>4 DEF TasksFit, task
      <4> HIDE DEF s
      <4>5. /\ InputsInPlace(s, task)
            /\ Applied(s, task, ids) = [mem |-> 0, imm |-> <<>>, l0 |-> a.l0, levels |-> a.levels]
        BY <1>2, <4>3, <4>4, AppliedReplay
      <4>6. /\ Replay'.ok <=> r.ok
            /\ Replay'.mems = r.mems /\ Replay'.ids = r.ids \cup Ids(ids)
            /\ Replay'.s = Applied(s, task, ids)
        <5>1. InputsInPlace(r.s, task) /\ s = r.s
          BY <4>5 DEF s
        <5> DEFINE q == Replay'
        <5>3. q = Replayed(r, [kind |-> "compact", task |-> task, ids |-> ids])
          BY <3>3
        <5> HIDE DEF r, q
        <5>2. (q.ok <=> r.ok) /\ q.mems = r.mems /\ q.ids = r.ids \cup Ids(ids) /\ q.s = Applied(r.s, task, ids)
          BY <3>2, <5>1, <5>3, ReplayedCompaction
        <5> QED BY <5>1, <5>2 DEF q
      <4>7. Replay'.s = [mem |-> 0, imm |-> <<>>, l0 |-> st'.l0, levels |-> st'.levels]
        BY <1>2, <4>5, <4>6
      <4>8. Ids(ids) = Outputs(t) /\ Outputs(t) \subseteq 0..nextId
        <5>1. Outputs(t) \subseteq Held
          BY <1>2, HeldHas
        <5>2. Held \subseteq 0..(nextId - 1) /\ nextId \in Nat
          BY <1>4 DEF TablesHeld, StoreTyped
        <5>3. 0..(nextId - 1) \subseteq 0..nextId
          BY <5>2
        <5> QED BY <5>1, <5>2, <5>3 DEF Outputs, ids
      <4>9. TableIds(st') \subseteq Replay'.ids
        <5>1. Outputs(t) \subseteq Replay'.ids /\ TableIds(st) \subseteq Replay'.ids
          BY <4>1, <4>6, <4>8
        <5> QED BY <1>3, <5>1
      <4>10. Coming' = Coming
        BY <1>1, ComingOf
      <4>11. Recording' => Recording
        <5>1. \A d \in Client : at'[d] \in {"close.join_compactor", "close.join_flusher", "close.memtable"} => at[d] = at'[d]
          BY <1>5, ThreadsApart
        <5> QED BY <1>1, <5>1 DEF Recording
      <4>12. Ids(st'.imm) \subseteq Replay'.mems /\ Ids(st.imm)' = Ids(st'.imm)
        <5>1. Ids(st.imm)' = Ids(st'.imm)
          BY DEF Ids
        <5>2. Ids(st'.imm) \subseteq Replay'.mems
          BY <1>2, <4>1, <4>6
        <5> QED BY <5>1, <5>2
      <4>13. setting.wal =>
                  /\ st'.mem \in Replay'.mems
                  /\ DOMAIN wal = Replay'.mems \cup Coming'
                  /\ \A j \in Replay'.mems \ MemIds' : Recovered(wal[j]) = Nothing
        BY <1>2, <1>12, <4>1, <4>6, <4>10
      <4>14. /\ Replay'.ok /\ Replay'.mems \subseteq Replay'.ids
             /\ 1 \in Replay'.ids /\ Replay'.ids \subseteq 0..nextId /\ (Recording' => st'.mem \in Replay'.mems)
        BY <1>2, <4>1, <4>6, <4>8, <4>11
      <4> QED BY <1>1, <1>3, <2>2, <3>4, <3>7, <4>7, <4>9, <4>12, <4>13, <4>14 DEF Replays
    <3> QED BY <3>6, <3>7
  <2> QED BY <2>3, <2>4
<1> QED BY <1>13, <1>14, <1>15, <1>16, <1>17, <1>18, <1>19, <1>20, <1>21, <1>22 DEF Store

\* In a stopped engine nobody is in the middle of anything.
LEMMA StoppedIs ==
    ASSUME Control, Stopped
    PROVE  /\ \A t \in Thread : at[t] \in {"idle", "stopped", "panicked"}
           /\ Compacting = {} /\ Builders = {} /\ Readers = {} /\ Coming = {}
           /\ Held = TableIds(st)
<1>1. \A t \in Thread : at[t] \in {"idle", "stopped", "panicked"}
  BY DEF Stopped, Quiet
<1>2. Compacting = {} /\ Builders = {}
  BY <1>1 DEF Compacting, Builders
<1>3. Readers = {}
  BY <1>1, ThreadsApart DEF Readers
<1>4. Coming = {}
  BY <1>1, ThreadsApart DEF Coming
<1>5. \A i : i \in Held <=> i \in TableIds(st)
  BY <1>2, <1>3, HeldHas
<1> QED BY <1>1, <1>2, <1>3, <1>4, <1>5

\* What the step of open makes of the variables.
LEMMA OpenIs ==
    ASSUME Control, Store, NEW c \in Client, Open(c), Opened.ok
    PROVE  /\ Stopped /\ st' = Opened.s /\ nextId' = Opened.mem + 1 /\ mt' = OpenedMt(Opened)
           /\ wal' = IF setting.wal THEN With(wal, Opened.mem, <<>>) ELSE wal
           /\ manifest' = Append(manifest, [kind |-> "new", id |-> Opened.mem])
           /\ mode' = "open" /\ closed' = "none" /\ stop' = {}
           /\ at'  = [t \in Thread |-> Start(t)]
           /\ loc' = [t \in Thread |-> NoOp]
           /\ current' = [k \in Key |-> OpenedEntry(Opened, k)]
           /\ done'  = [k \in Key |-> {OpenedEntry(Opened, k)} \ {0}]
           /\ stale' = [k \in Key |-> (stale[k] \cup done[k]) \ {OpenedEntry(Opened, k)}]
           /\ sst' = sst /\ files' = files /\ lock' = lock /\ writes' = writes /\ seen' = seen
           /\ setting' = setting /\ mode = "closed"
           /\ \A t \in Thread : at'[t] \in {"idle", "stopped"} /\ loc'[t] = NoOp
           /\ Compacting' = {} /\ Builders' = {} /\ Readers' = {} /\ Coming' = {}
<1>1. Stopped /\ mode = "closed"
  BY DEF Open, Stopped
<1>2. /\ st' = Opened.s /\ nextId' = Opened.mem + 1 /\ mt' = OpenedMt(Opened)
      /\ wal' = IF setting.wal THEN With(wal, Opened.mem, <<>>) ELSE wal
      /\ manifest' = Append(manifest, [kind |-> "new", id |-> Opened.mem])
      /\ mode' = "open" /\ closed' = "none" /\ stop' = {}
      /\ at'  = [t \in Thread |-> Start(t)]
      /\ loc' = [t \in Thread |-> NoOp]
      /\ current' = [k \in Key |-> OpenedEntry(Opened, k)]
      /\ done'  = [k \in Key |-> {OpenedEntry(Opened, k)} \ {0}]
      /\ stale' = [k \in Key |-> (stale[k] \cup done[k]) \ {OpenedEntry(Opened, k)}]
      /\ sst' = sst /\ files' = files /\ lock' = lock /\ writes' = writes /\ seen' = seen
      /\ setting' = setting
  BY DEF Open, OpenedMt
<1>3. \A t \in Thread : at'[t] \in {"idle", "stopped"} /\ loc'[t] = NoOp
  BY <1>2 DEF Start
<1>4. Compacting' = {} /\ Builders' = {}
  BY <1>3 DEF Compacting, Builders
<1>5. Readers' = {} /\ Coming' = {}
  BY <1>3, ThreadsApart DEF Readers, Coming
<1> QED BY <1>1, <1>2, <1>3, <1>4, <1>5

\* The entries that recovery finds are entries of the log.
LEMMA RecoveredEntries ==
    ASSUME Control, StoreTyped, NEW i \in DOMAIN wal, NEW k \in Key
    PROVE  Recovered(wal[i])[k] \in Entry /\ 0 \in Entry
<1>1. wal[i] \in Seq(LogRecord) /\ Recovered(wal[i]) \in Table
  BY LogOf
<1>2. 0 \in Entry
  BY DEF Control, Typed, Entry
<1>3. \A n \in DOMAIN wal[i] : wal[i][n].e \in Entry
  BY DEF StoreTyped
<1> DEFINE log == wal[i]
<1>4. log \in Seq(LogRecord) /\ \A n \in 1..Len(log) : log[n].e \in Entry
  BY <1>1, <1>3
<1> HIDE DEF log
<1>5. CASE \A n \in 1..Len(log) : log[n].k # k
  <2>1. Recovered(log)[k] = 0
    BY <1>4, <1>5, RecoveredOf
  <2> QED BY <1>2, <2>1 DEF log
<1>6. CASE \E n \in 1..Len(log) : log[n].k = k
  <2>1. \E n \in 1..Len(log) : Recovered(log)[k] = log[n].e
    BY <1>4, <1>6, RecoveredOf
  <2> QED BY <1>2, <1>4, <2>1 DEF log
<1> QED BY <1>5, <1>6

\* A new memtable is replayed.
LEMMA ReplayedNew ==
    ASSUME NEW r, DOMAIN r = {"ok", "mems", "ids", "s"}, NEW i,
           NEW q, q = Replayed(r, [kind |-> "new", id |-> i])
    PROVE  q.ok = r.ok /\ q.mems = r.mems \cup {i} /\ q.ids = r.ids \cup {i} /\ q.s = r.s
<1> DEFINE x == r.mems \cup {i}
           y == r.ids \cup {i}
<1>1. q = [r EXCEPT !.mems = x, !.ids = y]
  BY DEF Replayed
<1> HIDE DEF x, y
<1>2. q.ok = r.ok /\ q.mems = x /\ q.ids = y /\ q.s = r.s
  BY <1>1
<1> QED BY <1>2 DEF x, y

\* The engine is opened again.
LEMMA OpenStores ==
    ASSUME Control, Store, NEW c \in Client, Open(c), Opened.ok
    PROVE  Store'
<1> DEFINE o == Opened
           m == o.mem
<1>1. /\ Stopped /\ st' = o.s /\ nextId' = m + 1 /\ mt' = OpenedMt(o)
      /\ wal' = IF setting.wal THEN With(wal, m, <<>>) ELSE wal
      /\ manifest' = Append(manifest, [kind |-> "new", id |-> m])
      /\ mode' = "open"
      /\ sst' = sst /\ files' = files /\ writes' = writes /\ setting' = setting
      /\ \A t \in Thread : at'[t] \in {"idle", "stopped"} /\ loc'[t] = NoOp
      /\ Compacting' = {} /\ Builders' = {} /\ Readers' = {} /\ Coming' = {}
  BY OpenIs
<1>2. /\ StoreTyped /\ Memtables /\ TablesApart /\ TablesHeld /\ Jobs /\ TasksFit /\ InputsLast
      /\ Clones /\ LogsKept /\ Replays
  BY DEF Store
<1>3. Held = TableIds(st) /\ Coming = {}
  BY <1>1, StoppedIs
<1>4. /\ NoFull /\ o.s \in State
      /\ o.s.mem = m /\ o.s.l0 = st.l0 /\ o.s.levels = st.levels
      /\ m \in Nat /\ m - 1 \in Replay.ids /\ (\A i \in Replay.ids : i < m)
      /\ Ids(o.s.imm) = IF setting.wal THEN Kept ELSE {}
      /\ \A p, q \in DOMAIN o.s.imm : p < q => o.s.imm[p] > o.s.imm[q]
      /\ TableIds(st) \subseteq files
      /\ setting.wal => Replay.mems \subseteq DOMAIN wal /\ m \notin DOMAIN wal
  BY <1>2, OpenedIs
<1>5. /\ m \notin Ids(o.s.imm)
      /\ \A i \in Ids(o.s.imm) : /\ i \in DOMAIN wal /\ i \in Replay.mems
                                 /\ OpenedMt(o)[i] = [data |-> Recovered(wal[i]), size |-> 0]
  BY <1>2, OpenedReads
<1>6. DOMAIN OpenedMt(o) = Ids(o.s.imm) \cup {m} /\ OpenedMt(o)[m] = EmptyMemtable
  BY DEF OpenedMt
<1> DEFINE r == Replay
<1>7. /\ r.ok
      /\ r.s = [mem |-> 0, imm |-> <<>>, l0 |-> st.l0, levels |-> st.levels]
      /\ r.mems \subseteq r.ids
      /\ Ids(st.imm) \subseteq r.mems
      /\ TableIds(st) \subseteq r.ids
      /\ 1 \in r.ids /\ r.ids \subseteq 0..nextId
      /\ setting.wal =>
                  /\ st.mem \in r.mems
                  /\ DOMAIN wal = r.mems \cup Coming
                  /\ \A j \in r.mems \ MemIds : Recovered(wal[j]) = Nothing
  BY <1>2, <1>4 DEF Replays
<1>8. Kept = {i \in r.mems : i \in DOMAIN wal /\ ~IsEmptyTable(Recovered(wal[i]))}
  BY DEF Kept
<1>9. \A i \in r.ids : i < m /\ i \in 0..m
  <2>1. r.ids \subseteq 0..nextId
    BY <1>7
  <2> HIDE DEF o, m, r
  <2>2. nextId \in Nat
    BY <1>2 DEF StoreTyped
  <2>3. \A i \in r.ids : i < m
    BY <1>4 DEF r
  <2> QED BY <1>4, <2>1, <2>2, <2>3
<1> HIDE DEF o, m, r
<1>10. /\ st' \in State /\ st'.mem = m /\ st'.l0 = st.l0 /\ st'.levels = st.levels /\ st'.imm = o.s.imm
       /\ MemIds' = Ids(o.s.imm) \cup {m} /\ Ids(st.imm)' = Ids(o.s.imm) /\ TableIds(st') = TableIds(st)
       /\ TableIds(st)' = TableIds(st)
  <2>1. st' \in State /\ st'.mem = m /\ st'.l0 = st.l0 /\ st'.levels = st.levels /\ st'.imm = o.s.imm
    BY <1>1, <1>4
  <2> QED BY <2>1 DEF MemIds, TableIds, Ids
<1>11. \A i \in Ids(o.s.imm) : i \in r.mems /\ i \in r.ids /\ i \in MemIds /\ setting.wal
  <2>1. ASSUME NEW i \in Ids(o.s.imm) PROVE i \in r.mems /\ i \in r.ids /\ i \in MemIds /\ setting.wal
    <3>1. setting.wal /\ i \in Kept
      BY <1>4, <2>1
    <3>2. i \in r.mems /\ Recovered(wal[i]) # Nothing
      BY <1>8, <3>1 DEF IsEmptyTable
    <3> QED BY <1>7, <3>1, <3>2
  <2> QED BY <2>1
<1>12. Held' = TableIds(st)
  <2>1. \A i : i \in Held' <=> i \in TableIds(st)
    BY <1>1, <1>10, HeldHasNext
  <2> QED BY <2>1
<1>13. StoreTyped'
  <2>1. Len(st'.levels) = Len(st.levels) /\ nextId' \in Nat /\ Entry' = Entry /\ 0 \in Entry
    <3>1. writes \in Nat
      BY DEF Control, Typed
    <3> QED BY <1>1, <1>4, <1>10, <3>1 DEF Entry
  <2>2. nextId' - 1 = m
    BY <1>1, <1>4
  <2>3. DOMAIN mt' \subseteq 0..(nextId' - 1)
    <3>1. m \in 0..m /\ \A i \in Ids(o.s.imm) : i \in 0..m
      BY <1>4, <1>9, <1>11
    <3> QED BY <1>1, <1>6, <2>2, <3>1
  <2>4. DOMAIN wal' \subseteq 0..(nextId' - 1)
    <3>1. CASE setting.wal
      <4>1. DOMAIN wal' = DOMAIN wal \cup {m}
        BY <1>1, <3>1 DEF With
      <4>2. DOMAIN wal = r.mems
        BY <1>3, <1>7, <3>1
      <4>3. \A i \in r.mems : i \in 0..m
        BY <1>7, <1>9
      <4> QED BY <1>4, <2>2, <4>1, <4>2, <4>3
    <3>2. CASE ~setting.wal
      <4>1. DOMAIN wal' = {}
        BY <1>1, <1>2, <3>2 DEF LogsKept
      <4> QED BY <4>1
    <3> QED BY <3>1, <3>2
  <2>5. \A i \in DOMAIN mt' : mt'[i] \in Memtable /\ \A k \in Key : mt'[i].data[k] \in Entry
    <3>1. ASSUME NEW i \in DOMAIN mt' PROVE mt'[i] \in Memtable /\ \A k \in Key : mt'[i].data[k] \in Entry
      <4>1. CASE i = m
        <5>1. mt'[i] = [data |-> Nothing, size |-> 0]
          BY <1>1, <1>6, <4>1 DEF EmptyMemtable
        <5>2. Nothing \in Table /\ \A k \in Key : Nothing[k] = 0
          BY DEF Nothing, Table
        <5> HIDE DEF Nothing
        <5> QED BY <2>1, <5>1, <5>2 DEF Memtable
      <4>2. CASE i # m
        <5>1. i \in Ids(o.s.imm)
          BY <1>1, <1>6, <4>2
        <5>2. mt'[i] = [data |-> Recovered(wal[i]), size |-> 0] /\ i \in DOMAIN wal
          BY <1>1, <1>5, <5>1
        <5>3. Recovered(wal[i]) \in Table /\ \A k \in Key : Recovered(wal[i])[k] \in Entry
          BY <1>2, <5>2, LogOf, RecoveredEntries
        <5> QED BY <5>2, <5>3 DEF Memtable
      <4> QED BY <4>1, <4>2
    <3> QED BY <3>1
  <2>6. mt' \in [DOMAIN mt' -> Memtable]
    <3>1. mt' = [i \in DOMAIN mt' |-> mt'[i]]
      BY <1>1 DEF OpenedMt
    <3> QED BY <2>5, <3>1
  <2>7. wal' \in [DOMAIN wal' -> Seq([k : Key, e : Int])] /\ \A i \in DOMAIN wal' : \A n \in DOMAIN wal'[i] : wal'[i][n].e \in Entry
    <3>1. CASE setting.wal
      <4>1. wal' = [j \in DOMAIN wal \cup {m} |-> IF j = m THEN <<>> ELSE wal[j]]
        BY <1>1, <3>1 DEF With
      <4>2. ASSUME NEW i \in DOMAIN wal' PROVE wal'[i] \in Seq([k : Key, e : Int]) /\ \A n \in DOMAIN wal'[i] : wal'[i][n].e \in Entry
        <5>1. CASE i = m
          <6>1. wal'[i] = <<>>
            BY <4>1, <5>1
          <6> QED BY <6>1
        <5>2. CASE i # m
          <6>1. wal'[i] = wal[i] /\ i \in DOMAIN wal
            BY <4>1, <5>2
          <6> QED BY <1>2, <6>1 DEF StoreTyped
        <5> QED BY <5>1, <5>2
      <4>3. wal' = [i \in DOMAIN wal' |-> wal'[i]]
        BY <4>1
      <4> QED BY <4>2, <4>3
    <3>2. CASE ~setting.wal
      BY <1>1, <1>2, <3>2 DEF StoreTyped
    <3> QED BY <3>1, <3>2
  <2>8. \A d \in Client : at'[d] # "append"
    BY <1>1, ThreadsApart
  <2>9. Len(st.levels) = (IF setting.simple THEN MaxLevels ELSE 1) /\ sst \in [DOMAIN sst -> Table]
        /\ \A i \in DOMAIN sst, k \in Key : sst[i][k] \in Entry
    BY <1>2 DEF StoreTyped
  <2>10. /\ st' \in State /\ Len(st'.levels) = IF setting'.simple THEN MaxLevels ELSE 1
         /\ nextId' \in Nat /\ DOMAIN wal' \subseteq 0..(nextId' - 1)
    BY <1>1, <1>10, <2>1, <2>4, <2>9
  <2>11. /\ mt' \in [DOMAIN mt' -> Memtable] /\ DOMAIN mt' \subseteq 0..(nextId' - 1)
         /\ \A i \in DOMAIN mt', k \in Key : mt'[i].data[k] \in Entry'
    BY <2>1, <2>3, <2>5, <2>6
  <2>12. /\ sst' \in [DOMAIN sst' -> Table]
         /\ \A i \in DOMAIN sst', k \in Key : sst'[i][k] \in Entry'
    BY <1>1, <2>1, <2>9
  <2>13. /\ wal' \in [DOMAIN wal' -> Seq([k : Key, e : Int])]
         /\ \A i \in DOMAIN wal' : \A n \in DOMAIN wal'[i] : wal'[i][n].e \in Entry'
    BY <2>1, <2>7
  <2> QED BY <2>8, <2>10, <2>11, <2>12, <2>13 DEF StoreTyped
<1>14. Memtables'
  <2>1. \A d \in Client : at'[d] \notin {"append", "swap"}
    BY <1>1, ThreadsApart
  <2>2. \A i \in Ids(o.s.imm) : i < m
    BY <1>9, <1>11
  <2> QED BY <1>1, <1>4, <1>6, <1>10, <2>1, <2>2 DEF Memtables
<1>15. TablesApart'
  <2>1. Apart(st')
    BY <1>2, <1>10 DEF TablesApart, Apart
  <2> QED BY <2>1 DEF TablesApart, Apart, Distinct, Ids
<1>16. TablesHeld'
  <2>1. TableIds(st) \subseteq DOMAIN sst /\ TableIds(st) \cap MemIds = {}
    BY <1>2, <1>3 DEF TablesHeld
  <2>2. \A i \in TableIds(st) : i \in r.ids /\ i # m /\ i \in 0..m
    <3>1. \A i \in r.ids : i # m
      <4>1. ASSUME NEW i \in r.ids, i = m PROVE FALSE
        <5>1. i < m
          BY <1>9
        <5> QED BY <1>4, <4>1, <5>1
      <4> QED BY <4>1
    <3> QED BY <1>7, <1>9, <3>1
  <2>3. nextId' - 1 = m
    BY <1>1, <1>4
  <2>4. TableIds(st) \cap MemIds' = {}
    BY <1>10, <1>11, <2>1, <2>2
  <2>5. TableIds(st) \subseteq DOMAIN sst' \cap 0..(nextId' - 1)
    BY <1>1, <2>1, <2>2, <2>3
  <2> QED BY <1>1, <1>4, <1>10, <1>12, <2>4, <2>5 DEF TablesHeld
<1>17. Jobs'
  <2>1. \A t \in Thread : at'[t] # "flush.install"
    BY <1>1
  <2> QED BY <1>1, <2>1 DEF Jobs
<1>18. TasksFit'
  BY <1>1 DEF TasksFit
<1>19. InputsLast'
  BY <1>1 DEF InputsLast
<1>20. Clones'
  BY <1>1 DEF Clones
<1>21. LogsKept'
  <2>1. \A d \in Client : at'[d] # "swap"
    BY <1>1, ThreadsApart
  <2>2. CASE setting.wal
    <3>1. DOMAIN wal' = DOMAIN wal \cup {m}
      BY <1>1, <2>2 DEF With
    <3>2. MemIds' \subseteq DOMAIN wal'
      BY <1>5, <1>10, <3>1
    <3> QED BY <1>1, <2>1, <2>2, <3>2 DEF LogsKept
  <2>3. CASE ~setting.wal
    BY <1>1, <1>2, <2>3 DEF LogsKept
  <2> QED BY <2>2, <2>3
<1>22. Replays'
  <2> DEFINE rec == [kind |-> "new", id |-> m]
  <2>1. rec \in ManifestRecord
    BY <1>4 DEF ManifestRecord
  <2>2. rec.kind # "full" /\ rec = [kind |-> "new", id |-> m] /\ manifest' = Append(manifest, rec)
    BY <1>1
  <2> HIDE DEF rec
  <2>3. /\ manifest' \in Seq(ManifestRecord) /\ ManifestRecord' = ManifestRecord
        /\ NoFull' <=> NoFull
        /\ Replay' = Replayed(Replay, rec)
        /\ DOMAIN Replay = {"ok", "mems", "ids", "s"}
    BY <1>1, <1>2, <2>1, <2>2, Recorded
  <2> HIDE DEF Replay
  <2>4. /\ Replay'.ok = r.ok /\ Replay'.mems = r.mems \cup {m}
        /\ Replay'.ids = r.ids \cup {m} /\ Replay'.s = r.s
    <3>1. Replay' = Replayed(r, [kind |-> "new", id |-> m]) /\ DOMAIN r = {"ok", "mems", "ids", "s"}
      BY <2>2, <2>3 DEF r
    <3> HIDE DEF rec
    <3> DEFINE q == Replay'
    <3>2. q = Replayed(r, [kind |-> "new", id |-> m])
      BY <3>1
    <3> HIDE DEF q
    <3>3. q.ok = r.ok /\ q.mems = r.mems \cup {m} /\ q.ids = r.ids \cup {m} /\ q.s = r.s
      BY <3>1, <3>2, ReplayedNew
    <3> QED BY <3>3 DEF q
  <2>5. Replay'.ok /\ Replay'.s = [mem |-> 0, imm |-> <<>>, l0 |-> st'.l0, levels |-> st'.levels]
    BY <1>7, <1>10, <2>4
  <2>6. /\ Replay'.mems \subseteq Replay'.ids /\ Ids(o.s.imm) \subseteq Replay'.mems
        /\ TableIds(st) \subseteq Replay'.ids /\ 1 \in Replay'.ids /\ m \in Replay'.mems
    BY <1>7, <1>11, <2>4
  <2>7. Replay'.ids \subseteq 0..nextId'
    <3>1. \A i \in r.ids \cup {m} : i \in 0..m
      BY <1>4, <1>9
    <3>2. 0..m \subseteq 0..nextId'
      BY <1>1, <1>4
    <3> QED BY <2>4, <3>1, <3>2
  <2>8. setting.wal =>
                  /\ st'.mem \in Replay'.mems
                  /\ DOMAIN wal' = Replay'.mems \cup Coming'
                  /\ \A j \in Replay'.mems \ MemIds' : Recovered(wal'[j]) = Nothing
    <3>1. ASSUME setting.wal
          PROVE  /\ st'.mem \in Replay'.mems
                  /\ DOMAIN wal' = Replay'.mems \cup Coming'
                  /\ \A j \in Replay'.mems \ MemIds' : Recovered(wal'[j]) = Nothing
      <4>1. wal' = With(wal, m, <<>>)
        BY <1>1, <3>1
      <4>2. DOMAIN wal' = DOMAIN wal \cup {m} /\ \A j \in DOMAIN wal : j # m => wal'[j] = wal[j]
        BY <4>1 DEF With
      <4>3. DOMAIN wal = r.mems
        BY <1>3, <1>7, <3>1
      <4>4. ASSUME NEW j \in Replay'.mems \ MemIds' PROVE Recovered(wal'[j]) = Nothing
        <5>1. j \in r.mems /\ j # m /\ j \in DOMAIN wal
          BY <1>10, <2>4, <4>3
        <5>2. j \notin Kept
          BY <1>4, <1>10, <3>1
        <5>3. Recovered(wal[j]) = Nothing
          BY <1>8, <5>1, <5>2 DEF IsEmptyTable
        <5> QED BY <4>2, <5>1, <5>3
      <4> QED BY <1>1, <1>10, <2>4, <4>2, <4>3, <4>4
    <3> QED BY <3>1
  <2>9. NoFull'
    BY <1>4, <2>3
  <2> QED BY <1>1, <1>10, <2>3, <2>5, <2>6, <2>7, <2>8, <2>9 DEF Replays
<1> QED BY <1>13, <1>14, <1>15, <1>16, <1>17, <1>18, <1>19, <1>20, <1>21, <1>22 DEF Store

\* What replaying the first record of a new directory finds.
LEMMA ReplayInit ==
    ASSUME manifest = <<[kind |-> "new", id |-> 0]>>
    PROVE  /\ manifest \in Seq(ManifestRecord)
           /\ NoFull /\ Replay.ok /\ Replay.mems = {0} /\ Replay.ids = {0, 1}
           /\ Replay.s = [mem |-> 0, imm |-> <<>>, l0 |-> <<>>, levels |-> EmptyLevels]
<1> DEFINE rec == [kind |-> "new", id |-> 0]
<1>1. rec \in ManifestRecord /\ rec.kind = "new"
  BY DEF ManifestRecord
<1> HIDE DEF rec
<1>2. manifest = <<rec>>
  BY DEF rec
<1>3. <<rec>> = Append(<<>>, rec) /\ <<>> \in Seq(ManifestRecord) /\ <<rec>> \in Seq(ManifestRecord)
  BY <1>1
<1>4. Replay = Replayed(ReplayStart, rec)
  BY <1>1, <1>2, <1>3, ReplayNext, ReplayNothing DEF Replay
<1>5. DOMAIN ReplayStart = {"ok", "mems", "ids", "s"}
  BY DEF ReplayStart
<1>6. /\ Replay.ok = ReplayStart.ok /\ Replay.mems = ReplayStart.mems \cup {0}
      /\ Replay.ids = ReplayStart.ids \cup {0} /\ Replay.s = ReplayStart.s
  BY <1>4, <1>5, ReplayedNew DEF rec
<1>7. NoFull
  BY <1>1, <1>2 DEF NoFull
<1> QED BY <1>2, <1>3, <1>6, <1>7 DEF ReplayStart

\* A new directory is in order.
LEMMA StoreInit ==
    ASSUME Init
    PROVE  Store
<1>1. /\ setting \in Setting
      /\ st = [mem |-> 0, imm |-> <<>>, l0 |-> <<>>, levels |-> EmptyLevels]
      /\ mt = [i \in {0} |-> EmptyMemtable]
      /\ wal = IF setting.wal THEN [i \in {0} |-> <<>>] ELSE <<>>
      /\ sst = <<>> /\ files = {}
      /\ manifest = <<[kind |-> "new", id |-> 0]>>
      /\ nextId = 1 /\ writes = 0 /\ mode = "open"
  BY Week2Assumption DEF Init
<1>2. \A t \in Thread : at[t] \in {"idle", "stopped"} /\ loc[t].op = "none"
  BY DEF Init, Start, NoOp
<1>3. Compacting = {} /\ Builders = {} /\ Readers = {} /\ Coming = {}
  BY <1>2, ThreadsApart DEF Compacting, Builders, Readers, Coming
<1>4. EmptyLevels \in Seq(Seq(Nat)) /\ Len(EmptyLevels) = (IF setting.simple THEN MaxLevels ELSE 1)
      /\ \A i \in DOMAIN EmptyLevels : EmptyLevels[i] = <<>>
  <2> DEFINE n == IF setting.simple THEN MaxLevels ELSE 1
  <2>1. n \in Nat
    BY Week2Assumption
  <2>2. EmptyLevels = [i \in 1..n |-> <<>>]
    BY DEF EmptyLevels
  <2> HIDE DEF n
  <2>3. EmptyLevels \in Seq(Seq(Nat)) /\ Len(EmptyLevels) = n
        /\ \A i \in DOMAIN EmptyLevels : EmptyLevels[i] = <<>>
    BY <2>1, <2>2
  <2> QED BY <2>3 DEF n
<1>5. st \in State /\ st.mem = 0 /\ st.imm = <<>> /\ st.l0 = <<>> /\ st.levels = EmptyLevels
  BY <1>1, <1>4 DEF State
<1>6. Ids(<<>>) = {}
  BY DEF Ids
<1>7. TableIds(st) = {} /\ MemIds = {0} /\ Ids(st.imm) = {}
  BY <1>4, <1>5, <1>6 DEF TableIds, MemIds
<1>8. Held = {}
  BY <1>3, <1>7 DEF Held
<1>9. /\ DOMAIN mt = {0} /\ mt[0] = EmptyMemtable /\ EmptyMemtable \in Memtable
      /\ \A k \in Key : EmptyMemtable.data[k] = 0
      /\ 0 \in Entry
  BY <1>1 DEF EmptyMemtable, Nothing, Memtable, Table, Entry
<1>10. DOMAIN sst = {}
  BY <1>1
<1>11. /\ DOMAIN wal \subseteq {0} /\ \A i \in DOMAIN wal : wal[i] = <<>>
       /\ setting.wal => DOMAIN wal = {0}
       /\ ~setting.wal => DOMAIN wal = {}
       /\ wal \in [DOMAIN wal -> Seq([k : Key, e : Int])]
  <2>1. CASE setting.wal
    <3>1. wal = [i \in {0} |-> <<>>]
      BY <1>1, <2>1
    <3> QED BY <2>1, <3>1
  <2>2. CASE ~setting.wal
    <3>1. wal = <<>>
      BY <1>1, <2>2
    <3> QED BY <2>2, <3>1
  <2> QED BY <2>1, <2>2
<1>12. StoreTyped
  <2>1. sst \in [DOMAIN sst -> Table]
    BY <1>1
  <2>2. mt \in [DOMAIN mt -> Memtable] /\ DOMAIN mt \subseteq 0..(nextId - 1)
    BY <1>1, <1>9
  <2>3. \A i \in DOMAIN wal : \A n \in DOMAIN wal[i] : wal[i][n].e \in Entry
    BY <1>11
  <2>4. \A c \in Client : at[c] # "append"
    BY <1>2 DEF Thread
  <2>5. DOMAIN wal \subseteq 0..(nextId - 1)
    BY <1>1, <1>11
  <2>6. nextId \in Nat
    BY <1>1
  <2> QED BY <1>4, <1>5, <1>9, <1>10, <1>11, <2>1, <2>2, <2>3, <2>4, <2>5, <2>6 DEF StoreTyped
<1>13. Memtables
  <2>1. \A c \in Client : at[c] \notin {"append", "swap"}
    BY <1>2 DEF Thread
  <2> QED BY <1>5, <1>7, <1>9, <2>1 DEF Memtables
<1>14. TablesApart
  <2>1. Distinct(st.l0)
    BY <1>5 DEF Distinct
  <2> QED BY <1>4, <1>5, <1>6, <2>1 DEF TablesApart, Apart
<1>15. TablesHeld
  BY <1>7, <1>8 DEF TablesHeld
<1>16. Jobs /\ TasksFit /\ InputsLast /\ Clones
  BY <1>2, <1>3 DEF Jobs, TasksFit, InputsLast, Clones
<1>17. LogsKept
  <2>1. \A c \in Client : at[c] # "swap"
    BY <1>2 DEF Thread
  <2> QED BY <1>7, <1>11, <2>1 DEF LogsKept
<1>18. Replays
  <2>1. /\ NoFull /\ Replay.ok /\ Replay.mems = {0} /\ Replay.ids = {0, 1}
        /\ Replay.s = [mem |-> 0, imm |-> <<>>, l0 |-> <<>>, levels |-> EmptyLevels]
        /\ manifest \in Seq(ManifestRecord)
    BY <1>1, ReplayInit
  <2>2. Replay.s = [mem |-> 0, imm |-> <<>>, l0 |-> st.l0, levels |-> st.levels]
    BY <1>5, <2>1
  <2>3. Replay.ids \subseteq 0..nextId /\ 1 \in Replay.ids
    BY <1>1, <2>1
  <2>4. Replay.mems \ MemIds = {}
    BY <1>7, <2>1
  <2>5. setting.wal => DOMAIN wal = Replay.mems \cup Coming
    BY <1>3, <1>11, <2>1
  <2> HIDE DEF Replay
  <2> QED BY <1>5, <1>7, <2>1, <2>2, <2>3, <2>4, <2>5 DEF Replays
<1> QED BY <1>12, <1>13, <1>14, <1>15, <1>16, <1>17, <1>18 DEF Store

\* Every step keeps the tables, the files and the manifest in order.
LEMMA StoreStep ==
    ASSUME Control, Store, [Next]_vars
    PROVE  Store'
<1>1. CASE UNCHANGED vars
  <2>1. UNCHANGED <<engineVars, at, loc, setting, writes, mode>>
    BY <1>1 DEF vars, threadVars, controlVars, historyVars
  <2>2. Recording' => Recording
    BY <2>1 DEF Recording
  <2> QED BY <2>1, <2>2, StillKeeps
<1>2. ASSUME NEW c \in Client, WriteBatch(c)
      PROVE  Store'
  <2>1. PICK b \in Batches : Insert(c, b)
    BY <1>2 DEF WriteBatch
  <2>2. b \in Seq(Record) /\ b # <<>>
    BY BatchOf DEF Control, Typed
  <2>3. at[c] = "idle" /\ mode = "open"
    BY <1>2 DEF WriteBatch, Idle
  <2> QED BY <2>1, <2>2, <2>3, InsertStores
<1>3. ASSUME NEW c \in Client, NextRecord(c)
      PROVE  Store'
  <2>1. at[c] = "insert" /\ Insert(c, loc[c].todo)
    BY <1>3 DEF NextRecord
  <2>2. c \in Thread /\ loc[c] \in WriteLocals /\ loc[c].todo # <<>>
    BY <2>1, LocalsOf DEF Thread
  <2>3. mode = "open"
    <3>1. loc[c].op = "write"
      BY <2>2 DEF WriteLocals
    <3> QED BY <2>2, <3>1, PlaceOf DEF ModeFits
  <2>4. loc[c].todo \in Seq(Record)
    BY <2>2 DEF WriteLocals
  <2> QED BY <2>1, <2>2, <2>3, <2>4, InsertStores
<1>4. ASSUME NEW c \in Client, AppendRecord(c) \/ TryFreeze(c)
      PROVE  Store'
  BY <1>4, AppendStores, TryFreezeQuiet, CreateStores
<1>5. ASSUME NEW t \in Thread, ForceFreeze(t)
      PROVE  Store'
  <2>1. at[t] = "ff.lock"
    BY <1>5 DEF ForceFreeze
  <2>2. t \in Client
    BY <2>1, ForcedBy
  <2> QED BY <1>5, <2>2, CreateStores
<1>6. ASSUME NEW t \in Thread, Swap(t)
      PROVE  Store'
  BY <1>6, SwapStores
<1>7. ASSUME NEW t \in Thread, \/ t \in Client /\ ForceFlush(t)
                               \/ ForceCheck(t)
                               \/ t = Flusher /\ FlushTick
      PROVE  Store'
  BY <1>7, FlushQuiet
<1>8. ASSUME NEW t \in Thread, FlushBuild(t)
      PROVE  Store'
  BY <1>8, FlushQuiet, FlushBuildStores
<1>9. ASSUME NEW t \in Thread, FlushInstall(t)
      PROVE  Store'
  BY <1>9, FlushQuiet, FlushInstallStores
<1>10. ASSUME NEW t \in Thread, \/ t = Compactor /\ CompactTick
                                \/ t \in Client /\ FullCompaction(t)
       PROVE  Store'
  BY <1>10, CompactQuiet
<1>11. ASSUME NEW t \in Thread, Merge(t) \/ Apply(t) \/ Install(t) \/ RemoveInputs(t)
       PROVE  Store'
  BY <1>11, MergeStores, ApplyQuiet, InstallStores, RemoveStores
<1>12. ASSUME NEW c \in Client,
             \/ Get(c) \/ GetMemtable(c) \/ GetOld(c) \/ ReadReturns(c)
             \/ Scan(c) \/ ScanOpen(c) \/ ScanNext(c) \/ ScanEnd(c)
      PROVE  Store'
  BY <1>12, ReadQuiet
<1>13. ASSUME NEW t \in Thread,
             \/ t \in Client /\ (Close(t) \/ CloseJoin(t) \/ CloseDrain(t) \/ CloseEnd(t))
             \/ StopThread(t)
      PROVE  Store'
  BY <1>13, CloseQuiet
<1>14. ASSUME NEW c \in Client, CloseMemtable(c)
      PROVE  Store'
  <2>1. c \in Thread
    BY DEF Thread
  <2> QED BY <1>14, <2>1, CloseQuiet, CloseMemtableStores
<1>15. ASSUME NEW c \in Client, Open(c)
      PROVE  Store'
  BY <1>15, OpenQuiet, OpenStores
<1>16. Client \subseteq Thread /\ Flusher \in Thread /\ Compactor \in Thread
  BY DEF Thread
<1> QED BY <1>1, <1>2, <1>3, <1>4, <1>5, <1>6, <1>7, <1>8, <1>9, <1>10, <1>11, <1>12, <1>13, <1>14,
           <1>15, <1>16, NextCases

-----------------------------------------------------------------------------
(* Kinds of steps.                                                         *)

\* Steps that leave the engine as it is: reads, starts of calls, and most of close.
QuietStep(t) ==
    \/ t \in Client /\ (\/ Get(t) \/ GetMemtable(t) \/ GetOld(t) \/ ReadReturns(t)
                        \/ Scan(t) \/ ScanOpen(t) \/ ScanNext(t) \/ ScanEnd(t))
    \/ t \in Client /\ (ForceFlush(t) \/ FullCompaction(t) \/ Close(t) \/ CloseJoin(t)
                        \/ CloseDrain(t) \/ CloseEnd(t))
    \/ ForceCheck(t) \/ Apply(t) \/ StopThread(t)
    \/ t = Flusher /\ FlushTick
    \/ t = Compactor /\ CompactTick

\* Steps that freeze, flush and compact.
EngineStep(t) ==
    \/ t \in Client /\ (TryFreeze(t) \/ CloseMemtable(t))
    \/ ForceFreeze(t) \/ Swap(t) \/ FlushBuild(t) \/ FlushInstall(t)
    \/ Merge(t) \/ Install(t) \/ RemoveInputs(t)

\* The insertion of the first record of b.
Inserts(c, b) ==
    b \in Seq(Record) /\ b # <<>> /\ Insert(c, b) /\ at[c] \in {"idle", "insert"} /\ mode = "open"

\* An insertion is one of a record of a batch.
LEMMA InsertsOf ==
    ASSUME Control, NEW c \in Client, WriteBatch(c) \/ NextRecord(c)
    PROVE  \E b : Inserts(c, b)
<1>1. CASE WriteBatch(c)
  <2>1. PICK b \in Batches : Insert(c, b)
    BY <1>1 DEF WriteBatch
  <2>2. b \in Seq(Record) /\ b # <<>>
    BY BatchOf
  <2>3. at[c] = "idle" /\ mode = "open"
    BY <1>1 DEF WriteBatch, Idle
  <2> QED BY <2>1, <2>2, <2>3 DEF Inserts
<1>2. CASE NextRecord(c)
  <2>1. at[c] = "insert" /\ Insert(c, loc[c].todo)
    BY <1>2 DEF NextRecord
  <2>2. c \in Thread /\ loc[c] \in WriteLocals /\ loc[c].todo # <<>>
    BY <2>1, LocalsOf DEF Thread
  <2>3. loc[c].op = "write" /\ loc[c].todo \in Seq(Record)
    BY <2>2 DEF WriteLocals
  <2>4. mode = "open"
    BY <2>2, <2>3, PlaceOf DEF ModeFits
  <2> QED BY <2>1, <2>2, <2>3, <2>4 DEF Inserts
<1> QED BY <1>1, <1>2

\* The kinds of steps there are.
LEMMA NextKinds ==
    ASSUME Control, [Next]_vars
    PROVE  \/ UNCHANGED vars
           \/ \E t \in Thread : QuietStep(t) \/ EngineStep(t)
           \/ \E c \in Client : (\E b : Inserts(c, b)) \/ AppendRecord(c) \/ Open(c)
<1>1. Client \subseteq Thread /\ Flusher \in Thread /\ Compactor \in Thread
  BY DEF Thread
<1>2. ASSUME NEW c \in Client,
             \/ WriteBatch(c) \/ NextRecord(c) \/ AppendRecord(c) \/ Open(c)
      PROVE  (\E b : Inserts(c, b)) \/ AppendRecord(c) \/ Open(c)
  BY <1>2, InsertsOf
<1>3. ASSUME NEW c \in Client,
             \/ TryFreeze(c)
             \/ ForceFlush(c) \/ FullCompaction(c)
             \/ Get(c) \/ GetMemtable(c) \/ GetOld(c) \/ ReadReturns(c)
             \/ Scan(c) \/ ScanOpen(c) \/ ScanNext(c) \/ ScanEnd(c)
             \/ Close(c) \/ CloseJoin(c) \/ CloseMemtable(c) \/ CloseDrain(c) \/ CloseEnd(c)
      PROVE  QuietStep(c) \/ EngineStep(c)
  BY <1>3 DEF QuietStep, EngineStep
<1>4. ASSUME NEW t \in Thread,
             \/ ForceFreeze(t) \/ Swap(t) \/ ForceCheck(t) \/ FlushBuild(t) \/ FlushInstall(t)
             \/ Merge(t) \/ Apply(t) \/ Install(t) \/ RemoveInputs(t) \/ StopThread(t)
      PROVE  QuietStep(t) \/ EngineStep(t)
  BY <1>4 DEF QuietStep, EngineStep
<1>5. FlushTick \/ CompactTick => \E t \in Thread : QuietStep(t)
  BY <1>1 DEF QuietStep
<1> QED BY <1>1, <1>2, <1>3, <1>4, <1>5, NextCases

\* What such steps leave alone.
LEMMA QuietLeaves ==
    ASSUME NEW t, QuietStep(t)
    PROVE  UNCHANGED <<st, mt, wal, sst, files, manifest, nextId, writes, current, done, stale, setting>>
BY DEF QuietStep, Get, GetMemtable, GetOld, ReadReturns, Scan, ScanOpen, ScanNext, ScanEnd, ForceFlush,
    FullCompaction, Close, CloseJoin, CloseDrain, CloseEnd, ForceCheck, Apply, StopThread, FlushTick,
    CompactTick, engineVars, diskVars, historyVars

\* Steps of the engine leave the history alone.
LEMMA EngineLeaves ==
    ASSUME NEW t, EngineStep(t)
    PROVE  UNCHANGED <<writes, current, done, stale, seen, setting, mode, closed, left>>
BY DEF EngineStep, TryFreeze, CloseMemtable, ForceFreeze, Swap, FlushBuild, FlushInstall, Merge, Install,
    RemoveInputs, controlVars, historyVars

\* wal.put changes its log and the history.
LEMMA AppendLeaves ==
    ASSUME NEW c, AppendRecord(c)
    PROVE  UNCHANGED <<st, mt, sst, files, manifest, nextId, lock, stop, mode, closed, writes, current, seen, left, setting>>
BY DEF AppendRecord, controlVars

-----------------------------------------------------------------------------
(* The latest entries.                                                     *)

\* What was inserted last is an entry.
CurrentTyped == current \in [Key -> Entry]

\* What the sources behind a memtable give is an entry of one of them.
LEMMA BehindIn ==
    ASSUME NEW m, NEW f, NEW s \in State, Backed(m, f, s), NEW k \in Key, NEW E, 0 \in E,
           \A i \in Ids(s.imm) : m[i].data[k] \in E,
           \A i \in TableIds(s) : f[i][k] \in E
    PROVE  Behind(m, f, s, k) \in E /\ StoredIn(f, s, k) \in E
<1>1. Newest(ImmOf(m, s.imm), k) \in E
  <2>1. /\ ImmOf(m, s.imm) \in Seq(Table) /\ Len(ImmOf(m, s.imm)) = Len(s.imm)
        /\ \A i \in 1..Len(s.imm) : ImmOf(m, s.imm)[i] = m[s.imm[i]].data /\ s.imm[i] \in Ids(s.imm)
    BY ImmOfType DEF Backed, ImmOf, Ids
  <2> QED BY <2>1, NewestOf
<1>2. Lookup(f, s.l0, k) \in E
  <2>1. AtHand(f, s.l0) /\ Ids(s.l0) \subseteq TableIds(s)
    BY TableIdsOf DEF Backed
  <2> QED BY <2>1, LookupType
<1>3. LevelEntry(f, s.levels, k) \in E
  <2>1. \A i \in 1..Len(s.levels) : AtHand(f, s.levels[i]) /\ Ids(s.levels[i]) \subseteq TableIds(s)
    BY TableIdsOf DEF Backed, LevelsAtHand
  <2>2. \A i \in 1..Len(s.levels) : Lookup(f, s.levels[i], k) \in E
    BY <2>1, LookupType
  <2>3. /\ LevelsOf(f, s.levels) \in Seq(Table) /\ Len(LevelsOf(f, s.levels)) = Len(s.levels)
        /\ \A i \in 1..Len(s.levels) : LevelsOf(f, s.levels)[i][k] = Lookup(f, s.levels[i], k)
    BY LevelsOfType DEF Backed
  <2> QED BY <2>2, <2>3, NewestOf DEF LevelEntry
<1> QED BY <1>1, <1>2, <1>3 DEF Behind, StoredIn, Or

\* What an opened engine reads is an entry.
LEMMA OpenedEntries ==
    ASSUME Control, Store, Opened.ok, NEW k \in Key
    PROVE  OpenedEntry(Opened, k) \in Entry
<1>1. StoreTyped /\ TablesHeld /\ Replays
  BY DEF Store
<1>2. /\ Backed(OpenedMt(Opened), sst, Opened.s)
      /\ \A i \in Ids(Opened.s.imm) : /\ i \in DOMAIN wal
                                      /\ OpenedMt(Opened)[i] = [data |-> Recovered(wal[i]), size |-> 0]
      /\ OpenedEntry(Opened, k) = Behind(OpenedMt(Opened), sst, Opened.s, k)
  BY <1>1, OpenedReads
<1>3. /\ Opened.s \in State /\ Opened.s.l0 = st.l0 /\ Opened.s.levels = st.levels
  BY <1>1, OpenedIs
<1> DEFINE o == Opened
           m == OpenedMt(o)
<1>4. \A i \in Ids(o.s.imm) : m[i].data[k] \in Entry
  <2> HIDE DEF m, o
  <2>1. ASSUME NEW i \in Ids(o.s.imm) PROVE m[i].data[k] \in Entry
    <3>1. m[i] = [data |-> Recovered(wal[i]), size |-> 0] /\ i \in DOMAIN wal
      BY <1>2 DEF m, o
    <3> QED BY <1>1, <3>1, RecoveredEntries
  <2> QED BY <2>1
<1>5. \A i \in TableIds(o.s) : sst[i][k] \in Entry
  <2>1. TableIds(o.s) = TableIds(st)
    BY <1>3 DEF TableIds
  <2>2. TableIds(st) \subseteq Held
    BY HeldHas
  <2> QED BY <1>1, <2>1, <2>2 DEF TablesHeld, StoreTyped
<1>6. 0 \in Entry
  BY DEF Entry, Control, Typed
<1> HIDE DEF m, o
<1> QED BY <1>2, <1>3, <1>4, <1>5, <1>6, BehindIn DEF m, o

\* It stays one.
LEMMA CurrentStep ==
    ASSUME Control, Store, CurrentTyped, [Next]_vars
    PROVE  CurrentTyped'
<1>1. CASE UNCHANGED vars
  BY <1>1 DEF vars, historyVars, CurrentTyped, Entry
<1>2. ASSUME NEW t \in Thread, QuietStep(t) \/ EngineStep(t)
      PROVE  CurrentTyped'
  BY <1>2, QuietLeaves, EngineLeaves DEF CurrentTyped, Entry
<1>3. ASSUME NEW c \in Client, AppendRecord(c)
      PROVE  CurrentTyped'
  BY <1>3, AppendLeaves DEF CurrentTyped, Entry
<1>4. ASSUME NEW c \in Client, NEW b, Inserts(c, b)
      PROVE  CurrentTyped'
  <2> DEFINE e == IF b[1].del THEN -(writes + 1) ELSE writes + 1
  <2>1. current' = [current EXCEPT ![b[1].k] = e] /\ writes' = writes + 1 /\ writes \in Nat
    BY <1>4 DEF Inserts, Insert, Control, Typed
  <2>2. e \in Entry' /\ Entry \subseteq Entry'
    BY <2>1 DEF Entry
  <2> HIDE DEF e
  <2> QED BY <2>1, <2>2 DEF CurrentTyped
<1>5. ASSUME NEW c \in Client, Open(c)
      PROVE  CurrentTyped'
  <2>1. CASE Opened.ok
    <3>1. current' = [k \in Key |-> OpenedEntry(Opened, k)] /\ writes' = writes
      BY <1>5, <2>1 DEF Open
    <3> QED BY <2>1, <3>1, OpenedEntries DEF CurrentTyped, Entry
  <2>2. CASE ~Opened.ok
    BY <1>5, <2>2 DEF Open, historyVars, CurrentTyped, Entry
  <2> QED BY <2>1, <2>2
<1> QED BY <1>1, <1>2, <1>3, <1>4, <1>5, NextKinds

\* The control of the threads, the store and the history of entries are in order.
Engine == Control /\ Store /\ CurrentTyped

\* A new engine is in order.
LEMMA EngineInit ==
    ASSUME Init
    PROVE  Engine
<1>1. CurrentTyped
  BY DEF Init, CurrentTyped, Nothing, Entry
<1> QED BY <1>1, ControlInit, StoreInit DEF Engine

\* Every step keeps it so.
LEMMA EngineStepKeeps ==
    ASSUME Engine, [Next]_vars
    PROVE  Engine'
BY ControlStep, StoreStep, CurrentStep DEF Engine

\* Control, Store and CurrentTyped hold together in every reachable state: the invariant that
\* all others rest on.
THEOREM EngineHolds == Spec => []Engine
BY EngineInit, EngineStepKeeps, PTL DEF Spec

\* TypeOK: the ids in use are those of tables at hand, and locals fit where a thread is.
THEOREM Typing == Spec => []TypeOK
<1>1. Engine => TypeOK
  <2> SUFFICES ASSUME Engine PROVE TypeOK
    OBVIOUS
  <2>1. Control /\ StoreTyped /\ Memtables /\ TablesHeld /\ CurrentTyped
    BY DEF Engine, Store
  <2>2. TableIds(st) \subseteq Held
    BY HeldHas
  <2>3. mode \in {"open", "closing", "closed", "failed"} /\ closed \in {"none", "ok", "err"}
        /\ lock \in Thread \cup {Nobody}
    BY <2>1 DEF Control, Typed
  <2>4. Ids(st.imm) \cup {st.mem} \subseteq DOMAIN mt
    BY <2>1 DEF Memtables, MemIds
  <2>5. TableIds(st) \subseteq DOMAIN sst \cap files
    BY <2>1, <2>2 DEF TablesHeld
  <2>6. DOMAIN mt \cup TableIds(st) \subseteq 0..(nextId - 1)
    BY <2>1, <2>2 DEF TablesHeld, StoreTyped
  <2>7. \A k \in Key : current[k] \in -writes..writes
    BY <2>1 DEF CurrentTyped, Entry
  <2> QED BY <2>3, <2>4, <2>5, <2>6, <2>7 DEF TypeOK
<1> QED BY <1>1, EngineHolds, PTL

\* OpenSucceeds: a closed engine can be opened unless a full compaction was recorded.
THEOREM Reopening == Spec => []OpenSucceeds
<1>1. Engine => OpenSucceeds
  <2> SUFFICES ASSUME Engine, Stopped
               PROVE  Opened.ok <=> \A i \in 1..Len(manifest) : manifest[i].kind # "full"
    BY DEF OpenSucceeds
  <2>1. Control /\ StoreTyped /\ TablesHeld /\ Replays
    BY DEF Engine, Store
  <2>2. manifest \in Seq(ManifestRecord)
    BY <2>1 DEF Replays
  <2>3. NoFull <=> \A i \in 1..Len(manifest) : manifest[i].kind # "full"
    BY <2>2 DEF NoFull
  <2>4. Opened.ok => NoFull
    BY <2>1, OpenedIs
  <2>5. ASSUME NoFull PROVE Opened.ok
    <3> DEFINE r == Replay
               top == CHOOSE i \in r.ids : \A j \in r.ids : j <= i
    <3>1. Opened.ok = /\ r.ok
                      /\ TableIds(r.s) \subseteq files
                      /\ setting.wal => r.mems \subseteq DOMAIN wal /\ top + 1 \notin DOMAIN wal
      BY DEF Opened
    <3>2. /\ r.ok /\ r.s = [mem |-> 0, imm |-> <<>>, l0 |-> st.l0, levels |-> st.levels]
          /\ 1 \in r.ids /\ r.ids \subseteq 0..nextId /\ r.mems \subseteq r.ids
          /\ setting.wal => DOMAIN wal = r.mems \cup Coming
      BY <2>1, <2>5 DEF Replays
    <3>3. TableIds(r.s) \subseteq files
      <4>1. TableIds(r.s) = TableIds(st)
        BY <3>2 DEF TableIds
      <4> QED BY <2>1, <4>1 DEF TablesHeld
    <3>4. Coming = {}
      BY <2>1, StoppedIs
    <3>5. nextId \in Nat
      BY <2>1 DEF StoreTyped
    <3>6. top \in r.ids /\ \A j \in r.ids : j <= top
      <4>1. \E i \in r.ids : \A j \in r.ids : j <= i
        <5> HIDE DEF r
        <5> QED BY <3>2, <3>5, GreatestOf
      <4> HIDE DEF r
      <4> QED BY <4>1
    <3> HIDE DEF top, r
    <3>7. top + 1 \notin r.ids
      BY <3>2, <3>5, <3>6
    <3> QED BY <3>1, <3>2, <3>3, <3>4, <3>7
  <2> QED BY <2>3, <2>4, <2>5
<1> QED BY <1>1, EngineHolds, PTL

-----------------------------------------------------------------------------
(* What is frozen.                                                         *)

\* What is frozen stays, except where the engine is opened again.
FrozenStays ==
    \A i \in DOMAIN mt \ {st.mem} :
        /\ mt'[i].data = mt[i].data
        /\ i \in DOMAIN wal \cap DOMAIN wal' => wal'[i] = wal[i]

\* A new memtable leaves the others, and their logs, as they are.
LEMMA CreateLeaves ==
    ASSUME Store, CreateMemtable
    PROVE  (\A i \in DOMAIN mt : mt'[i] = mt[i]) /\ (\A i \in DOMAIN wal : wal'[i] = wal[i])
<1>1. nextId \in Nat /\ nextId \notin DOMAIN mt /\ nextId \notin DOMAIN wal
  BY DEF Store, StoreTyped
<1> QED BY <1>1 DEF CreateMemtable, With

\* While the engine runs, no step changes a frozen memtable or its log.
LEMMA FrozenStep ==
    ASSUME Engine, [Next]_vars, ~Stopped
    PROVE  FrozenStays
<1>1. Control /\ Store /\ StoreTyped /\ Memtables
  BY DEF Engine, Store
<1>2. CASE UNCHANGED <<mt, wal>>
  BY <1>2 DEF FrozenStays
<1>3. CASE CreateMemtable
  BY <1>1, <1>3, CreateLeaves DEF FrozenStays
<1>4. ASSUME NEW t \in Thread, EngineStep(t)
      PROVE  FrozenStays
  <2>1. CASE FlushInstall(t)
    <3>1. mt' = mt
      BY <2>1 DEF FlushInstall
    <3>2. \A i \in DOMAIN wal \cap DOMAIN wal' : wal'[i] = wal[i]
      BY <2>1 DEF FlushInstall
    <3> QED BY <3>1, <3>2 DEF FrozenStays
  <2>2. CASE Merge(t) \/ Install(t) \/ RemoveInputs(t) \/ Swap(t) \/ FlushBuild(t)
    <3>1. UNCHANGED <<mt, wal>>
      BY <2>2 DEF Merge, Install, RemoveInputs, Swap, FlushBuild
    <3> QED BY <1>2, <3>1
  <2>3. CASE (t \in Client /\ (TryFreeze(t) \/ CloseMemtable(t))) \/ ForceFreeze(t)
    <3>1. CreateMemtable \/ UNCHANGED <<mt, wal>>
      BY <2>3 DEF TryFreeze, CloseMemtable, ForceFreeze
    <3> QED BY <1>2, <1>3, <3>1
  <2> QED BY <1>4, <2>1, <2>2, <2>3 DEF EngineStep
<1>5. ASSUME NEW c \in Client, NEW b, Inserts(c, b)
      PROVE  FrozenStays
  <2> DEFINE e == IF b[1].del THEN -(writes + 1) ELSE writes + 1
             k == b[1].k
  <2>1. mt' = [mt EXCEPT ![st.mem].data[k] = e, ![st.mem].size = @ + 1] /\ wal' = wal
    BY <1>5 DEF Inserts, Insert, diskVars
  <2> HIDE DEF e, k
  <2>2. \A i \in DOMAIN mt \ {st.mem} : mt'[i] = mt[i]
    BY <1>1, <2>1 DEF StoreTyped
  <2> QED BY <2>1, <2>2 DEF FrozenStays
<1>6. ASSUME NEW c \in Client, AppendRecord(c)
      PROVE  FrozenStays
  <2>1. mt' = mt /\ at[c] = "append"
    BY <1>6 DEF AppendRecord
  <2>2. loc[c].mem = st.mem
    BY <1>1, <2>1 DEF Memtables
  <2>3. \A i \in DOMAIN wal \ {st.mem} : wal'[i] = wal[i]
    BY <1>1, <1>6, <2>2 DEF AppendRecord, StoreTyped
  <2> QED BY <2>1, <2>3 DEF FrozenStays
<1>7. ASSUME NEW c \in Client, Open(c)
      PROVE  FrozenStays
  BY <1>7 DEF Open
<1>8. ASSUME NEW t \in Thread, QuietStep(t)
      PROVE  FrozenStays
  BY <1>2, <1>8, QuietLeaves
<1>9. CASE UNCHANGED vars
  BY <1>2, <1>9 DEF vars, engineVars, diskVars
<1> QED BY <1>1, <1>4, <1>5, <1>6, <1>7, <1>8, <1>9, NextKinds

\* FrozenUnchanged: a memtable that is not the current one is never written, nor is its log.
THEOREM Freezing == Spec => FrozenUnchanged
<1>1. Engine /\ [Next]_vars =>
          [mode # "closed" => \A i \in DOMAIN mt \ {st.mem} :
               /\ mt'[i].data = mt[i].data
               /\ i \in DOMAIN wal \cap DOMAIN wal' => wal'[i] = wal[i]]_vars
  BY FrozenStep DEF FrozenStays, Stopped
<1> QED BY <1>1, EngineHolds, PTL DEF Spec, FrozenUnchanged

-----------------------------------------------------------------------------
(* What a state reads as.                                                  *)

\* The entry for k in the state s, over the memtables m and the tables f.
ContentOf(m, f, s, k) == Or(m[s.mem].data[k], Behind(m, f, s, k))

\* The state is backed, and reads like this.
LEMMA ContentIs ==
    ASSUME Store
    PROVE  /\ Backed(mt, sst, st) /\ st \in State /\ mt[st.mem].data \in Table
           /\ \A i \in Ids(st.imm) : mt[i].data \in Table
           /\ \A k \in Key : Content(st, k) = ContentOf(mt, sst, st, k)
<1>1. StoreTyped /\ Memtables /\ TablesHeld
  BY DEF Store
<1>2. st \in State /\ \A i \in MemIds : mt[i].data \in Table
  BY <1>1 DEF StoreTyped, Memtables, Memtable
<1>3. mt[st.mem].data \in Table /\ \A i \in Ids(st.imm) : mt[i].data \in Table
  BY <1>2 DEF MemIds
<1>4. \A i \in TableIds(st) : i \in DOMAIN sst /\ sst[i] \in Table
  <2>1. TableIds(st) \subseteq Held
    BY HeldHas
  <2> QED BY <1>1, <2>1 DEF TablesHeld, StoreTyped
<1>5. Backed(mt, sst, st)
  BY <1>2, <1>3, <1>4, BackedBy
<1>6. ASSUME NEW k \in Key PROVE Content(st, k) = ContentOf(mt, sst, st, k)
  <2> DEFINE d == mt[st.mem].data
  <2>1. Content(st, k) = Newest(<<d>> \o (ImmOf(mt, st.imm) \o [i \in 1..Len(st.l0) |-> sst[st.l0[i]]]
                                      \o LevelsOf(sst, st.levels)), k)
    BY OldTablesAre DEF Content
  <2>2. d \in Table
    BY <1>3
  <2> HIDE DEF d
  <2>3. Content(st, k) = Or(d[k], Behind(mt, sst, st, k))
    BY <1>5, <2>1, <2>2, BehindOf
  <2> QED BY <2>3 DEF d, ContentOf
<1> QED BY <1>2, <1>3, <1>5, <1>6

\* Where the tables are the same a state reads the same.
LEMMA BehindSame ==
    ASSUME NEW m, NEW n, NEW f, NEW g, NEW s \in State, \A i \in Ids(s.imm) : n[i].data = m[i].data,
           \A i \in TableIds(s) : g[i] = f[i], NEW k
    PROVE  Behind(n, g, s, k) = Behind(m, f, s, k) /\ StoredIn(g, s, k) = StoredIn(f, s, k)
<1>1. ImmOf(n, s.imm) = ImmOf(m, s.imm)
  BY DEF ImmOf, Ids
<1>2. Lookup(g, s.l0, k) = Lookup(f, s.l0, k)
  <2>1. \A i \in Ids(s.l0) : g[i] = f[i]
    BY TableIdsOf
  <2>2. [i \in 1..Len(s.l0) |-> g[s.l0[i]]] = [i \in 1..Len(s.l0) |-> f[s.l0[i]]]
    BY <2>1 DEF Ids
  <2> QED BY <2>2 DEF Lookup
<1>3. LevelsOf(g, s.levels) = LevelsOf(f, s.levels)
  <2>1. \A i \in 1..Len(s.levels), j \in Key : Lookup(g, s.levels[i], j) = Lookup(f, s.levels[i], j)
    <3>1. ASSUME NEW i \in 1..Len(s.levels), NEW j \in Key
          PROVE  Lookup(g, s.levels[i], j) = Lookup(f, s.levels[i], j)
      <4>1. \A x \in Ids(s.levels[i]) : g[x] = f[x]
        BY TableIdsOf
      <4>2. [x \in 1..Len(s.levels[i]) |-> g[s.levels[i][x]]] = [x \in 1..Len(s.levels[i]) |-> f[s.levels[i][x]]]
        BY <4>1 DEF Ids
      <4> QED BY <4>2 DEF Lookup
    <3> QED BY <3>1
  <2> QED BY <2>1 DEF LevelsOf
<1> QED BY <1>1, <1>2, <1>3 DEF Behind, StoredIn, LevelEntry

-----------------------------------------------------------------------------
(* Where steps lead.                                                       *)

\* Steps of a read.
ReadStep(c) == \/ Get(c) \/ GetMemtable(c) \/ GetOld(c) \/ ReadReturns(c)
               \/ Scan(c) \/ ScanOpen(c) \/ ScanNext(c) \/ ScanEnd(c)

\* The steps that are neither of a read nor lead to the tables of a compaction.
OtherStep(t) ==
    \/ t \in Client /\ (\/ TryFreeze(t) \/ CloseMemtable(t) \/ AppendRecord(t) \/ (\E b : Inserts(t, b))
                        \/ ForceFlush(t) \/ FullCompaction(t) \/ Close(t) \/ CloseJoin(t)
                        \/ CloseDrain(t) \/ CloseEnd(t))
    \/ ForceFreeze(t) \/ Swap(t) \/ FlushBuild(t) \/ FlushInstall(t)
    \/ Install(t) \/ RemoveInputs(t) \/ ForceCheck(t) \/ StopThread(t)
    \/ t = Flusher /\ FlushTick
    \/ t = Compactor /\ CompactTick

\* They lead elsewhere.
LEMMA OtherGoes ==
    ASSUME NEW t, OtherStep(t)
    PROVE  \E p, l : Goto(t, p, l) /\ p \notin {"apply", "install"} \cup ReadPlaces
<1> DEFINE G == \E p, l : Goto(t, p, l) /\ p \notin {"apply", "install"} \cup ReadPlaces
<1> SUFFICES G
  OBVIOUS
<1>1. CASE TryFreeze(t) \/ AppendRecord(t) \/ Swap(t)
  <2>1. \/ AfterRecord(t) \/ Goto(t, "ff.check", loc[t]) \/ Goto(t, "freeze", loc[t])
        \/ Goto(t, "swap", [loc[t] EXCEPT !.new = nextId])
    BY <1>1 DEF TryFreeze, AppendRecord, Swap, Goto
  <2> QED BY <2>1 DEF AfterRecord, ReadPlaces
<1>2. CASE CloseMemtable(t)
  BY <1>2 DEF CloseMemtable, ReadPlaces
<1>3. CASE \E b : Inserts(t, b)
  BY <1>3 DEF Inserts, Insert, ReadPlaces
<1>4. CASE ForceFlush(t) \/ ForceCheck(t)
  <2>1. \E p \in {"ff.check", "ff.lock", "idle", "flush"} : \E l : Goto(t, p, l)
    BY <1>4 DEF ForceFlush, ForceCheck
  <2> QED BY <2>1 DEF ReadPlaces
<1>5. CASE FullCompaction(t) \/ Close(t) \/ CloseDrain(t) \/ CloseEnd(t) \/ StopThread(t) \/ ForceFreeze(t)
  <2>1. \/ Goto(t, "merge", [op |-> "compact", task |-> FullTask(st)])
        \/ Goto(t, "close.join_compactor", [op |-> "close"]) \/ Goto(t, "flush", [op |-> "close"])
        \/ Goto(t, "idle", NoOp) \/ Goto(t, "stopped", NoOp)
        \/ Goto(t, "swap", [op |-> "force_flush", new |-> nextId])
    BY <1>5 DEF FullCompaction, Close, CloseDrain, CloseEnd, CloseGives, StopThread, ForceFreeze
  <2> QED BY <2>1 DEF ReadPlaces
<1>6. CASE CloseJoin(t)
  <2>1. \E p \in {"idle", "close.join_flusher", "close.memtable"} : \E l : Goto(t, p, l)
    BY <1>6 DEF CloseJoin, CloseGives
  <2> QED BY <2>1 DEF ReadPlaces
<1>7. CASE FlushBuild(t)
  <2>1. \E l : Goto(t, "panicked", l) \/ Goto(t, "flush.install", l)
    BY <1>7 DEF FlushBuild, Panic
  <2> QED BY <2>1 DEF ReadPlaces
<1>8. CASE FlushInstall(t)
  <2>1. \E l : Goto(t, "panicked", l) \/ Goto(t, "close.drain", l) \/ Goto(t, "idle", l)
    BY <1>8 DEF FlushInstall, Panic
  <2> QED BY <2>1 DEF ReadPlaces
<1>9. CASE Install(t) \/ RemoveInputs(t)
  BY <1>9 DEF Install, RemoveInputs, ReadPlaces
<1>10. CASE (t = Flusher /\ FlushTick) \/ (t = Compactor /\ CompactTick)
  BY <1>10 DEF FlushTick, CompactTick, ReadPlaces
<1> HIDE DEF G
<1>11. \/ TryFreeze(t) \/ AppendRecord(t) \/ Swap(t) \/ CloseMemtable(t) \/ (\E b : Inserts(t, b))
       \/ ForceFlush(t) \/ ForceCheck(t)
       \/ FullCompaction(t) \/ Close(t) \/ CloseDrain(t) \/ CloseEnd(t) \/ StopThread(t) \/ ForceFreeze(t)
       \/ CloseJoin(t) \/ FlushBuild(t) \/ FlushInstall(t) \/ Install(t) \/ RemoveInputs(t)
       \/ (t = Flusher /\ FlushTick) \/ (t = Compactor /\ CompactTick)
  BY DEF OtherStep
<1> QED BY <1>1, <1>2, <1>3, <1>4, <1>5, <1>6, <1>7, <1>8, <1>9, <1>10, <1>11

\* A read goes from one place of a read to another, or back.
LEMMA ReadGoes ==
    ASSUME NEW t, ReadStep(t)
    PROVE  \E p, l : Goto(t, p, l) /\ p \in ReadPlaces \cup {"idle"}
<1>1. CASE Get(t) \/ Scan(t)
  BY <1>1 DEF Get, Scan, ReadPlaces
<1>2. CASE GetMemtable(t) \/ GetOld(t) \/ ReadReturns(t)
  BY <1>2 DEF GetMemtable, GetOld, ReadReturns, ReadPlaces
<1>3. CASE ScanOpen(t) \/ ScanNext(t) \/ ScanEnd(t)
  BY <1>3 DEF ScanOpen, ScanNext, ScanEnd, ReadPlaces
<1> QED BY <1>1, <1>2, <1>3 DEF ReadStep

\* The kinds of steps by where they lead.
LEMMA NextGoes ==
    ASSUME Control, [Next]_vars
    PROVE  \/ UNCHANGED vars
           \/ \E t \in Thread : OtherStep(t) \/ Merge(t) \/ Apply(t)
           \/ \E c \in Client : ReadStep(c) \/ Open(c)
<1>1. Client \subseteq Thread
  BY DEF Thread
<1>2. ASSUME NEW c \in Client, (\E b : Inserts(c, b)) \/ AppendRecord(c)
      PROVE  OtherStep(c)
  BY <1>2 DEF OtherStep
<1>3. ASSUME NEW t \in Thread, QuietStep(t)
      PROVE  OtherStep(t) \/ Apply(t) \/ (t \in Client /\ ReadStep(t))
  BY <1>3 DEF OtherStep, QuietStep, ReadStep
<1>4. ASSUME NEW t \in Thread, EngineStep(t)
      PROVE  OtherStep(t) \/ Merge(t)
  BY <1>4 DEF OtherStep, EngineStep
<1> QED BY <1>1, <1>2, <1>3, <1>4, NextKinds

-----------------------------------------------------------------------------
(* The output of a compaction says what its input says.                    *)

\* Tables that somebody refers to do not change.
LEMMA HeldSame ==
    ASSUME Control, Store, [Next]_vars
    PROVE  \A i \in Held : sst'[i] = sst[i] /\ i \in DOMAIN sst'
<1>1. /\ StoreTyped /\ TablesHeld /\ Held \subseteq DOMAIN sst /\ Held \subseteq 0..(nextId - 1)
      /\ Held \cap MemIds = {}
  BY DEF Store, TablesHeld
<1>2. CASE UNCHANGED sst
  BY <1>1, <1>2
<1>3. ASSUME NEW t \in Thread, FlushBuild(t)
      PROVE  \A i \in Held : sst'[i] = sst[i] /\ i \in DOMAIN sst'
  <2>1. CASE st.imm = <<>> \/ IsEmptyTable(mt[Last(st.imm)].data)
    <3>1. UNCHANGED sst
      BY <1>3, <2>1 DEF FlushBuild
    <3> QED BY <1>2, <3>1
  <2>2. CASE ~(st.imm = <<>> \/ IsEmptyTable(mt[Last(st.imm)].data))
    <3>1. sst' = With(sst, Last(st.imm), mt[Last(st.imm)].data)
      BY <1>3, <2>2 DEF FlushBuild
    <3>2. st.imm \in Seq(Nat) /\ st.imm # <<>>
      BY <1>1, <2>2 DEF StoreTyped, State
    <3>3. Last(st.imm) \in MemIds
      BY <3>2, FrontOf DEF MemIds
    <3>4. Last(st.imm) \notin Held
      BY <1>1, <3>3
    <3> QED BY <1>1, <3>1, <3>4 DEF With
  <2> QED BY <2>1, <2>2
<1>4. ASSUME NEW t \in Thread, Merge(t)
      PROVE  \A i \in Held : sst'[i] = sst[i] /\ i \in DOMAIN sst'
  <2> DEFINE b == MergeResult(t)
             N == Ids(OutIds(b))
  <2>1. /\ sst' = [i \in DOMAIN sst \cup N |-> IF i \in N THEN OutOf(b)[i - nextId + 1] ELSE sst[i]]
        /\ at[t] = "merge"
    BY <1>4, MergeIs
  <2>2. t \in Compacting
    BY <2>1 DEF Compacting
  <2>3. Merged(loc[t].task) \in Table /\ loc[t].task.bottom \in BOOLEAN
    BY <2>2, MergedEntries
  <2>4. b \in Builder
    BY <2>3, BuiltTyped DEF MergeResult
  <2>5. nextId \in Nat
    BY <1>1 DEF StoreTyped
  <2> HIDE DEF b
  <2>6. Len(OutOf(b)) \in Nat /\ N = nextId..(nextId + Len(OutOf(b)) - 1)
    BY <2>4, <2>5, OutIdsOf
  <2>7. N \cap Held = {}
    BY <1>1, <2>5, <2>6
  <2> HIDE DEF N
  <2> QED BY <1>1, <2>1, <2>7
<1>5. ASSUME NEW t \in Thread, OtherStep(t), ~FlushBuild(t)
      PROVE  UNCHANGED sst
  BY <1>5 DEF OtherStep, TryFreeze, CloseMemtable, AppendRecord, Inserts, Insert, ForceFlush, FullCompaction,
      Close, CloseJoin, CloseDrain, CloseEnd, ForceFreeze, Swap, FlushInstall, Install, RemoveInputs,
      ForceCheck, StopThread, FlushTick, CompactTick, engineVars, diskVars
<1>6. ASSUME NEW t \in Thread, Apply(t) \/ (t \in Client /\ ReadStep(t))
      PROVE  UNCHANGED sst
  <2>1. QuietStep(t)
    BY <1>6 DEF QuietStep, ReadStep
  <2> QED BY <2>1, QuietLeaves
<1>7. ASSUME NEW c \in Client, Open(c)
      PROVE  UNCHANGED sst
  BY <1>7 DEF Open, engineVars, diskVars
<1>8. UNCHANGED vars => UNCHANGED sst
  BY DEF vars, engineVars, diskVars
<1>9. Client \subseteq Thread
  BY DEF Thread
<1> QED BY <1>2, <1>3, <1>4, <1>5, <1>6, <1>7, <1>8, <1>9, NextGoes

\* The tables that t wrote say what is to be left of those that it read.
Faithful(t) ==
    \A k \in Key : Lookup(sst, loc[t].ids, k) = KeptEntry(Merged(loc[t].task), loc[t].task.bottom, k)

\* Every finished merge is faithful.
Faithfuls == \A t \in Builders : Faithful(t)

\* While a builder keeps its task and its tables they stay faithful.
LEMMA FaithfulStays ==
    ASSUME Control, Store, [Next]_vars, NEW t \in Builders, Faithful(t),
           loc'[t].task = loc[t].task, loc'[t].ids = loc[t].ids
    PROVE  Faithful(t)'
<1>1. \A i \in Held : sst'[i] = sst[i]
  BY HeldSame
<1>2. t \in Compacting
  BY DEF Builders, Compacting
<1>3. /\ \A i \in Taken(t) : sst'[i] = sst[i]
      /\ \A i \in Outputs(t) : sst'[i] = sst[i]
  BY <1>1, <1>2, HeldHas
<1>4. loc[t].task \in Task
  BY <1>2, CompactedBy DEF Compacting
<1>5. Ids(loc[t].task.us) \subseteq Taken(t) /\ Ids(loc[t].task.ls) \subseteq Taken(t)
  BY <1>4, TaskOf DEF Taken
<1> DEFINE task == loc[t].task
           ids == loc[t].ids
<1>6. [i \in 1..Len(ids) |-> sst'[ids[i]]] = [i \in 1..Len(ids) |-> sst[ids[i]]]
  BY <1>3 DEF Ids, Outputs
<1>7. /\ [i \in 1..Len(task.us) |-> sst'[task.us[i]]] = [i \in 1..Len(task.us) |-> sst[task.us[i]]]
      /\ [i \in 1..Len(task.ls) |-> sst'[task.ls[i]]] = [i \in 1..Len(task.ls) |-> sst[task.ls[i]]]
  BY <1>3, <1>5 DEF Ids
<1> HIDE DEF task, ids
<1>8. task' = task /\ ids' = ids
  BY DEF task, ids
<1>9. Merged(task)' = Merged(task)
  BY <1>7, <1>8 DEF Merged, Contents
<1>10. ASSUME NEW k \in Key PROVE Lookup(sst, ids, k)' = Lookup(sst, ids, k)
  BY <1>6, <1>8 DEF Lookup
<1>11. ASSUME NEW k \in Key PROVE Lookup(sst, ids, k) = KeptEntry(Merged(task), task.bottom, k)
  BY DEF Faithful, task, ids
<1>12. ASSUME NEW k \in Key PROVE (Lookup(sst, ids, k) = KeptEntry(Merged(task), task.bottom, k))'
  BY <1>8, <1>9, <1>10, <1>11 DEF KeptEntry
<1> QED BY <1>12 DEF Faithful, task, ids

\* In a new engine nothing is merged.
LEMMA FaithfulsInit ==
    ASSUME Init
    PROVE  Faithfuls
<1>1. \A t \in Thread : at[t] \in {"idle", "stopped"}
  BY DEF Init, Start
<1> QED BY <1>1 DEF Faithfuls, Builders

\* A compaction begins to install what Merge has built.
LEMMA MergeFaithful ==
    ASSUME Control, Store, NEW t \in Thread, Merge(t), t \in Builders'
    PROVE  Faithful(t)'
<1> DEFINE b == MergeResult(t)
           N == Ids(OutIds(b))
           m == Merged(loc[t].task)
           task == loc[t].task
           la == [op |-> "compact", task |-> loc[t].task, ids |-> OutIds(b)]
<1>1. /\ at[t] = "merge"
      /\ sst' = [i \in DOMAIN sst \cup N |-> IF i \in N THEN OutOf(b)[i - nextId + 1] ELSE sst[i]]
      /\ IF Dead(b) THEN Panic(t, "empty table") ELSE Goto(t, "apply", la)
  BY MergeIs
<1>2. t \in Compacting
  BY <1>1 DEF Compacting
<1>3. m \in Table /\ task.bottom \in BOOLEAN /\ task \in Task
  BY <1>2, MergedEntries
<1>4. b = Built(m, task.bottom)
  BY DEF MergeResult
<1>5. nextId \in Nat /\ StoreTyped /\ TablesHeld /\ Held \subseteq 0..(nextId - 1)
  BY DEF Store, StoreTyped, TablesHeld
<1>6. ~Dead(b)
  <2>1. ASSUME Panic(t, "empty table") PROVE FALSE
    <3>1. at'[t] = "panicked"
      BY <2>1, Moved DEF Panic
    <3> QED BY <3>1 DEF Builders
  <2> HIDE DEF b, la
  <2> QED BY <1>1, <2>1
<1>7. /\ b \in Builder /\ \A k \in Key : Newest(OutOf(b), k) = KeptEntry(m, task.bottom, k)
  <2> HIDE DEF m, b, task
  <2> QED BY <1>3, <1>4, <1>6, OutOfEntries
<1> HIDE DEF b, m
<1>8. loc'[t] = la
  BY <1>1, <1>6, Moved
<1>9. loc'[t].task = task /\ loc'[t].ids = OutIds(b)
  BY <1>8
<1>10. /\ OutOf(b) \in Seq(Table) /\ Len(OutOf(b)) \in Nat /\ OutIds(b) \in Seq(Nat)
       /\ Len(OutIds(b)) = Len(OutOf(b)) /\ N = nextId..(nextId + Len(OutOf(b)) - 1)
       /\ \A i \in 1..Len(OutOf(b)) : OutIds(b)[i] = nextId + i - 1
  BY <1>5, <1>7, OutIdsOf
<1>11. [i \in 1..Len(OutIds(b)) |-> sst'[OutIds(b)[i]]] = OutOf(b)
  <2>1. ASSUME NEW i \in 1..Len(OutOf(b))
        PROVE  sst'[OutIds(b)[i]] = OutOf(b)[i]
    <3>1. OutIds(b)[i] = nextId + i - 1 /\ nextId + i - 1 \in N /\ (nextId + i - 1) - nextId + 1 = i
      BY <1>5, <1>10
    <3> HIDE DEF N
    <3> QED BY <1>1, <3>1
  <2>2. [i \in 1..Len(OutOf(b)) |-> sst'[OutIds(b)[i]]] = [i \in 1..Len(OutOf(b)) |-> OutOf(b)[i]]
    BY <2>1
  <2>3. OutOf(b) = [i \in 1..Len(OutOf(b)) |-> OutOf(b)[i]]
    BY <1>10
  <2> QED BY <1>10, <2>2, <2>3
<1>12. \A i \in Taken(t) : sst'[i] = sst[i]
  <2>1. Taken(t) \subseteq Held
    BY <1>2, HeldHas
  <2>2. Held \subseteq DOMAIN sst
    BY <1>5 DEF TablesHeld
  <2>3. \A i \in Taken(t) : i \in DOMAIN sst /\ i \notin N
    BY <1>5, <1>10, <2>1, <2>2
  <2> HIDE DEF N
  <2> QED BY <1>1, <2>3
<1>13. Ids(task.us) \subseteq Taken(t) /\ Ids(task.ls) \subseteq Taken(t)
  BY <1>3, TaskOf DEF Taken
<1>14. /\ [i \in 1..Len(task.us) |-> sst'[task.us[i]]] = [i \in 1..Len(task.us) |-> sst[task.us[i]]]
       /\ [i \in 1..Len(task.ls) |-> sst'[task.ls[i]]] = [i \in 1..Len(task.ls) |-> sst[task.ls[i]]]
  BY <1>12, <1>13 DEF Ids
<1> DEFINE taskN == loc'[t].task
<1>15. [k \in Key |-> Newest([i \in 1..Len(taskN.us) |-> sst'[taskN.us[i]]]
                               \o [i \in 1..Len(taskN.ls) |-> sst'[taskN.ls[i]]], k)] = m
  <2>1. m = [k \in Key |-> Newest([i \in 1..Len(task.us) |-> sst[task.us[i]]]
                               \o [i \in 1..Len(task.ls) |-> sst[task.ls[i]]], k)]
    BY DEF m, Merged, Contents
  <2>2. taskN = task
    BY <1>9
  <2> HIDE DEF task, taskN
  <2> QED BY <1>14, <2>1, <2>2
<1>16. (Merged(loc[t].task))' = m
  BY <1>15 DEF Merged, Contents
<1>17. ASSUME NEW k \in Key
       PROVE  (Lookup(sst, loc[t].ids, k) = KeptEntry(Merged(loc[t].task), loc[t].task.bottom, k))'
  <2>1. Lookup(sst', loc'[t].ids, k) = KeptEntry(m, task.bottom, k)
    BY <1>7, <1>9, <1>11 DEF Lookup
  <2> HIDE DEF task, taskN, la
  <2> QED BY <1>9, <1>16, <2>1 DEF KeptEntry
<1> QED BY <1>17 DEF Faithful

\* Every step keeps the tables that compactions wrote faithful.
LEMMA FaithfulsStep ==
    ASSUME Control, Store, Faithfuls, [Next]_vars
    PROVE  Faithfuls'
<1>1. CASE UNCHANGED vars
  <2>1. UNCHANGED <<sst, at, loc>>
    BY <1>1 DEF vars, engineVars, diskVars, threadVars
  <2>2. Builders' = Builders
    BY <2>1 DEF Builders
  <2>3. ASSUME NEW t \in Builders PROVE Faithful(t)'
    BY <2>1, <2>3, FaithfulStays DEF Faithfuls
  <2> QED BY <2>2, <2>3 DEF Faithfuls
<1>2. ASSUME NEW t \in Thread, NEW p, NEW l, Goto(t, p, l), p \notin {"apply", "install"}
      PROVE  Faithfuls'
  <2>1. ASSUME NEW u \in Builders' PROVE Faithful(u)'
    <3>1. u # t /\ u \in Builders /\ loc'[u] = loc[u]
      <4>1. u \in Thread
        BY DEF Builders
      <4> QED BY <1>2, <4>1, SetsAfter
    <3>2. loc'[u].task = loc[u].task /\ loc'[u].ids = loc[u].ids
      BY <3>1
    <3> QED BY <3>1, <3>2, FaithfulStays DEF Faithfuls
  <2> QED BY <2>1 DEF Faithfuls
<1>3. ASSUME NEW t \in Thread, Apply(t)
      PROVE  Faithfuls'
  <2>1. CASE ~InputsInPlace(st, loc[t].task)
    <3>1. Goto(t, "panicked", [op |-> "none", cause |-> "inputs moved"])
      BY <1>3, <2>1 DEF Apply, Panic
    <3>2. "panicked" \notin {"apply", "install"}
      OBVIOUS
    <3> QED BY <1>2, <3>1, <3>2
  <2>2. CASE InputsInPlace(st, loc[t].task)
    <3>1. Goto(t, "install", Installing(loc[t])) /\ at[t] = "apply"
      BY <1>3, <2>2 DEF Apply
    <3>2. ASSUME NEW u \in Builders' PROVE Faithful(u)'
      <4>1. u \in Thread /\ t \in Builders
        BY <3>1 DEF Builders
      <4>2. u \in Builders
        BY <3>1, <4>1, SetsAfter
      <4>3. loc'[u].task = loc[u].task /\ loc'[u].ids = loc[u].ids
        <5>1. CASE u # t
          BY <3>1, <4>1, <5>1, SetsAfter
        <5>2. CASE u = t
          <6>1. loc'[t] = Installing(loc[t])
            BY <3>1, Moved
          <6> QED BY <5>2, <6>1 DEF Installing
        <5> QED BY <5>1, <5>2
      <4> QED BY <4>2, <4>3, FaithfulStays DEF Faithfuls
    <3> QED BY <3>2 DEF Faithfuls
  <2> QED BY <2>1, <2>2
<1>4. ASSUME NEW t \in Thread, Merge(t)
      PROVE  Faithfuls'
  <2>1. at[t] = "merge" /\ \E p, l : Goto(t, p, l)
    BY <1>4 DEF Merge, Panic
  <2>2. ASSUME NEW u \in Builders' PROVE Faithful(u)'
    <3>1. CASE u = t
      BY <1>4, <3>1, MergeFaithful
    <3>2. CASE u # t
      <4>1. u \in Thread
        BY DEF Builders
      <4>2. u \in Builders /\ loc'[u] = loc[u]
        BY <2>1, <3>2, <4>1, SetsAfter
      <4>3. loc'[u].task = loc[u].task /\ loc'[u].ids = loc[u].ids
        BY <4>2
      <4> QED BY <4>2, <4>3, FaithfulStays DEF Faithfuls
    <3> QED BY <3>1, <3>2
  <2> QED BY <2>2 DEF Faithfuls
<1>5. ASSUME NEW c \in Client, Open(c)
      PROVE  Faithfuls'
  <2>1. CASE Opened.ok
    <3>1. Builders' = {}
      BY <1>5, <2>1, OpenIs
    <3> QED BY <3>1 DEF Faithfuls
  <2>2. CASE ~Opened.ok
    <3>1. UNCHANGED <<at, loc>> /\ Stopped
      BY <1>5, <2>2 DEF Open, threadVars
    <3>2. Builders = {} /\ Builders' = Builders
      BY <3>1, StoppedIs DEF Builders
    <3> QED BY <3>2 DEF Faithfuls
  <2> QED BY <2>1, <2>2
<1>6. ASSUME NEW t \in Thread, OtherStep(t)
      PROVE  Faithfuls'
  BY <1>2, <1>6, OtherGoes
<1>7. ASSUME NEW c \in Client, ReadStep(c)
      PROVE  Faithfuls'
  <2>1. PICK p, l : Goto(c, p, l) /\ p \in ReadPlaces \cup {"idle"}
    BY <1>7, ReadGoes
  <2>2. p \notin {"apply", "install"} /\ c \in Thread
    BY <2>1 DEF ReadPlaces, Thread
  <2> QED BY <1>2, <2>1, <2>2
<1> QED BY <1>1, <1>3, <1>4, <1>5, <1>6, <1>7, NextGoes

-----------------------------------------------------------------------------
(* The content of the state.                                               *)

\* The frozen memtables of two lists, one after the other.
LEMMA ImmJoined ==
    ASSUME NEW m, NEW a, NEW b, FrozenAtHand(m, a), FrozenAtHand(m, b), NEW k \in Key
    PROVE  Newest(ImmOf(m, a \o b), k) = Or(Newest(ImmOf(m, a), k), Newest(ImmOf(m, b), k))
<1> DEFINE g == [i \in Ids(a) \cup Ids(b) |-> m[i].data]
<1>1. a \in Seq(Nat) /\ b \in Seq(Nat) /\ Ids(a \o b) = Ids(a) \cup Ids(b)
  BY IdsOf DEF FrozenAtHand
<1>2. \A i \in Ids(a) \cup Ids(b) : g[i] = m[i].data /\ g[i] \in Table /\ i \in DOMAIN g
  BY DEF FrozenAtHand
<1> HIDE DEF g
<1>3. AtHand(g, a) /\ AtHand(g, b)
  BY <1>1, <1>2 DEF AtHand
<1>4. Lookup(g, a \o b, k) = Or(Lookup(g, a, k), Lookup(g, b, k))
  BY <1>3, LookupJoined
<1>5. ImmOf(m, a) = [i \in 1..Len(a) |-> g[a[i]]]
  BY <1>2 DEF ImmOf, Ids
<1>6. ImmOf(m, b) = [i \in 1..Len(b) |-> g[b[i]]]
  BY <1>2 DEF ImmOf, Ids
<1> DEFINE c == a \o b
<1>7. \A i \in Ids(c) : g[i] = m[i].data
  BY <1>1, <1>2
<1> HIDE DEF c
<1>8. ImmOf(m, c) = [i \in 1..Len(c) |-> g[c[i]]]
  BY <1>7 DEF ImmOf, Ids
<1> QED BY <1>4, <1>5, <1>6, <1>8 DEF Lookup, c

\* One frozen memtable, and none.
LEMMA ImmSmall ==
    ASSUME NEW m, NEW k \in Key
    PROVE  /\ Newest(ImmOf(m, <<>>), k) = 0
           /\ \A i : m[i].data \in Table => Newest(ImmOf(m, <<i>>), k) = m[i].data[k]
<1>1. ImmOf(m, <<>>) = <<>>
  BY DEF ImmOf
<1>2. \A i : ImmOf(m, <<i>>) = <<m[i].data>>
  BY DEF ImmOf
<1> QED BY <1>1, <1>2, NewestSmall

\* What a merge may make of x: it is the same, or a deletion is gone.
Dropped(x, y) == y = x \/ (x < 0 /\ y = 0)

\* Nobody sees that a deletion was dropped, whatever is read first.
LEMMA DroppedSeen ==
    \A x, y, p \in Int : Dropped(x, y) => Visible(Or(p, x)) = Visible(Or(p, y)) /\ Dropped(Or(p, x), Or(p, y))
BY DEF Dropped, Visible, Or

\* Two levels are merged into the second of them.
LEMMA LevelsMerged ==
    ASSUME NEW T \in Seq(Table), NEW U \in Seq(Table), NEW k \in Key, Len(T) = Len(U),
           NEW u \in 1..Len(T), u + 1 <= Len(T), NEW bottom \in BOOLEAN, bottom => u + 1 = Len(T),
           \A i \in 1..Len(T) : i # u /\ i # u + 1 => U[i][k] = T[i][k],
           U[u][k] = 0,
           NEW x, x = Or(T[u][k], T[u + 1][k]),
           U[u + 1][k] = IF bottom /\ x < 0 THEN 0 ELSE x
    PROVE  Dropped(Newest(T, k), Newest(U, k))
<1>1. Len(T) \in Nat /\ u \in Nat /\ u + 1 \in 1..Len(T) /\ u \in 1..Len(U) /\ u + 1 \in 1..Len(U)
      /\ 1..Len(U) = 1..Len(T)
  OBVIOUS
<1>2. \A i \in 1..Len(T) : T[i][k] \in Int
  <2>1. \A i \in 1..Len(T) : T[i] \in Table
    OBVIOUS
  <2> QED BY <2>1 DEF Table
<1>3. CASE Newest(T, k) = 0
  <2>1. \A i \in 1..Len(T) : T[i][k] = 0
    BY <1>3, NewestOf
  <2>2. x = 0
    BY <1>1, <2>1 DEF Or
  <2>3. U[u + 1][k] = 0
    BY <2>2
  <2>4. \A i \in 1..Len(U) : U[i][k] = 0
    BY <1>1, <2>1, <2>3
  <2>5. Newest(U, k) = 0
    BY <2>4, NewestOf
  <2> QED BY <1>3, <2>5 DEF Dropped
<1>4. CASE Newest(T, k) # 0
  <2>1. PICK i \in 1..Len(T) : /\ Newest(T, k) = T[i][k] /\ T[i][k] # 0
                               /\ \A j \in 1..Len(T) : j < i => T[j][k] = 0
    BY <1>4, NewestOf
  <2>2. CASE i # u /\ i # u + 1
    <3>1. U[i][k] = T[i][k] /\ i \in 1..Len(U) /\ i \in Nat
      BY <1>1, <2>2
    <3>2. \A j \in 1..Len(U) : j < i => U[j][k] = 0
      <4>1. CASE i < u
        BY <1>1, <2>1, <3>1, <4>1
      <4>2. CASE i > u + 1
        <5>1. T[u][k] = 0 /\ T[u + 1][k] = 0
          BY <1>1, <2>1, <3>1, <4>2
        <5>2. x = 0
          BY <5>1 DEF Or
        <5> QED BY <1>1, <2>1, <3>1, <5>2
      <4> QED BY <1>1, <2>2, <3>1, <4>1, <4>2
    <3>3. Newest(U, k) = U[i][k]
      BY <2>1, <3>1, <3>2, NewestOf
    <3> QED BY <2>1, <3>1, <3>3 DEF Dropped
  <2>3. CASE i = u \/ i = u + 1
    <3>1. x = T[i][k] /\ x # 0 /\ x \in Int
      <4>1. CASE i = u
        BY <1>2, <2>1, <4>1 DEF Or
      <4>2. CASE i = u + 1
        <5>1. T[u][k] = 0
          BY <1>1, <2>1, <4>2
        <5> QED BY <1>2, <2>1, <4>2, <5>1 DEF Or
      <4> QED BY <2>3, <4>1, <4>2
    <3>2. \A j \in 1..Len(U) : j < u + 1 => U[j][k] = 0
      <4>1. \A j \in 1..Len(U) : j < u + 1 => j = u \/ (j # u /\ j # u + 1 /\ j < i)
        BY <1>1, <2>3
      <4> QED BY <1>1, <2>1, <4>1
    <3>3. CASE ~(bottom /\ x < 0)
      <4>1. U[u + 1][k] = x
        BY <3>3
      <4>2. Newest(U, k) = U[u + 1][k]
        BY <1>1, <3>1, <3>2, <4>1, NewestOf
      <4> QED BY <2>1, <3>1, <4>1, <4>2 DEF Dropped
    <3>4. CASE bottom /\ x < 0
      <4>1. U[u + 1][k] = 0 /\ u + 1 = Len(T)
        BY <3>4
      <4>2. \A j \in 1..Len(U) : U[j][k] = 0
        <5>1. \A j \in 1..Len(U) : j < u + 1 \/ j = u + 1
          BY <1>1, <4>1
        <5> QED BY <3>2, <4>1, <5>1
      <4>3. Newest(U, k) = 0
        BY <4>2, NewestOf
      <4> QED BY <2>1, <3>1, <3>4, <4>3 DEF Dropped
    <3> QED BY <3>3, <3>4
  <2> QED BY <2>2, <2>3
<1> QED BY <1>3, <1>4

\* L0 tables, which read as q, are merged into the first level.
LEMMA FirstMerged ==
    ASSUME NEW T \in Seq(Table), NEW U \in Seq(Table), NEW k \in Key, Len(T) = Len(U),
           1 <= Len(T), NEW bottom \in BOOLEAN, bottom => Len(T) = 1,
           \A i \in 1..Len(T) : i # 1 => U[i][k] = T[i][k],
           NEW q \in Int, NEW x, x = Or(q, T[1][k]),
           U[1][k] = IF bottom /\ x < 0 THEN 0 ELSE x
    PROVE  Dropped(Or(q, Newest(T, k)), Newest(U, k))
<1> DEFINE a == [j \in Key |-> q]
           V == <<a>> \o T
           W == <<Nothing>> \o U
<1>1. a \in Table /\ a[k] = q /\ Nothing \in Table /\ Nothing[k] = 0 /\ Len(T) \in Nat
  BY DEF Table, Nothing
<1> HIDE DEF a
<1>2. /\ V \in Seq(Table) /\ Len(V) = Len(T) + 1 /\ V[1] = a /\ \A i \in 2..Len(V) : V[i] = T[i - 1]
      /\ W \in Seq(Table) /\ Len(W) = Len(T) + 1 /\ W[1] = Nothing /\ \A i \in 2..Len(W) : W[i] = U[i - 1]
  BY <1>1
<1>3. /\ Newest(V, k) = Or(q, Newest(T, k)) /\ Newest(W, k) = Newest(U, k)
  <2>1. <<a>> \in Seq(Table) /\ <<Nothing>> \in Seq(Table)
    BY <1>1
  <2>2. Newest(V, k) = Or(Newest(<<a>>, k), Newest(T, k)) /\ Newest(W, k) = Or(Newest(<<Nothing>>, k), Newest(U, k))
    BY <2>1, NewestJoined
  <2>3. Newest(<<a>>, k) = q /\ Newest(<<Nothing>>, k) = 0
    BY <1>1, NewestSmall
  <2> HIDE DEF V, W
  <2> QED BY <2>2, <2>3 DEF Or
<1> HIDE DEF V, W
<1>4. /\ 1 \in 1..Len(V) /\ 1 + 1 <= Len(V) /\ (bottom => 1 + 1 = Len(V)) /\ Len(V) = Len(W)
      /\ V[1][k] = q /\ W[1][k] = 0 /\ V[1 + 1][k] = T[1][k] /\ W[1 + 1][k] = U[1][k]
  <2>1. 2 \in 2..Len(V) /\ 2 \in 2..Len(W) /\ 2 - 1 = 1 /\ 1 + 1 = 2
    BY <1>1, <1>2
  <2>2. V[2] = T[1] /\ W[2] = U[1]
    BY <1>2, <2>1
  <2> QED BY <1>1, <1>2, <2>1, <2>2
<1>5. \A i \in 1..Len(V) : i # 1 /\ i # 1 + 1 => W[i][k] = V[i][k]
  <2>1. ASSUME NEW i \in 1..Len(V), i # 1, i # 1 + 1
        PROVE  W[i][k] = V[i][k]
    <3>1. i \in 2..Len(V) /\ i \in 2..Len(W) /\ i - 1 \in 1..Len(T) /\ i - 1 # 1
      BY <1>1, <1>2, <2>1
    <3> QED BY <1>2, <3>1
  <2> QED BY <2>1
<1>6. x = Or(V[1][k], V[1 + 1][k]) /\ W[1 + 1][k] = IF bottom /\ x < 0 THEN 0 ELSE x
  BY <1>4
<1>7. Dropped(Newest(V, k), Newest(W, k))
  BY <1>2, <1>4, <1>5, <1>6, LevelsMerged
<1> QED BY <1>3, <1>7

\* Without its tables, the state reads from the memtables and what is stored.
LEMMA ContentSplit ==
    ASSUME Store, NEW k \in Key
    PROVE  /\ mt[st.mem].data[k] \in Int /\ Newest(ImmOf(mt, st.imm), k) \in Int
           /\ StoredIn(sst, st, k) \in Int
           /\ Content(st, k) = Or(mt[st.mem].data[k], Or(Newest(ImmOf(mt, st.imm), k), StoredIn(sst, st, k)))
<1>1. /\ Backed(mt, sst, st) /\ mt[st.mem].data \in Table
      /\ Content(st, k) = ContentOf(mt, sst, st, k)
  BY ContentIs
<1>2. mt[st.mem].data[k] \in Int
  BY <1>1 DEF Table
<1> QED BY <1>1, <1>2, BehindType DEF ContentOf, Behind

\* Both ways to read the content of a state in order.
Reads ==
    \A k \in Key : /\ Content(st, k) = ContentOf(mt, sst, st, k)
                   /\ Content(st, k) = Or(mt[st.mem].data[k],
                                          Or(Newest(ImmOf(mt, st.imm), k), StoredIn(sst, st, k)))

\* ContentSplit for every key.
LEMMA StoreReads == Store => Reads
BY ContentIs, ContentSplit DEF Reads

\* The same of the next state.
LEMMA ContentSplitNext ==
    ASSUME Store', NEW k \in Key
    PROVE  /\ Content(st, k)' = ContentOf(mt', sst', st', k)
           /\ Content(st, k)' = Or(mt'[st'.mem].data[k],
                                   Or(Newest(ImmOf(mt', st'.imm), k), StoredIn(sst', st', k)))
<1>1. (Store => Reads)'
  BY StoreReads, PTL
<1> QED BY <1>1 DEF Reads

\* Where neither the state nor its tables change the content does not.
LEMMA ContentSame ==
    ASSUME Store, Store', st' = st, \A i \in MemIds : mt'[i].data = mt[i].data,
           \A i \in TableIds(st) : sst'[i] = sst[i]
    PROVE  \A k \in Key : Content(st, k)' = Content(st, k)
<1> SUFFICES ASSUME NEW k \in Key PROVE Content(st, k)' = Content(st, k)
  OBVIOUS
<1>1. st \in State /\ Content(st, k) = ContentOf(mt, sst, st, k)
  BY ContentIs
<1>2. Content(st, k)' = ContentOf(mt', sst', st', k)
  BY ContentSplitNext
<1>3. Ids(st.imm) \subseteq MemIds /\ st.mem \in MemIds
  BY DEF MemIds
<1>4. Behind(mt', sst', st, k) = Behind(mt, sst, st, k)
  <2> DEFINE n == mt'
             g == sst'
  <2>1. (\A i \in Ids(st.imm) : n[i].data = mt[i].data) /\ (\A i \in TableIds(st) : g[i] = sst[i])
    BY <1>3
  <2> HIDE DEF n, g
  <2>2. Behind(n, g, st, k) = Behind(mt, sst, st, k)
    BY ONLY <1>1, <2>1, BehindSame
  <2> QED BY <2>2 DEF n, g
<1>5. mt'[st.mem].data = mt[st.mem].data
  BY <1>3
<1>6. ContentOf(mt', sst', st', k) = Or(mt'[st.mem].data[k], Behind(mt', sst', st, k))
  BY DEF ContentOf
<1> QED BY <1>1, <1>2, <1>4, <1>5, <1>6 DEF ContentOf

\* The current memtable is frozen and an empty one takes its place.
LEMMA FreezeReads ==
    ASSUME Store, Store', NEW i \in Nat, i > st.mem, st' = Frozen(st, i),
           \A j \in MemIds : mt'[j].data = mt[j].data, mt'[i] = EmptyMemtable, sst' = sst
    PROVE  \A k \in Key : Content(st, k)' = Content(st, k)
<1> SUFFICES ASSUME NEW k \in Key PROVE Content(st, k)' = Content(st, k)
  OBVIOUS
<1>1. /\ st'.mem = i /\ st'.l0 = st.l0 /\ st'.levels = st.levels /\ st'.imm = <<st.mem>> \o st.imm
      /\ st.mem \in Nat /\ st' \in State
  BY FrozenIs
<1>2. /\ Newest(ImmOf(mt, st.imm), k) \in Int /\ StoredIn(sst, st, k) \in Int
      /\ Content(st, k) = Or(mt[st.mem].data[k], Or(Newest(ImmOf(mt, st.imm), k), StoredIn(sst, st, k)))
  BY ContentSplit
<1>3. Content(st, k)' = Or(mt'[i].data[k], Or(Newest(ImmOf(mt', st'.imm), k), StoredIn(sst', st', k)))
  BY <1>1, ContentSplitNext
<1>4. StoredIn(sst', st', k) = StoredIn(sst, st, k)
  BY <1>1 DEF StoredIn
<1>5. mt'[i].data[k] = 0
  BY DEF EmptyMemtable, Nothing
<1>6. mt[st.mem].data \in Table /\ (\A j \in Ids(st.imm) : mt[j].data \in Table) /\ st \in State
  BY ContentIs
<1>7. FrozenAtHand(mt, st.imm) /\ FrozenAtHand(mt, <<st.mem>>)
  <2>1. st.imm \in Seq(Nat) /\ <<st.mem>> \in Seq(Nat) /\ Ids(<<st.mem>>) = {st.mem}
    BY <1>1, <1>6, IdsOf DEF State
  <2> QED BY <1>6, <2>1 DEF FrozenAtHand
<1>8. Newest(ImmOf(mt, <<st.mem>> \o st.imm), k) = Or(mt[st.mem].data[k], Newest(ImmOf(mt, st.imm), k))
  <2>1. Newest(ImmOf(mt, <<st.mem>>), k) = mt[st.mem].data[k]
    BY <1>6, ImmSmall
  <2> QED BY <1>7, <2>1, ImmJoined
<1>9. ImmOf(mt', st'.imm) = ImmOf(mt, <<st.mem>> \o st.imm)
  <2>1. Ids(st'.imm) = MemIds
    BY FrozenIs
  <2>2. \A j \in Ids(st'.imm) : mt'[j].data = mt[j].data
    BY <2>1
  <2>3. ImmOf(mt', st'.imm) = ImmOf(mt, st'.imm)
    BY <2>2 DEF ImmOf, Ids
  <2> QED BY <1>1, <2>3
<1> QED BY <1>2, <1>3, <1>4, <1>5, <1>8, <1>9 DEF Or

\* What is flushed goes in front of what is stored.
LEMMA FlushStored ==
    ASSUME Store, Store', st.imm # <<>>, st' = Flushed(st), mt' = mt, sst' = sst,
           sst[Last(st.imm)] = mt[Last(st.imm)].data, NEW k \in Key
    PROVE  /\ StoredIn(sst, st', k) = Or(mt[Last(st.imm)].data[k], StoredIn(sst, st, k))
           /\ mt[Last(st.imm)].data[k] \in Int
<1> DEFINE i == Last(st.imm)
<1>1. /\ st'.l0 = <<i>> \o st.l0 /\ st'.levels = st.levels /\ i \in Nat
      /\ Ids(st.imm) = Ids(st'.imm) \cup {i} /\ st' \in State
  BY FlushedIs
<1>4. (\A j \in Ids(st.imm) : mt[j].data \in Table) /\ st \in State /\ Backed(mt, sst, st)
  BY ContentIs
<1>5. sst[i] = mt[i].data /\ mt[i].data \in Table
  BY <1>1, <1>4
<1>6. i \in DOMAIN sst
  <2>1. TableIds(st)' = TableIds(st')
    OBVIOUS
  <2>2. i \in TableIds(st')
    BY <1>1, <1>4, FlushedIs
  <2>3. Held' \subseteq DOMAIN sst'
    BY DEF Store, TablesHeld
  <2>4. TableIds(st)' \subseteq Held'
    BY HeldHasNext
  <2> QED BY <2>1, <2>2, <2>3, <2>4
<1> HIDE DEF i
<1>8. StoredIn(sst, st', k) = Or(mt[i].data[k], StoredIn(sst, st, k))
  <2>1. AtHand(sst, <<i>>) /\ AtHand(sst, st.l0)
    <3>1. <<i>> \in Seq(Nat) /\ Ids(<<i>>) = {i}
      BY <1>1, IdsOf
    <3> QED BY <1>4, <1>5, <1>6, <3>1 DEF AtHand, Backed
  <2>2. Lookup(sst, <<i>> \o st.l0, k) = Or(Lookup(sst, <<i>>, k), Lookup(sst, st.l0, k))
    BY <2>1, LookupJoined
  <2>3. Lookup(sst, <<i>>, k) = mt[i].data[k]
    <3>1. sst[i] \in Table
      BY <1>5
    <3>2. Lookup(sst, <<i>>, k) = sst[i][k]
      BY <3>1, LookupSmall
    <3> QED BY <1>5, <3>2
  <2> QED BY <1>1, <2>2, <2>3 DEF StoredIn, Or
<1>9. mt[i].data[k] \in Int
  BY <1>5 DEF Table
<1> QED BY <1>8, <1>9 DEF i

\* The oldest frozen memtable becomes the newest table of L0.
LEMMA FlushReads ==
    ASSUME Store, Store', st.imm # <<>>, st' = Flushed(st), mt' = mt, sst' = sst,
           sst[Last(st.imm)] = mt[Last(st.imm)].data
    PROVE  \A k \in Key : Content(st, k)' = Content(st, k)
<1> SUFFICES ASSUME NEW k \in Key PROVE Content(st, k)' = Content(st, k)
  OBVIOUS
<1> DEFINE i == Last(st.imm)
<1>1. /\ st'.mem = st.mem /\ st'.l0 = <<i>> \o st.l0 /\ st'.levels = st.levels
      /\ st'.imm = Front(st.imm) /\ i \in Nat
      /\ Ids(st.imm) = Ids(st'.imm) \cup {i}
      /\ st.imm = st'.imm \o <<i>> /\ st' \in State
  BY FlushedIs
<1>2. /\ Newest(ImmOf(mt, st.imm), k) \in Int /\ StoredIn(sst, st, k) \in Int
      /\ Content(st, k) = Or(mt[st.mem].data[k], Or(Newest(ImmOf(mt, st.imm), k), StoredIn(sst, st, k)))
  BY ContentSplit
<1>3. Content(st, k)' = Or(mt[st.mem].data[k], Or(Newest(ImmOf(mt, st'.imm), k), StoredIn(sst, st', k)))
  BY <1>1, ContentSplitNext
<1>4. (\A j \in Ids(st.imm) : mt[j].data \in Table) /\ st \in State /\ Backed(mt, sst, st)
  BY ContentIs
<1>5. sst[i] = mt[i].data /\ mt[i].data \in Table
  BY <1>1, <1>4
<1> HIDE DEF i
<1>7. Newest(ImmOf(mt, st.imm), k) = Or(Newest(ImmOf(mt, st'.imm), k), mt[i].data[k])
  <2>1. FrozenAtHand(mt, st'.imm) /\ FrozenAtHand(mt, <<i>>)
    <3>1. st'.imm \in Seq(Nat) /\ <<i>> \in Seq(Nat) /\ Ids(<<i>>) = {i}
      BY <1>1, IdsOf DEF State
    <3> QED BY <1>1, <1>4, <1>5, <3>1 DEF FrozenAtHand
  <2>2. Newest(ImmOf(mt, <<i>>), k) = mt[i].data[k]
    BY <1>5, ImmSmall
  <2>3. Newest(ImmOf(mt, st'.imm \o <<i>>), k) = Or(Newest(ImmOf(mt, st'.imm), k), Newest(ImmOf(mt, <<i>>), k))
    BY <2>1, ImmJoined
  <2> QED BY <1>1, <2>2, <2>3
<1>8. StoredIn(sst, st', k) = Or(mt[i].data[k], StoredIn(sst, st, k))
  BY FlushStored DEF i
<1>9. mt[i].data[k] \in Int
  BY <1>5 DEF Table
<1> QED BY <1>2, <1>3, <1>7, <1>8, <1>9 DEF Or

\* A state in order is backed by the tables at hand.
LEMMA StoreBacked == Store => Backed(mt, sst, st)
BY ContentIs

\* The tables of a task give way to what was merged of them.
LEMMA InstallStored ==
    ASSUME Control, Store, Store', Faithfuls, NEW t \in Thread, Install(t), NEW k \in Key
    PROVE  /\ Dropped(StoredIn(sst, st, k), StoredIn(sst, st', k))
           /\ StoredIn(sst, st, k) \in Int /\ StoredIn(sst, st', k) \in Int
<1> DEFINE task == loc[t].task
           ids  == loc[t].ids
           s == st'
           T == LevelsOf(sst, st.levels)
           U == LevelsOf(sst, s.levels)
           x == Or(Lookup(sst, task.us, k), Lookup(sst, task.ls, k))
<1>1. /\ at[t] = "install" /\ t \in Compacting /\ t \in Builders
      /\ task \in Task /\ ids \in Seq(Nat) /\ st \in State /\ s \in State
      /\ task.lower = task.upper + 1
      /\ s.mem = st.mem /\ s.imm = st.imm
      /\ DOMAIN s.levels = DOMAIN st.levels /\ task.lower \in DOMAIN st.levels
      /\ s.levels[task.lower] = ids /\ st.levels[task.lower] = task.ls
      /\ task.upper # 0 => /\ s.levels[task.upper] = <<>> /\ task.upper \in DOMAIN st.levels
                           /\ st.levels[task.upper] = task.us /\ s.l0 = st.l0
      /\ task.upper = 0 => st.l0 = s.l0 \o task.us
      /\ \A i \in DOMAIN st.levels : i # task.lower /\ i # task.upper => s.levels[i] = st.levels[i]
  BY InstallIs
<1>2. mt' = mt /\ sst' = sst
  BY DEF Install
<1>3. task.upper \in Nat /\ task.bottom \in BOOLEAN /\ (task.bottom => task.lower = Len(st.levels))
  <2>1. TasksFit
    BY DEF Store
  <2>2. task.upper \in Nat /\ task.bottom \in BOOLEAN
    BY <1>1, Week2Assumption DEF Task
  <2> QED BY <1>1, <2>1, <2>2 DEF TasksFit
<1>4. AtHand(sst, task.us) /\ AtHand(sst, task.ls)
  <2>1. StoreTyped /\ TablesHeld
    BY DEF Store
  <2> QED BY <1>1, <2>1, TaskAtHand
<1>5. Lookup(sst, ids, k) = IF task.bottom /\ x < 0 THEN 0 ELSE x
  <2>1. Lookup(sst, ids, k) = KeptEntry(Merged(task), task.bottom, k)
    BY <1>1 DEF Faithfuls, Faithful
  <2>2. Merged(task)[k] = x
    <3>1. Merged(task) = MergedOf(sst, task)
      BY <1>4, MergedIs
    <3> QED BY <3>1 DEF MergedOf
  <2> HIDE DEF x, task, ids
  <2> QED BY <2>1, <2>2 DEF KeptEntry
<1>6. StoredIn(sst, st, k) \in Int
  BY ContentSplit
<1>8. Backed(mt, sst, st)
  BY ContentIs
<1>9. /\ AtHand(sst, s.l0) /\ LevelsAtHand(sst, s.levels)
  <2>1. Backed(mt', sst', st')
    <3>1. (Store => Backed(mt, sst, st))'
      BY StoreBacked, PTL
    <3> QED BY <3>1
  <2> QED BY <1>2, <2>1 DEF Backed
<1> HIDE DEF s
<1>10. /\ T \in Seq(Table) /\ Len(T) = Len(st.levels) /\ Len(st.levels) \in Nat
       /\ \A i \in 1..Len(st.levels) : T[i][k] = Lookup(sst, st.levels[i], k)
  BY <1>8, LevelsOfType DEF Backed
<1>11. /\ U \in Seq(Table) /\ Len(U) = Len(s.levels) /\ Len(s.levels) \in Nat
       /\ \A i \in 1..Len(s.levels) : U[i][k] = Lookup(sst, s.levels[i], k)
  BY <1>9, LevelsOfType
<1>12. DOMAIN st.levels = 1..Len(st.levels) /\ Len(s.levels) = Len(st.levels)
  <2>1. st.levels \in Seq(Seq(Nat)) /\ s.levels \in Seq(Seq(Nat))
    BY <1>1, TableIdsOf
  <2>2. DOMAIN st.levels = 1..Len(st.levels) /\ DOMAIN s.levels = 1..Len(s.levels)
    BY <2>1
  <2> QED BY <1>1, <1>10, <1>11, <2>2
<1> DEFINE lo == task.lower
           up == task.upper
<1>13. /\ LevelEntry(sst, st.levels, k) = Newest(T, k) /\ LevelEntry(sst, s.levels, k) = Newest(U, k)
  BY DEF LevelEntry
<1>14. /\ Lookup(sst, task.us, k) \in Int /\ Lookup(sst, task.ls, k) \in Int
       /\ Newest(T, k) \in Int /\ Newest(U, k) \in Int /\ Lookup(sst, s.l0, k) \in Int
  BY <1>4, <1>9, <1>10, <1>11, LookupType, NewestOf
<1>15. U[lo][k] = (IF task.bottom /\ x < 0 THEN 0 ELSE x) /\ T[lo][k] = Lookup(sst, task.ls, k)
       /\ lo \in 1..Len(T)
  BY <1>1, <1>5, <1>10, <1>11, <1>12
<1>16. \A i \in 1..Len(T) : i # lo /\ i # up => U[i][k] = T[i][k]
  <2> SUFFICES ASSUME NEW i \in 1..Len(T), i # lo, i # up PROVE U[i][k] = T[i][k]
    OBVIOUS
  <2>1. i \in DOMAIN st.levels /\ i \in 1..Len(st.levels) /\ i \in 1..Len(s.levels)
    BY <1>10, <1>12
  <2>2. s.levels[i] = st.levels[i]
    BY <1>1, <2>1
  <2>3. U[i][k] = Lookup(sst, s.levels[i], k) /\ T[i][k] = Lookup(sst, st.levels[i], k)
    BY <1>10, <1>11, <2>1
  <2> QED BY <2>2, <2>3
<1>17. Dropped(StoredIn(sst, st, k), StoredIn(sst, s, k)) /\ StoredIn(sst, s, k) \in Int
  <2>1. StoredIn(sst, st, k) = Or(Lookup(sst, st.l0, k), Newest(T, k))
        /\ StoredIn(sst, s, k) = Or(Lookup(sst, s.l0, k), Newest(U, k))
    BY <1>13 DEF StoredIn
  <2>2. CASE up # 0
    <3>1. /\ T[up][k] = Lookup(sst, task.us, k) /\ up \in 1..Len(T)
          /\ U[up][k] = Lookup(sst, <<>>, k) /\ s.l0 = st.l0
      BY <1>1, <1>10, <1>11, <1>12, <2>2
    <3>2. U[up][k] = 0
      BY <3>1, LookupSmall
    <3>3. lo = up + 1 /\ x = Or(T[up][k], T[up + 1][k]) /\ up + 1 <= Len(T)
          /\ (task.bottom => up + 1 = Len(T))
      BY <1>1, <1>3, <1>10, <1>15, <3>1
    <3>4. Len(T) = Len(U)
      BY <1>10, <1>11, <1>12
    <3>5. /\ \A i \in 1..Len(T) : i # up /\ i # up + 1 => U[i][k] = T[i][k]
          /\ U[up + 1][k] = IF task.bottom /\ x < 0 THEN 0 ELSE x
      BY <1>15, <1>16, <3>3
    <3> DEFINE bottom == task.bottom
    <3>6. bottom \in BOOLEAN /\ (bottom => up + 1 = Len(T))
          /\ U[up + 1][k] = IF bottom /\ x < 0 THEN 0 ELSE x
      BY <1>3, <3>3, <3>5
    <3> HIDE DEF T, U, x, up, lo, task, bottom
    <3>7. Dropped(Newest(T, k), Newest(U, k))
      BY <1>10, <1>11, <3>1, <3>2, <3>3, <3>4, <3>5, <3>6, LevelsMerged
    <3> QED BY <1>14, <2>1, <3>1, <3>7, DroppedSeen DEF Or
  <2>3. CASE up = 0
    <3>a. task.lower = task.upper + 1 /\ task.upper = 0
      BY <1>1, <1>3, <2>3
    <3>b. lo = 1
      BY <3>a
    <3>c. st.l0 = s.l0 \o task.us
      BY <1>1, <2>3
    <3>1. lo = 1 /\ st.l0 = s.l0 \o task.us
      BY <3>b, <3>c
    <3>2. Lookup(sst, st.l0, k) = Or(Lookup(sst, s.l0, k), Lookup(sst, task.us, k))
      BY <1>4, <1>9, <3>1, LookupJoined
    <3> DEFINE q == Lookup(sst, task.us, k)
               bottom == task.bottom
    <3>3. q \in Int /\ x = Or(q, T[1][k]) /\ U[1][k] = (IF bottom /\ x < 0 THEN 0 ELSE x) /\ 1 <= Len(T)
          /\ bottom \in BOOLEAN /\ (bottom => Len(T) = 1)
      BY <1>3, <1>10, <1>14, <1>15, <3>1
    <3>4. Len(T) = Len(U)
      BY <1>10, <1>11, <1>12
    <3>5. \A i \in 1..Len(T) : i # 1 => U[i][k] = T[i][k]
      BY <1>16, <2>3, <3>1
    <3>6. Dropped(Or(q, Newest(T, k)), Newest(U, k))
      <4> HIDE DEF T, U, x, up, lo, task, bottom, q
      <4> QED BY <1>10, <1>11, <3>3, <3>4, <3>5, FirstMerged
    <3>7. StoredIn(sst, st, k) = Or(Lookup(sst, s.l0, k), Or(q, Newest(T, k)))
      BY <1>14, <2>1, <3>2 DEF Or
    <3>8. Or(q, Newest(T, k)) \in Int
      BY <1>14, <3>3 DEF Or
    <3> HIDE DEF T, U, x, up, lo, task, bottom, q
    <3> QED BY <1>14, <2>1, <3>6, <3>7, <3>8, DroppedSeen DEF Or
  <2> QED BY <2>2, <2>3
<1> QED BY <1>6, <1>17 DEF s

\* So the state reads as before.
LEMMA InstallReads ==
    ASSUME Control, Store, Store', Faithfuls, NEW t \in Thread, Install(t)
    PROVE  \A k \in Key : Visible(Content(st, k)') = Visible(Content(st, k))
<1> SUFFICES ASSUME NEW k \in Key PROVE Visible(Content(st, k)') = Visible(Content(st, k))
  OBVIOUS
<1> DEFINE s == st'
<1>1. s.mem = st.mem /\ s.imm = st.imm
  BY InstallIs
<1>2. mt' = mt /\ sst' = sst
  BY DEF Install
<1>6. /\ Newest(ImmOf(mt, st.imm), k) \in Int /\ StoredIn(sst, st, k) \in Int /\ mt[st.mem].data[k] \in Int
      /\ Content(st, k) = Or(mt[st.mem].data[k], Or(Newest(ImmOf(mt, st.imm), k), StoredIn(sst, st, k)))
  BY ContentSplit
<1>7. Content(st, k)' = Or(mt[st.mem].data[k], Or(Newest(ImmOf(mt, st.imm), k), StoredIn(sst, s, k)))
  <2>1. Content(st, k)' = Or(mt'[s.mem].data[k], Or(Newest(ImmOf(mt', s.imm), k), StoredIn(sst', s, k)))
    BY ContentSplitNext
  <2> QED BY <1>1, <1>2, <2>1
<1>17. Dropped(StoredIn(sst, st, k), StoredIn(sst, s, k)) /\ StoredIn(sst, s, k) \in Int
  BY InstallStored
<1> HIDE DEF s
<1>18. Visible(Or(Newest(ImmOf(mt, st.imm), k), StoredIn(sst, st, k)))
         = Visible(Or(Newest(ImmOf(mt, st.imm), k), StoredIn(sst, s, k)))
       /\ Dropped(Or(Newest(ImmOf(mt, st.imm), k), StoredIn(sst, st, k)),
                  Or(Newest(ImmOf(mt, st.imm), k), StoredIn(sst, s, k)))
  BY <1>6, <1>17, DroppedSeen
<1>19. /\ Or(Newest(ImmOf(mt, st.imm), k), StoredIn(sst, st, k)) \in Int
       /\ Or(Newest(ImmOf(mt, st.imm), k), StoredIn(sst, s, k)) \in Int
  BY <1>6, <1>17 DEF Or
<1>20. Visible(Content(st, k)) = Visible(Or(mt[st.mem].data[k], Or(Newest(ImmOf(mt, st.imm), k), StoredIn(sst, s, k))))
  BY <1>6, <1>18, <1>19, DroppedSeen
<1> QED BY <1>7, <1>20

-----------------------------------------------------------------------------
(* The state reads as the insertions left it.                              *)

\* ContentPreserved in every mode.
ContentHolds == \A k \in Key : Visible(Content(st, k)) = Visible(current[k])

\* The invariant of ContentPreserved.
Contented == Engine /\ Faithfuls /\ ContentHolds

\* Where the state reads the same and nothing was inserted the content holds on.
LEMMA ContentStays ==
    ASSUME ContentHolds, current' = current,
           \A k \in Key : Visible(Content(st, k)') = Visible(Content(st, k))
    PROVE  ContentHolds'
BY DEF ContentHolds, Visible

\* So it does where only files, threads or memtables off the state change.
LEMMA ContentStill ==
    ASSUME Control, Store, Store', [Next]_vars, ContentHolds, current' = current, st' = st,
           \A i \in MemIds : mt'[i].data = mt[i].data
    PROVE  ContentHolds'
<1>1. \A i \in TableIds(st) : sst'[i] = sst[i]
  BY HeldSame, HeldHas
<1>2. \A k \in Key : Content(st, k)' = Content(st, k)
  BY <1>1, ContentSame
<1>3. \A k \in Key : Visible(Content(st, k)') = Visible(Content(st, k))
  BY <1>2
<1> QED BY <1>3, ContentStays

\* An insertion shows at once.
LEMMA InsertContent ==
    ASSUME Engine, Engine', ContentHolds, NEW c \in Client, NEW b, Inserts(c, b)
    PROVE  ContentHolds'
<1> DEFINE e == IF b[1].del THEN -(writes + 1) ELSE writes + 1
           x == b[1].k
<1>1. Control /\ Store /\ Store' /\ StoreTyped /\ Memtables
  BY DEF Engine, Store
<1>2. /\ mt' = [mt EXCEPT ![st.mem].data[x] = e, ![st.mem].size = @ + 1]
      /\ current' = [current EXCEPT ![x] = e] /\ st' = st /\ sst' = sst
  BY DEF Inserts, Insert, diskVars
<1>3. x \in Key
  <2>1. b \in Seq(Record) /\ b # <<>>
    BY DEF Inserts
  <2>2. b[1] \in Record
    BY <2>1
  <2> QED BY <2>2 DEF Record
<1>4. e \in Int /\ e # 0
  <2>1. writes \in Nat
    BY <1>1 DEF Control, Typed
  <2> QED BY <2>1
<1> HIDE DEF e, x
<1>5. st \in State /\ st.mem \in DOMAIN mt /\ (\A i \in Ids(st.imm) : i \in DOMAIN mt /\ i # st.mem)
      /\ mt[st.mem].data \in Table
  <2>1. MemIds \subseteq DOMAIN mt /\ (\A i \in Ids(st.imm) : i < st.mem)
    BY <1>1 DEF Memtables
  <2>2. st \in State /\ mt[st.mem].data \in Table
    BY <1>1, ContentIs
  <2>3. st.mem \in Nat /\ Ids(st.imm) \subseteq Nat
    BY <2>2, TableIdsOf
  <2> QED BY <2>1, <2>2, <2>3 DEF MemIds
<1>6. mt'[st.mem].data = [mt[st.mem].data EXCEPT ![x] = e]
  <2>1. mt \in [DOMAIN mt -> Memtable]
    BY <1>1 DEF StoreTyped
  <2>2. mt[st.mem] \in Memtable
    BY <1>5, <2>1
  <2> QED BY <1>2, <1>5, <2>1, <2>2 DEF Memtable
<1>7. \A i \in Ids(st.imm) : mt'[i] = mt[i]
  BY <1>2, <1>5
<1>8. ASSUME NEW k \in Key PROVE Visible(Content(st, k)') = Visible(current'[k])
  <2>1. Content(st, k)' = Or(mt'[st.mem].data[k], Behind(mt', sst, st, k))
    BY <1>1, <1>2, ContentSplitNext DEF ContentOf
  <2>2. Content(st, k) = Or(mt[st.mem].data[k], Behind(mt, sst, st, k))
    BY <1>1, ContentIs DEF ContentOf
  <2>3. Behind(mt', sst, st, k) = Behind(mt, sst, st, k)
    <3> DEFINE n == mt'
    <3>1. \A i \in Ids(st.imm) : n[i].data = mt[i].data
      BY <1>7
    <3> HIDE DEF n
    <3>2. Behind(n, sst, st, k) = Behind(mt, sst, st, k)
      BY <1>5, <3>1, BehindSame
    <3> QED BY <3>2 DEF n
  <2>4. current \in [Key -> Entry]
    BY DEF Engine, CurrentTyped
  <2>5. CASE k = x
    <3>1. mt'[st.mem].data[k] = e
      BY <1>3, <1>5, <1>6, <2>5 DEF Table
    <3>2. current'[k] = e
      BY <1>2, <1>3, <2>4, <2>5
    <3> QED BY <1>4, <2>1, <3>1, <3>2 DEF Or
  <2>6. CASE k # x
    <3>1. mt'[st.mem].data[k] = mt[st.mem].data[k]
      BY <1>3, <1>5, <1>6, <2>6 DEF Table
    <3>2. current'[k] = current[k]
      BY <1>2, <1>3, <2>4, <2>6
    <3>3. Content(st, k)' = Content(st, k)
      BY <2>1, <2>2, <2>3, <3>1
    <3> QED BY <3>2, <3>3 DEF ContentHolds, Visible
  <2> QED BY <2>5, <2>6
<1> QED BY <1>8 DEF ContentHolds, Visible

\* The engine that was opened reads as what is then taken for the latest insertions.
LEMMA OpenContent ==
    ASSUME Engine, Engine', NEW c \in Client, Open(c), Opened.ok
    PROVE  ContentHolds'
<1>1. Control /\ Store /\ Store' /\ StoreTyped /\ TablesHeld /\ Replays
  BY DEF Engine, Store
<1>2. /\ st' = Opened.s /\ mt' = OpenedMt(Opened) /\ sst' = sst
      /\ current' = [k \in Key |-> OpenedEntry(Opened, k)]
  BY <1>1, OpenIs
<1>3. Opened.s.mem = Opened.mem
  BY <1>1, OpenedIs
<1>4. \A k \in Key : OpenedEntry(Opened, k) = Behind(OpenedMt(Opened), sst, Opened.s, k)
  BY <1>1, OpenedReads
<1>5. mt'[st'.mem].data = Nothing
  <2>1. OpenedMt(Opened)[Opened.mem] = EmptyMemtable
    BY DEF OpenedMt
  <2> QED BY <1>2, <1>3, <2>1 DEF EmptyMemtable
<1>6. ASSUME NEW k \in Key PROVE Visible(Content(st, k)') = Visible(current'[k])
  <2>1. Content(st, k)' = Or(mt'[st'.mem].data[k], Behind(mt', sst', st', k))
    BY <1>1, ContentSplitNext DEF ContentOf
  <2>2. mt'[st'.mem].data[k] = 0
    BY <1>5 DEF Nothing
  <2>3. Content(st, k)' = Behind(mt', sst', st', k)
    BY <2>1, <2>2 DEF Or
  <2>4. Content(st, k)' = OpenedEntry(Opened, k)
    BY <1>2, <1>4, <2>3
  <2>5. current'[k] = OpenedEntry(Opened, k)
    BY <1>2
  <2> QED BY <2>4, <2>5
<1> QED BY <1>6 DEF ContentHolds, Visible

\* No step of flush or compaction changes what the state reads as.
LEMMA EngineContent ==
    ASSUME Contented, Engine', [Next]_vars, NEW t \in Thread, EngineStep(t)
    PROVE  ContentHolds'
<1>1. Control /\ Store /\ Store' /\ StoreTyped /\ Memtables /\ Faithfuls /\ ContentHolds
  BY DEF Engine, Store, Contented
<1>2. current' = current
  BY EngineLeaves
<1>3. MemIds \subseteq DOMAIN mt
  BY <1>1 DEF Memtables
<1>4. CASE FlushBuild(t) \/ Merge(t) \/ RemoveInputs(t)
  <2>1. st' = st /\ mt' = mt
    BY <1>4 DEF FlushBuild, Merge, RemoveInputs
  <2> QED BY <1>1, <1>2, <2>1, ContentStill
<1>5. CASE (t \in Client /\ TryFreeze(t)) \/ ForceFreeze(t)
  <2>1. st' = st /\ (CreateMemtable \/ mt' = mt)
    BY <1>5 DEF TryFreeze, ForceFreeze
  <2>2. \A i \in MemIds : mt'[i].data = mt[i].data
    BY <1>1, <1>3, <2>1, CreateLeaves
  <2> QED BY <1>1, <1>2, <2>1, <2>2, ContentStill
<1>6. CASE Swap(t)
  <2>1. t \in Client /\ at[t] = "swap" /\ mt' = mt /\ sst' = sst /\ st' = Frozen(st, loc[t].new)
    <3>1. at[t] = "swap" /\ mt' = mt /\ sst' = sst /\ st' = Frozen(st, loc[t].new)
      BY <1>6 DEF Swap
    <3>2. ThreadFits(t, at[t], loc[t])
      BY <1>1, PlaceOf
    <3> QED BY <3>1, <3>2, ThreadsApart DEF ThreadFits
  <2> DEFINE i == loc[t].new
  <2>2. i \in DOMAIN mt /\ mt[i] = EmptyMemtable /\ i > st.mem
    BY <1>1, <2>1 DEF Memtables
  <2>3. i \in Nat
    BY <1>1, <2>2 DEF StoreTyped
  <2>4. \A j \in MemIds : mt'[j].data = mt[j].data
    BY <2>1
  <2>5. st' = Frozen(st, i) /\ mt'[i] = EmptyMemtable
    BY <2>1, <2>2
  <2> HIDE DEF i
  <2>6. \A k \in Key : Content(st, k)' = Content(st, k)
    BY <1>1, <2>1, <2>2, <2>3, <2>4, <2>5, FreezeReads
  <2>7. \A k \in Key : Visible(Content(st, k)') = Visible(Content(st, k))
    BY <2>6
  <2> QED BY <1>1, <1>2, <2>7, ContentStays
<1>7. CASE t \in Client /\ CloseMemtable(t)
  <2>1. sst' = sst /\ ((st' = st /\ mt' = mt) \/ (CreateMemtable /\ st' = Frozen(st, nextId)))
    BY <1>7 DEF CloseMemtable
  <2>2. CASE st' = st /\ mt' = mt
    BY <1>1, <1>2, <2>2, ContentStill
  <2>3. CASE CreateMemtable /\ st' = Frozen(st, nextId)
    <3>1. nextId \in Nat /\ DOMAIN mt \subseteq 0..(nextId - 1) /\ st.mem \in DOMAIN mt
      BY <1>1, <1>3 DEF StoreTyped, MemIds
    <3>2. nextId > st.mem
      BY <3>1
    <3>3. mt'[nextId] = EmptyMemtable /\ \A j \in MemIds : mt'[j].data = mt[j].data
      <4>1. mt'[nextId] = EmptyMemtable
        BY <2>3 DEF CreateMemtable, With
      <4> QED BY <1>1, <1>3, <2>3, <4>1, CreateLeaves
    <3>4. \A k \in Key : Content(st, k)' = Content(st, k)
      BY <1>1, <2>1, <2>3, <3>1, <3>2, <3>3, FreezeReads
    <3>5. \A k \in Key : Visible(Content(st, k)') = Visible(Content(st, k))
      BY <3>4
    <3> QED BY <1>1, <1>2, <3>5, ContentStays
  <2> QED BY <2>1, <2>2, <2>3
<1>8. CASE FlushInstall(t)
  <2>1. at[t] = "flush.install" /\ mt' = mt /\ sst' = sst
        /\ (IF Last(st.imm) # loc[t].id THEN st' = st ELSE st' = Flushed(st))
    BY <1>8 DEF FlushInstall
  <2>2. st.imm # <<>> /\ loc[t].id = Last(st.imm) /\ sst[loc[t].id] = mt[loc[t].id].data
    BY <1>1, <2>1, FlushOf
  <2>3. st' = Flushed(st) /\ sst[Last(st.imm)] = mt[Last(st.imm)].data
    BY <2>1, <2>2
  <2>4. \A k \in Key : Content(st, k)' = Content(st, k)
    BY <1>1, <2>1, <2>2, <2>3, FlushReads
  <2>5. \A k \in Key : Visible(Content(st, k)') = Visible(Content(st, k))
    BY <2>4
  <2> QED BY <1>1, <1>2, <2>5, ContentStays
<1>9. CASE Install(t)
  <2>1. \A k \in Key : Visible(Content(st, k)') = Visible(Content(st, k))
    BY <1>1, <1>9, InstallReads
  <2> QED BY <1>1, <1>2, <2>1, ContentStays
<1> QED BY <1>4, <1>5, <1>6, <1>7, <1>8, <1>9 DEF EngineStep

\* Every step keeps the content.
LEMMA ContentedStep ==
    ASSUME Contented, [Next]_vars
    PROVE  Contented'
<1>1. Engine /\ Engine' /\ Control /\ Store /\ Store' /\ Faithfuls /\ Faithfuls' /\ ContentHolds
  <2>1. Engine /\ Control /\ Store /\ Faithfuls /\ ContentHolds
    BY DEF Contented, Engine
  <2>2. Engine'
    BY <2>1, EngineStepKeeps
  <2>3. Faithfuls'
    BY <2>1, FaithfulsStep
  <2> QED BY <2>1, <2>2, <2>3 DEF Engine
<1>2. CASE UNCHANGED vars
  <2>1. st' = st /\ mt' = mt /\ current' = current
    BY <1>2 DEF vars, engineVars, historyVars
  <2>2. ContentHolds'
    BY <1>1, <2>1, ContentStill
  <2> QED BY <1>1, <2>2 DEF Contented
<1>3. ASSUME NEW t \in Thread, QuietStep(t) PROVE Contented'
  <2>1. st' = st /\ mt' = mt /\ current' = current
    BY <1>3, QuietLeaves
  <2>2. ContentHolds'
    BY <1>1, <2>1, ContentStill
  <2> QED BY <1>1, <2>2 DEF Contented
<1>4. ASSUME NEW t \in Thread, EngineStep(t) PROVE Contented'
  BY <1>1, <1>4, EngineContent DEF Contented
<1>5. ASSUME NEW c \in Client, NEW b, Inserts(c, b) PROVE Contented'
  BY <1>1, <1>5, InsertContent DEF Contented
<1>6. ASSUME NEW c \in Client, AppendRecord(c) PROVE Contented'
  <2>1. st' = st /\ mt' = mt /\ current' = current
    BY <1>6, AppendLeaves
  <2>2. ContentHolds'
    BY <1>1, <2>1, ContentStill
  <2> QED BY <1>1, <2>2 DEF Contented
<1>7. ASSUME NEW c \in Client, Open(c) PROVE Contented'
  <2>1. CASE Opened.ok
    BY <1>1, <1>7, <2>1, OpenContent DEF Contented
  <2>2. CASE ~Opened.ok
    <3>1. st' = st /\ mt' = mt /\ current' = current
      BY <1>7, <2>2 DEF Open, engineVars, historyVars
    <3>2. ContentHolds'
      BY <1>1, <3>1, ContentStill
    <3> QED BY <1>1, <3>2 DEF Contented
  <2> QED BY <2>1, <2>2
<1> QED BY <1>1, <1>2, <1>3, <1>4, <1>5, <1>6, <1>7, NextKinds

\* An empty engine holds nothing.
LEMMA ContentedInit ==
    ASSUME Init
    PROVE  Contented
<1>1. Engine /\ Faithfuls /\ Store
  BY EngineInit, FaithfulsInit DEF Engine
<1>2. /\ st = [mem |-> 0, imm |-> <<>>, l0 |-> <<>>, levels |-> EmptyLevels]
      /\ mt = [i \in {0} |-> EmptyMemtable] /\ current = Nothing
  BY DEF Init
<1>3. ASSUME NEW k \in Key PROVE Content(st, k) = 0
  <2>1. Content(st, k) = Or(mt[st.mem].data[k], Behind(mt, sst, st, k))
    BY <1>1, ContentIs DEF ContentOf
  <2>2. mt[st.mem].data[k] = 0
    BY <1>2 DEF EmptyMemtable, Nothing
  <2>3. Behind(mt, sst, st, k) \in {0}
    <3>1. Backed(mt, sst, st) /\ st \in State
      BY <1>1, ContentIs
    <3>2. \A i \in Ids(st.imm) : mt[i].data[k] \in {0}
      BY <1>2 DEF Ids
    <3>3. TableIds(st) = {}
      BY <1>2 DEF TableIds, Ids, EmptyLevels
    <3>4. \A i \in TableIds(st) : sst[i][k] \in {0}
      BY <3>3
    <3> QED BY <3>1, <3>2, <3>4, BehindIn
  <2> QED BY <2>1, <2>2, <2>3 DEF Or
<1>4. ContentHolds
  BY <1>2, <1>3 DEF ContentHolds, Nothing
<1> QED BY <1>1, <1>4 DEF Contented

\* Always the engine is in order, the tables that compaction built hold what their
\* inputs held, and the state reads as the insertions left it.
THEOREM ContentedHolds == Spec => []Contented
<1>1. Init => Contented
  BY ContentedInit
<1>2. Contented /\ [Next]_vars => Contented'
  BY ContentedStep
<1> QED BY <1>1, <1>2, PTL DEF Spec

\* Whatever is frozen, flushed, compacted and opened again, the state reads as the
\* sequence of insertions left it.
THEOREM Preserving == Spec => []ContentPreserved
<1>1. Contented => ContentPreserved
  BY DEF Contented, ContentHolds, ContentPreserved
<1> QED BY <1>1, ContentedHolds, PTL

-----------------------------------------------------------------------------
(* What a reader has seen.                                                 *)

\* What callers see of the entries in S.
Shown(S) == {Visible(e) : e \in S}

\* The entry for k in the memtable of c's clone, and behind it.
MemEntry(c, k) == mt[loc[c].snap.mem].data[k]

\* The entry for k behind the memtable of the clone.
OldEntry(c, k) == Behind(mt, sst, loc[c].snap, k)

\* What the clone says now was current at some moment of the read.
CloneSeen(c) == \A k \in Key : Visible(Or(MemEntry(c, k), OldEntry(c, k))) \in Shown(seen[c][k])

\* The iterator read ahead to item: O says what is behind the memtable, S what was
\* current during the read.
ReadAhead(lo, hi, item, last, O, S) ==
    /\ item \in Item /\ item.k > last /\ (item = NoItem \/ item.k \in Key)
    /\ \A k \in Key : InRange(k, lo, hi) /\ k > last =>
          /\ k < item.k => Visible(O[k]) \in Shown(S[k])
          /\ k = item.k => Visible(item.e) \in Shown(S[k])

\* What the scan returned, is about to return, and has read ahead.
ScanFits(lo, hi, item, head, valid, out, O, S) ==
    /\ item \in Item /\ (item = NoItem \/ item.k \in Key)
    /\ head \in Item /\ head.k <= item.k /\ (valid => head.k \in Key)
    /\ \A k \in Key : InRange(k, lo, hi) =>
          /\ ~valid => k < head.k
          /\ k < head.k => out[k] \in Shown(S[k])
          /\ k = head.k => Visible(head.e) \in Shown(S[k])
          /\ k >= head.k => out[k] = 0
          /\ k > head.k /\ k < item.k => Visible(O[k]) \in Shown(S[k])
          /\ k = item.k => Visible(item.e) \in Shown(S[k])

\* The same for every key.
OldOf(c) == [k \in Key |-> OldEntry(c, k)]

\* What is known of a read, at each of its places.
Watched(c) ==
    /\ c \in Readers => CloneSeen(c)
    /\ at[c] = "get.old" => Visible(OldEntry(c, loc[c].k)) \in Shown(seen[c][loc[c].k])
    /\ at[c] = "got" => loc[c].val \in Shown(seen[c][loc[c].k])
    /\ at[c] = "scan.next" =>
          ScanFits(loc[c].lo, loc[c].hi, loc[c].item, loc[c].head, loc[c].valid, loc[c].out,
                   OldOf(c), seen[c])
    /\ at[c] = "scanned" =>
          \A k \in Key : InRange(k, loc[c].lo, loc[c].hi) => loc[c].out[k] \in Shown(seen[c][k])

\* What was seen are entries.
SeenTyped == seen \in [Client -> [Key -> SUBSET Int]]

\* The invariant of ReadsInWindow.
Watching == SeenTyped /\ \A c \in Client : Watched(c)

-----------------------------------------------------------------------------
(* The merged iterator.                                                    *)

\* A key above one that is above the upper bound is above it too.
LEMMA AboveUpper ==
    ASSUME NEW hi \in Bound, NEW h \in Nat, NEW k \in Key, ~BelowUpper(h, hi), BelowUpper(k, hi)
    PROVE  k < h
<1>1. k \in Nat
  BY Week2Assumption DEF Key
<1>2. CASE hi.kind = "incl"
  <2>1. hi.k \in Nat
    BY <1>2, Week2Assumption DEF Bound
  <2> QED BY <1>1, <1>2, <2>1 DEF BelowUpper
<1>3. CASE hi.kind = "excl"
  <2>1. hi.k \in Nat
    BY <1>3, Week2Assumption DEF Bound
  <2> QED BY <1>1, <1>3, <2>1 DEF BelowUpper
<1>4. CASE hi.kind # "incl" /\ hi.kind # "excl"
  BY <1>4 DEF BelowUpper
<1> QED BY <1>2, <1>3, <1>4

\* The memtable's iterator has read ahead: the keys it skipped had no entry there.
LEMMA NextReadAhead ==
    ASSUME NEW c, mt[loc[c].snap.mem].data \in Table, CloneSeen(c), NEW last \in 0..MaxKey
    PROVE  ReadAhead(loc[c].lo, loc[c].hi, NextItem(c, last), last, OldOf(c), seen[c])
<1> DEFINE i == NextItem(c, last)
           d == mt[loc[c].snap.mem].data
           lo == loc[c].lo
           hi == loc[c].hi
           wanted(k) == k > last /\ InRange(k, lo, hi) /\ d[k] # 0
<1>1. /\ i \in Item
      /\ \/ i = NoItem /\ \A k \in Key : ~wanted(k)
         \/ /\ i.k \in Key /\ i.e = d[i.k] /\ wanted(i.k)
            /\ \A k \in Key : wanted(k) => i.k <= k
  <2> HIDE DEF i
  <2>1. i = NextItem(c, last)
    BY DEF i
  <2> QED BY <2>1, NextItemOf DEF Wanted
<1>2. \A k \in Key : OldOf(c)[k] = OldEntry(c, k) /\ MemEntry(c, k) = d[k]
  BY DEF OldOf, MemEntry
<1>3. MaxKey \in Nat /\ \A k \in Key : k \in Nat /\ k <= MaxKey
  BY Week2Assumption DEF Key
<1>4. \A k \in Key : d[k] \in Int
  BY DEF Table
<1>5. NoItem.k = MaxKey + 1
  BY DEF NoItem
<1> HIDE DEF i, d, lo, hi
<1>6. i.k > last /\ (i = NoItem \/ i.k \in Key)
  BY <1>1, <1>3, <1>5
<1>7. ASSUME NEW k \in Key, InRange(k, lo, hi), k > last, k < i.k
      PROVE  Visible(OldOf(c)[k]) \in Shown(seen[c][k])
  <2>1. d[k] = 0
    BY <1>1, <1>3, <1>7
  <2> QED BY <1>2, <2>1 DEF CloneSeen, Or
<1>8. ASSUME NEW k \in Key, InRange(k, lo, hi), k > last, k = i.k
      PROVE  Visible(i.e) \in Shown(seen[c][k])
  <2>1. i.e = d[k] /\ d[k] # 0
    BY <1>1, <1>3, <1>5, <1>8
  <2> QED BY <1>2, <2>1 DEF CloneSeen, Or
<1> QED BY <1>1, <1>6, <1>7, <1>8 DEF ReadAhead, i, lo, hi

\* The head of the merged iterator is the least entry there is, and of two for one
\* key the one of the memtable.
LEMMA HeadFits ==
    ASSUME NEW c, Backed(mt, sst, loc[c].snap), NEW last \in 0..MaxKey, NEW item, NEW S,
           ReadAhead(loc[c].lo, loc[c].hi, item, last, OldOf(c), S),
           NEW out, NEW valid,
           \A k \in Key : InRange(k, loc[c].lo, loc[c].hi) =>
              /\ k <= last => out[k] \in Shown(S[k])
              /\ k > last  => out[k] = 0,
           valid => HeadOf(c, item, last) # NoItem,
           ~valid => \A k \in Key : InRange(k, loc[c].lo, loc[c].hi) => k < HeadOf(c, item, last).k
    PROVE  ScanFits(loc[c].lo, loc[c].hi, item, HeadOf(c, item, last), valid, out, OldOf(c), S)
<1> DEFINE h == HeadOf(c, item, last)
           P == [k \in Key |-> Newest(ScanTables(c), k)]
           lo == loc[c].lo
           hi == loc[c].hi
<1>1. ScanTables(c) \in Seq(Table)
      /\ \A k \in Key : InRange(k, lo, hi) => P[k] = OldOf(c)[k]
  BY ScanTablesOf DEF OldOf, OldEntry
<1>2. item \in Item /\ item.k > last /\ (item = NoItem \/ item.k \in Key)
      /\ \A k \in Key : InRange(k, lo, hi) /\ k > last =>
            /\ k < item.k => Visible(OldOf(c)[k]) \in Shown(S[k])
            /\ k = item.k => Visible(item.e) \in Shown(S[k])
  BY DEF ReadAhead
<1>3. /\ h \in Item
      /\ \/ h = item /\ \A k \in Key : k > last /\ P[k] # 0 => item.k <= k
         \/ /\ h.k \in Key /\ h.k > last /\ h.e = P[h.k] /\ h.e # 0 /\ h.k < item.k
            /\ \A k \in Key : k > last /\ P[k] # 0 => h.k <= k
  BY <1>1, <1>2, HeadOfIs
<1>4. MaxKey \in Nat /\ \A k \in Key : k \in Nat /\ k <= MaxKey
  BY Week2Assumption DEF Key
<1>5. item.k \in Nat /\ h.k \in Nat
  BY <1>2, <1>3, Week2Assumption DEF Item
<1>6. last \in Nat
  BY <1>4
<1>7. /\ \A k \in Key : InRange(k, lo, hi) => (k <= last => out[k] \in Shown(S[k]))
      /\ \A k \in Key : InRange(k, lo, hi) => (k > last  => out[k] = 0)
      /\ valid => h # NoItem
      /\ ~valid => \A k \in Key : InRange(k, lo, hi) => k < h.k
  OBVIOUS
<1> HIDE DEF h, P, lo, hi
<1>8. h.k > last /\ h.k <= item.k /\ (valid => h.k \in Key)
  BY <1>2, <1>3, <1>5, <1>6, <1>7
<1>9. ASSUME NEW k \in Key, InRange(k, lo, hi)
      PROVE  /\ ~valid => k < h.k
             /\ k < h.k => out[k] \in Shown(S[k])
             /\ k = h.k => Visible(h.e) \in Shown(S[k])
             /\ k >= h.k => out[k] = 0
             /\ k > h.k /\ k < item.k => Visible(OldOf(c)[k]) \in Shown(S[k])
             /\ k = item.k => Visible(item.e) \in Shown(S[k])
  <2>1. ~valid => k < h.k
    BY <1>7, <1>9
  <2>2. k < h.k => out[k] \in Shown(S[k])
    <3>1. CASE k <= last
      BY <1>7, <1>9, <3>1
    <3>2. CASE k > last /\ k < h.k
      <4>1. P[k] = 0 /\ k < item.k
        BY <1>3, <1>4, <1>5, <1>8, <3>2
      <4>2. OldOf(c)[k] = 0
        BY <1>1, <1>9, <4>1
      <4>3. Visible(0) \in Shown(S[k])
        BY <1>2, <1>9, <3>2, <4>1, <4>2
      <4>4. out[k] = 0
        BY <1>7, <1>9, <3>2
      <4> QED BY <4>3, <4>4 DEF Visible
    <3> QED BY <1>4, <1>6, <3>1, <3>2
  <2>3. k = h.k => Visible(h.e) \in Shown(S[k])
    <3>1. CASE h = item /\ k = h.k
      BY <1>2, <1>8, <1>9, <3>1
    <3>2. CASE h.e = P[h.k] /\ h.k < item.k /\ k = h.k
      <4>1. P[k] = OldOf(c)[k]
        BY <1>1, <1>9
      <4> QED BY <1>2, <1>8, <1>9, <3>2, <4>1
    <3> QED BY <1>3, <3>1, <3>2
  <2>4. k >= h.k => out[k] = 0
    BY <1>4, <1>5, <1>6, <1>7, <1>8, <1>9
  <2>5. k > h.k /\ k < item.k => Visible(OldOf(c)[k]) \in Shown(S[k])
    BY <1>2, <1>4, <1>5, <1>6, <1>8, <1>9
  <2>6. k = item.k => Visible(item.e) \in Shown(S[k])
    BY <1>2, <1>8, <1>9
  <2> QED BY <2>1, <2>2, <2>3, <2>4, <2>5, <2>6
<1> QED BY <1>2, <1>3, <1>8, <1>9 DEF ScanFits, h, lo, hi
-----------------------------------------------------------------------------
(* What others do during a read.                                           *)

\* Only an insertion changes what a memtable holds.
LEMMA DataStays ==
    ASSUME Control, Store, [Next]_vars, ~Stopped
    PROVE  \/ \A i \in DOMAIN mt : mt'[i].data = mt[i].data
           \/ \E c \in Client : \E b : Inserts(c, b)
<1>1. mt' = mt => \A i \in DOMAIN mt : mt'[i].data = mt[i].data
  OBVIOUS
<1>2. CreateMemtable => \A i \in DOMAIN mt : mt'[i].data = mt[i].data
  BY CreateLeaves
<1>3. ASSUME NEW t \in Thread, EngineStep(t)
      PROVE  mt' = mt \/ CreateMemtable
  BY <1>3 DEF EngineStep, TryFreeze, CloseMemtable, ForceFreeze, Swap, FlushBuild, FlushInstall,
      Merge, Install, RemoveInputs
<1>4. ASSUME NEW t \in Thread, QuietStep(t) PROVE mt' = mt
  BY <1>4, QuietLeaves
<1>5. ASSUME NEW c \in Client, AppendRecord(c) PROVE mt' = mt
  BY <1>5, AppendLeaves
<1>6. \A c \in Client : ~Open(c)
  BY DEF Open
<1>7. UNCHANGED vars => mt' = mt
  BY DEF vars, engineVars
<1> QED BY <1>1, <1>2, <1>3, <1>4, <1>5, <1>6, <1>7, NextKinds

\* What an insertion puts into the memtable is noted for every reader.
LEMMA InsertSeen ==
    ASSUME Control, Store, NEW d \in Client, NEW b, Inserts(d, b)
    PROVE  \E x \in Key : \E e \in Int :
              /\ e # 0 /\ mt' = [mt EXCEPT ![st.mem].data[x] = e, ![st.mem].size = @ + 1]
              /\ seen' = [c \in Client |-> IF loc[c].op \in {"get", "scan"}
                                           THEN [seen[c] EXCEPT ![x] = @ \cup {e}] ELSE seen[c]]
<1> DEFINE e == IF b[1].del THEN -(writes + 1) ELSE writes + 1
           x == b[1].k
<1>1. /\ mt' = [mt EXCEPT ![st.mem].data[x] = e, ![st.mem].size = @ + 1]
      /\ seen' = [c \in Client |-> IF loc[c].op \in {"get", "scan"}
                                   THEN [seen[c] EXCEPT ![x] = @ \cup {e}] ELSE seen[c]]
  BY DEF Inserts, Insert
<1>2. x \in Key
  <2>1. b \in Seq(Record) /\ b # <<>>
    BY DEF Inserts
  <2>2. b[1] \in Record
    BY <2>1
  <2> QED BY <2>2 DEF Record
<1>3. e \in Int /\ e # 0
  <2>1. writes \in Nat
    BY DEF Control, Typed
  <2> QED BY <2>1
<1> HIDE DEF e, x
<1> QED BY <1>1, <1>2, <1>3

\* The places of a read, and what a reader has there.
LEMMA ReaderOf ==
    ASSUME Control, NEW c \in Client, at[c] \in ReadPlaces
    PROVE  loc[c].op \in {"get", "scan"} /\ c \in Thread /\ ~Stopped
<1>1. c \in Thread
  BY ThreadsApart
<1>2. loc[c].op \in {"get", "scan"}
  BY <1>1, LocalsOf DEF ReadPlaces
<1>3. ~Stopped
  BY <1>1 DEF Stopped, Quiet, ReadPlaces
<1> QED BY <1>1, <1>2, <1>3

\* Nothing that was seen is forgotten before the read returns.
LEMMA SeenGrows ==
    ASSUME Engine, SeenTyped, [Next]_vars
    PROVE  /\ SeenTyped'
           /\ \A c \in Client : at[c] \in ReadPlaces /\ ~ReadReturns(c) =>
                 \A k \in Key : seen[c][k] \subseteq seen'[c][k]
<1> DEFINE G == /\ SeenTyped'
                /\ \A c \in Client : at[c] \in ReadPlaces /\ ~ReadReturns(c) =>
                      \A k \in Key : seen[c][k] \subseteq seen'[c][k]
<1> SUFFICES G
  OBVIOUS
<1>1. Control /\ Store /\ current \in [Key -> Int]
  BY DEF Engine, CurrentTyped, Control, Typed, Entry
<1>2. ASSUME seen' = seen PROVE G
  BY <1>2 DEF SeenTyped
<1>3. ASSUME NEW d \in Client, NEW b, Inserts(d, b) PROVE G
  <2>1. PICK x \in Key : \E e \in Int :
              seen' = [c \in Client |-> IF loc[c].op \in {"get", "scan"}
                                        THEN [seen[c] EXCEPT ![x] = @ \cup {e}] ELSE seen[c]]
    BY <1>1, <1>3, InsertSeen
  <2>2. PICK e \in Int :
              seen' = [c \in Client |-> IF loc[c].op \in {"get", "scan"}
                                        THEN [seen[c] EXCEPT ![x] = @ \cup {e}] ELSE seen[c]]
    BY <2>1
  <2>3. ASSUME NEW c \in Client
        PROVE  seen'[c] \in [Key -> SUBSET Int] /\ \A k \in Key : seen[c][k] \subseteq seen'[c][k]
    <3>1. seen'[c] = [seen[c] EXCEPT ![x] = @ \cup {e}] \/ seen'[c] = seen[c]
      BY <2>2
    <3>2. seen[c] \in [Key -> SUBSET Int]
      BY DEF SeenTyped
    <3> QED BY <3>1, <3>2
  <2>4. SeenTyped'
    BY <2>2, <2>3 DEF SeenTyped
  <2> QED BY <2>3, <2>4
<1>4. ASSUME NEW d \in Client, Get(d) \/ Scan(d) \/ ReadReturns(d) PROVE G
  <2>1. at[d] \notin ReadPlaces \/ ReadReturns(d)
    BY <1>4 DEF Get, Scan, Idle, ReadPlaces
  <2>2. seen' = [seen EXCEPT ![d] = [k \in Key |-> {current[k]}]]
        \/ seen' = [seen EXCEPT ![d] = [k \in Key |-> {}]]
    BY <1>4 DEF Get, Scan, ReadReturns, StartWatching, StopWatching
  <2>3. SeenTyped'
    <3>1. [k \in Key |-> {current[k]}] \in [Key -> SUBSET Int] /\ [k \in Key |-> {}] \in [Key -> SUBSET Int]
      BY <1>1
    <3> QED BY <2>2, <3>1 DEF SeenTyped
  <2>4. \A c \in Client : c # d => seen'[c] = seen[c]
    BY <2>2 DEF SeenTyped
  <2> QED BY <2>1, <2>3, <2>4
<1>5. ASSUME NEW t \in Thread, EngineStep(t) PROVE seen' = seen
  BY <1>5, EngineLeaves
<1>6. ASSUME NEW c \in Client, AppendRecord(c) PROVE seen' = seen
  BY <1>6, AppendLeaves
<1>7. ASSUME NEW c \in Client, Open(c) PROVE seen' = seen
  BY <1>7 DEF Open, historyVars
<1>8. ASSUME NEW t \in Thread, QuietStep(t), ~(t \in Client /\ (Get(t) \/ Scan(t) \/ ReadReturns(t)))
      PROVE  seen' = seen
  BY <1>8 DEF QuietStep, GetMemtable, GetOld, ScanOpen, ScanNext, ScanEnd, ForceFlush, FullCompaction,
      Close, CloseJoin, CloseDrain, CloseEnd, ForceCheck, Apply, StopThread, FlushTick, CompactTick, historyVars
<1>9. UNCHANGED vars => seen' = seen
  BY DEF vars, historyVars
<1> HIDE DEF G
<1> QED BY <1>1, <1>2, <1>3, <1>4, <1>5, <1>6, <1>7, <1>8, <1>9, NextKinds

\* A state behind whose memtable nothing changes reads the same there.
LEMMA BehindStays ==
    ASSUME NEW s \in State, \A i \in Ids(s.imm) : mt'[i].data = mt[i].data,
           \A i \in TableIds(s) : sst'[i] = sst[i], NEW k
    PROVE  Behind(mt', sst', s, k) = Behind(mt, sst, s, k)
<1> DEFINE n == mt'
           g == sst'
<1>1. (\A i \in Ids(s.imm) : n[i].data = mt[i].data) /\ (\A i \in TableIds(s) : g[i] = sst[i])
  OBVIOUS
<1> HIDE DEF n, g
<1>2. Behind(n, g, s, k) = Behind(mt, sst, s, k)
  BY <1>1, BehindSame
<1> QED BY <1>2 DEF n, g

\* What is behind the memtable of a clone does not change, and what is inserted
\* into the memtable is seen.
LEMMA CloneStays ==
    ASSUME Engine, SeenTyped, [Next]_vars, NEW c \in Readers, loc'[c].snap = loc[c].snap
    PROVE  /\ \A k \in Key : OldEntry(c, k)' = OldEntry(c, k)
           /\ \A k \in Key : \/ MemEntry(c, k)' = MemEntry(c, k)
                             \/ MemEntry(c, k)' # 0 /\ MemEntry(c, k)' \in seen'[c][k]
<1> DEFINE s == loc[c].snap
<1>1. Control /\ Store /\ StoreTyped /\ TablesHeld /\ Clones /\ Memtables
  BY DEF Engine, Store
<1>2. /\ Backed(mt, sst, s) /\ s \in State /\ mt[s.mem].data \in Table
      /\ c \in Client /\ s.mem \in DOMAIN mt
      /\ \A i \in Ids(s.imm) : i \in DOMAIN mt
  BY <1>1, CloneBacked
<1>3. at[c] \in ReadPlaces
  BY DEF Readers, ReadPlaces
<1>4. ~Stopped /\ loc[c].op \in {"get", "scan"}
  BY <1>1, <1>2, <1>3, ReaderOf
<1>5. s.mem <= st.mem /\ \A i \in Ids(s.imm) : i < s.mem
  BY <1>1 DEF Clones
<1>6. \A i \in Ids(s.imm) : mt'[i].data = mt[i].data
  <2>1. FrozenStays
    BY <1>4, FrozenStep
  <2>2. s.mem \in Nat /\ Ids(s.imm) \subseteq Nat /\ st.mem \in Nat
    <3>1. st \in State
      BY <1>1 DEF StoreTyped
    <3> QED BY <1>2, <3>1, TableIdsOf
  <2>3. \A i \in Ids(s.imm) : i \in DOMAIN mt \ {st.mem}
    BY <1>2, <1>5, <2>2
  <2> QED BY <2>1, <2>3 DEF FrozenStays
<1>7. \A i \in TableIds(s) : sst'[i] = sst[i]
  <2>1. \A i \in TableIds(s) : i \in Held
    BY HeldHas
  <2> QED BY <1>1, <2>1, HeldSame
<1>8. ASSUME NEW k \in Key PROVE OldEntry(c, k)' = OldEntry(c, k)
  <2>1. Behind(mt', sst', s, k) = Behind(mt, sst, s, k)
    BY <1>2, <1>6, <1>7, BehindStays
  <2>2. OldEntry(c, k)' = Behind(mt', sst', s, k)
    BY DEF OldEntry
  <2> QED BY <2>1, <2>2 DEF OldEntry
<1>9. ASSUME NEW k \in Key
      PROVE  \/ MemEntry(c, k)' = MemEntry(c, k)
             \/ MemEntry(c, k)' # 0 /\ MemEntry(c, k)' \in seen'[c][k]
  <2>1. MemEntry(c, k)' = mt'[s.mem].data[k] /\ MemEntry(c, k) = mt[s.mem].data[k]
    BY DEF MemEntry
  <2>2. CASE \A i \in DOMAIN mt : mt'[i].data = mt[i].data
    BY <1>2, <2>1, <2>2
  <2>3. CASE \E d \in Client : \E b : Inserts(d, b)
    <3>1. PICK x \in Key : \E e \in Int :
              /\ e # 0 /\ mt' = [mt EXCEPT ![st.mem].data[x] = e, ![st.mem].size = @ + 1]
              /\ seen' = [a \in Client |-> IF loc[a].op \in {"get", "scan"}
                                           THEN [seen[a] EXCEPT ![x] = @ \cup {e}] ELSE seen[a]]
      BY <1>1, <2>3, InsertSeen
    <3>2. PICK e \in Int :
              /\ e # 0 /\ mt' = [mt EXCEPT ![st.mem].data[x] = e, ![st.mem].size = @ + 1]
              /\ seen' = [a \in Client |-> IF loc[a].op \in {"get", "scan"}
                                           THEN [seen[a] EXCEPT ![x] = @ \cup {e}] ELSE seen[a]]
      BY <3>1
    <3>3. seen'[c] = [seen[c] EXCEPT ![x] = @ \cup {e}] /\ seen[c] \in [Key -> SUBSET Int]
      BY <1>2, <1>4, <3>2 DEF SeenTyped
    <3>4. e \in seen'[c][x]
      BY <3>3
    <3>5. CASE s.mem # st.mem
      BY <1>2, <2>1, <3>2, <3>5
    <3>6. CASE s.mem = st.mem
      <4>1. mt[s.mem] \in Memtable
        BY <1>1, <1>2 DEF StoreTyped
      <4>2. mt'[s.mem].data = [mt[s.mem].data EXCEPT ![x] = e]
        BY <1>2, <3>2, <3>6, <4>1 DEF Memtable
      <4> HIDE DEF s
      <4>3. mt'[s.mem].data[k] = IF k = x THEN e ELSE mt[s.mem].data[k]
        BY <1>2, <4>2 DEF Table
      <4> QED BY <2>1, <3>2, <3>4, <4>3
    <3> QED BY <3>5, <3>6
  <2> QED BY <1>1, <1>4, <2>2, <2>3, DataStays
<1> QED BY <1>8, <1>9
-----------------------------------------------------------------------------
(* Reads go on.                                                            *)

\* The more was current the more may be shown.
LEMMA ShownGrows ==
    ASSUME NEW S, NEW T, S \subseteq T
    PROVE  Shown(S) \subseteq Shown(T)
BY DEF Shown

\* A scan fits as well when more was seen.
LEMMA ScanFitsGrows ==
    ASSUME NEW lo, NEW hi, NEW item, NEW head, NEW valid, NEW out, NEW O, NEW S, NEW T,
           ScanFits(lo, hi, item, head, valid, out, O, S), \A k \in Key : S[k] \subseteq T[k]
    PROVE  ScanFits(lo, hi, item, head, valid, out, O, T)
<1>1. \A k \in Key : Shown(S[k]) \subseteq Shown(T[k])
  BY ShownGrows
<1> QED BY <1>1 DEF ScanFits

\* What a clone says stays something that was seen.
LEMMA CloneSeenStays ==
    ASSUME Engine, SeenTyped, [Next]_vars, NEW c \in Readers, loc'[c].snap = loc[c].snap, CloneSeen(c)
    PROVE  /\ CloneSeen(c)' /\ OldOf(c)' = OldOf(c)
           /\ \A k \in Key : OldEntry(c, k)' = OldEntry(c, k)
           /\ \A k \in Key : Shown(seen[c][k]) \subseteq Shown(seen'[c][k])
<1>1. c \in Client /\ at[c] \in ReadPlaces /\ at[c] \notin {"got", "scanned"}
  BY DEF Readers, ReadPlaces
<1>2. ~ReadReturns(c)
  BY <1>1 DEF ReadReturns
<1>3. \A k \in Key : OldEntry(c, k)' = OldEntry(c, k)
  BY CloneStays
<1>4. \A k \in Key : seen[c][k] \subseteq seen'[c][k]
  BY <1>1, <1>2, SeenGrows
<1>5. \A k \in Key : Shown(seen[c][k]) \subseteq Shown(seen'[c][k])
  BY <1>4, ShownGrows
<1>6. ASSUME NEW k \in Key
      PROVE  Visible(Or(MemEntry(c, k)', OldEntry(c, k)')) \in Shown(seen'[c][k])
  <2>1. CASE MemEntry(c, k)' = MemEntry(c, k)
    <3>1. Visible(Or(MemEntry(c, k), OldEntry(c, k))) \in Shown(seen[c][k])
      BY DEF CloneSeen
    <3> QED BY <1>3, <1>5, <2>1, <3>1
  <2>2. CASE MemEntry(c, k)' # 0 /\ MemEntry(c, k)' \in seen'[c][k]
    BY <2>2 DEF Or, Shown
  <2> QED BY <2>1, <2>2, CloneStays
<1>7. CloneSeen(c)'
  BY <1>6 DEF CloneSeen, Visible, Or, Shown
<1>8. OldOf(c)' = OldOf(c)
  BY <1>3 DEF OldOf
<1> QED BY <1>3, <1>5, <1>7, <1>8

\* A read that does not move stays watched.
LEMMA WatchedStays ==
    ASSUME Engine, Watching, [Next]_vars, NEW c \in Client, at'[c] = at[c], loc'[c] = loc[c]
    PROVE  Watched(c)'
<1>1. SeenTyped /\ Watched(c)
  BY DEF Watching
<1>2. c \in Readers' <=> c \in Readers
  BY DEF Readers
<1>3. c \in Readers => /\ CloneSeen(c)' /\ OldOf(c)' = OldOf(c)
                       /\ \A k \in Key : OldEntry(c, k)' = OldEntry(c, k)
  BY <1>1, CloneSeenStays DEF Watched
<1>4. at[c] \in ReadPlaces => \A k \in Key : seen[c][k] \subseteq seen'[c][k]
  <2>1. at[c] \in ReadPlaces => ~ReadReturns(c)
    <3> SUFFICES ASSUME ReadReturns(c) PROVE FALSE
      OBVIOUS
    <3>1. at[c] \in {"got", "scanned"} /\ Goto(c, "idle", NoOp)
      BY DEF ReadReturns
    <3>2. DOMAIN at = Thread /\ c \in Thread
      BY ThreadsApart DEF Engine, Control, Typed
    <3>3. at'[c] = "idle"
      BY <3>1, <3>2 DEF Goto
    <3> QED BY <3>1, <3>3
  <2> QED BY <1>1, <2>1, SeenGrows
<1>5. at[c] \in ReadPlaces => \A k \in Key : Shown(seen[c][k]) \subseteq Shown(seen'[c][k])
  BY <1>4, ShownGrows
<1>6. Control /\ c \in Thread
  BY ThreadsApart DEF Engine
<1>16. c \in Readers => \A k \in Key : Behind(mt', sst', loc'[c].snap, k) = OldEntry(c, k)
  BY <1>3 DEF OldEntry
<1>7. at[c] = "get.old" => Visible(Behind(mt', sst', loc'[c].snap, loc[c].k)) \in Shown(seen'[c][loc[c].k])
  <2> SUFFICES ASSUME at[c] = "get.old"
               PROVE  Visible(Behind(mt', sst', loc'[c].snap, loc[c].k)) \in Shown(seen'[c][loc[c].k])
    OBVIOUS
  <2>1. loc[c].k \in Key /\ c \in Readers
    <3>1. loc[c] \in [op : {"get"}, k : Key, snap : State]
      BY <1>6, LocalsOf
    <3> QED BY <3>1 DEF Readers
  <2> DEFINE x == loc[c].k
  <2>2. Visible(OldEntry(c, x)) \in Shown(seen[c][x])
    BY <1>1 DEF Watched
  <2>3. x \in Key
    BY <2>1
  <2> HIDE DEF x
  <2>4. Behind(mt', sst', loc'[c].snap, x) = OldEntry(c, x) /\ Shown(seen[c][x]) \subseteq Shown(seen'[c][x])
    BY <1>5, <1>16, <2>1, <2>3 DEF ReadPlaces
  <2> QED BY <2>2, <2>4 DEF x
<1>8. at[c] = "got" => loc[c].val \in Shown(seen'[c][loc[c].k])
  <2> SUFFICES ASSUME at[c] = "got" PROVE loc[c].val \in Shown(seen'[c][loc[c].k])
    OBVIOUS
  <2>1. loc[c].k \in Key
    <3>1. loc[c] \in [op : {"get"}, k : Key, val : Int]
      BY <1>6, LocalsOf
    <3> QED BY <3>1
  <2> QED BY <1>1, <1>5, <2>1 DEF Watched, ReadPlaces
<1>9. at[c] = "scanned" => \A k \in Key : InRange(k, loc[c].lo, loc[c].hi) => loc[c].out[k] \in Shown(seen'[c][k])
  BY <1>1, <1>5 DEF Watched, ReadPlaces
<1>10. at[c] = "scan.next" =>
          ScanFits(loc[c].lo, loc[c].hi, loc[c].item, loc[c].head, loc[c].valid, loc[c].out,
                   OldOf(c)', seen'[c])
  <2> SUFFICES ASSUME at[c] = "scan.next"
               PROVE  ScanFits(loc[c].lo, loc[c].hi, loc[c].item, loc[c].head, loc[c].valid, loc[c].out,
                               OldOf(c)', seen'[c])
    OBVIOUS
  <2>1. c \in Readers /\ at[c] \in ReadPlaces
    BY DEF Readers, ReadPlaces
  <2>2. OldOf(c)' = OldOf(c)
    BY <1>3, <2>1
  <2>3. ScanFits(loc[c].lo, loc[c].hi, loc[c].item, loc[c].head, loc[c].valid, loc[c].out, OldOf(c), seen[c])
    BY <1>1 DEF Watched
  <2>4. \A k \in Key : seen[c][k] \subseteq seen'[c][k]
    BY <1>4, <2>1
  <2>5. ScanFits(loc[c].lo, loc[c].hi, loc[c].item, loc[c].head, loc[c].valid, loc[c].out, OldOf(c), seen'[c])
    BY <2>3, <2>4, ScanFitsGrows
  <2> QED BY <2>2, <2>5
<1> DEFINE l == loc[c]
<1>11. at'[c] = at[c] /\ loc'[c] = l
  OBVIOUS
<1>12. at'[c] = "get.old" =>
          Visible(Behind(mt', sst', loc'[c].snap, loc'[c].k)) \in Shown(seen'[c][loc'[c].k])
  BY <1>7
<1>13. c \in Readers' => CloneSeen(c)'
  BY <1>2, <1>3
<1>14. at'[c] = "scan.next" =>
          ScanFits(loc'[c].lo, loc'[c].hi, loc'[c].item, loc'[c].head, loc'[c].valid, loc'[c].out,
                   OldOf(c)', seen'[c])
  BY <1>10
<1>15. (at'[c] = "got" => loc'[c].val \in Shown(seen'[c][loc'[c].k]))
       /\ (at'[c] = "scanned" =>
             \A k \in Key : InRange(k, loc'[c].lo, loc'[c].hi) => loc'[c].out[k] \in Shown(seen'[c][k]))
  BY <1>8, <1>9
<1> QED BY <1>12, <1>13, <1>14, <1>15 DEF Watched, OldEntry
-----------------------------------------------------------------------------
(* The steps of a read.                                                    *)

\* A clone of the state says what is current.
LEMMA CloneWatched ==
    ASSUME Contented, SeenTyped, NEW c \in Client, Get(c) \/ Scan(c)
    PROVE  Watched(c)'
<1>1. Control /\ Store /\ ContentHolds
  BY DEF Contented, Engine
<1>2. /\ loc'[c].snap = st /\ at'[c] \in {"get.mem", "scan.open"} /\ mt' = mt /\ sst' = sst
      /\ seen' = [seen EXCEPT ![c] = [k \in Key |-> {current[k]}]]
  <2>1. \E p \in {"get.mem", "scan.open"} : \E l : Goto(c, p, l) /\ l.snap = st
    <3> DEFINE G == \E p \in {"get.mem", "scan.open"} : \E l : Goto(c, p, l) /\ l.snap = st
    <3> SUFFICES G
      OBVIOUS
    <3>1. CASE Get(c)
      <4>1. PICK k \in setting.keys : Goto(c, "get.mem", [op |-> "get", k |-> k, snap |-> st])
        BY <3>1 DEF Get
      <4> QED BY <4>1
    <3>2. CASE Scan(c)
      <4>1. PICK r \in Ranges : Goto(c, "scan.open", [op |-> "scan", snap |-> st, lo |-> r[1], hi |-> r[2]])
        BY <3>2 DEF Scan
      <4> QED BY <4>1
    <3> HIDE DEF G
    <3> QED BY <3>1, <3>2
  <2>2. c \in Thread
    BY ThreadsApart
  <2>3. at'[c] \in {"get.mem", "scan.open"} /\ loc'[c].snap = st
    BY <1>1, <2>1, <2>2, Moved
  <2> QED BY <2>3 DEF Get, Scan, engineVars, diskVars, StartWatching
<1>3. seen'[c] = [k \in Key |-> {current[k]}]
  BY <1>2 DEF SeenTyped
<1>4. ASSUME NEW k \in Key
      PROVE  Visible(Or(MemEntry(c, k)', OldEntry(c, k)')) \in Shown(seen'[c][k])
  <2>1. Content(st, k) = Or(mt[st.mem].data[k], Behind(mt, sst, st, k))
    BY <1>1, ContentIs DEF ContentOf
  <2>2. MemEntry(c, k)' = mt[st.mem].data[k] /\ OldEntry(c, k)' = Behind(mt, sst, st, k)
    BY <1>2 DEF MemEntry, OldEntry
  <2>3. Visible(Or(MemEntry(c, k)', OldEntry(c, k)')) = Visible(current[k])
    BY <1>1, <2>1, <2>2 DEF ContentHolds
  <2> QED BY <1>3, <2>3 DEF Shown
<1>5. CloneSeen(c)'
  BY <1>4 DEF CloneSeen, Visible, Or, Shown
<1> QED BY <1>2, <1>5 DEF Watched

\* The memtable of the clone is looked at, then what is behind it.
LEMMA GetWatched ==
    ASSUME Engine, Watching, [Next]_vars, NEW c \in Client, GetMemtable(c) \/ GetOld(c)
    PROVE  Watched(c)'
<1> DEFINE x == loc[c].k
           e == MemEntry(c, x)
           o == OldEntry(c, x)
<1>1. Control /\ Store /\ StoreTyped /\ TablesHeld /\ Clones /\ c \in Thread /\ SeenTyped /\ Watched(c)
  BY ThreadsApart DEF Engine, Store, Watching
<1>2. at[c] \in {"get.mem", "get.old"} /\ c \in Readers
  BY DEF GetMemtable, GetOld, Readers
<1>3. x \in Key
  <2>1. loc[c] \in [op : {"get"}, k : Key, snap : State]
    BY <1>1, <1>2, LocalsOf
  <2> QED BY <2>1
<1>4. CloneSeen(c)
  BY <1>1, <1>2 DEF Watched
<1>5. Visible(Or(e, o)) \in Shown(seen[c][x])
  BY <1>3, <1>4 DEF CloneSeen
<1>6. mt' = mt /\ sst' = sst /\ seen' = seen
  BY DEF GetMemtable, GetOld, engineVars, diskVars, historyVars
<1>7. CASE GetOld(c)
  <2>1. Visible(o) \in Shown(seen[c][x])
    BY <1>1, <1>7 DEF Watched, GetOld
  <2>2. Newest(OldTables(loc[c].snap), x) = o
    BY <1>1, <1>2, <1>3, CloneBacked, OldRead DEF OldEntry
  <2>3. Goto(c, "got", [op |-> "get", k |-> x, val |-> Visible(o)])
    BY <1>7, <2>2 DEF GetOld
  <2> HIDE DEF x, o
  <2>4. at'[c] = "got" /\ loc'[c].val = Visible(o) /\ loc'[c].k = x
    BY <1>1, <2>3, Moved
  <2> QED BY <1>6, <2>1, <2>4 DEF Watched, Readers
<1>8. CASE GetMemtable(c) /\ e # 0
  <2>1. Goto(c, "got", [op |-> "get", k |-> x, val |-> Visible(e)])
    BY <1>8 DEF GetMemtable, MemEntry
  <2>2. Visible(e) \in Shown(seen[c][x])
    BY <1>5, <1>8 DEF Or
  <2> HIDE DEF x, e
  <2>3. at'[c] = "got" /\ loc'[c].val = Visible(e) /\ loc'[c].k = x
    BY <1>1, <2>1, Moved
  <2> QED BY <1>6, <2>2, <2>3 DEF Watched, Readers
<1>9. CASE GetMemtable(c) /\ ~(e # 0)
  <2>1. Goto(c, "get.old", loc[c])
    BY <1>9 DEF GetMemtable, MemEntry
  <2>2. at'[c] = "get.old" /\ loc'[c] = loc[c]
    BY <1>1, <2>1, Moved
  <2>3. CloneSeen(c)'
    BY <1>1, <1>2, <1>4, <2>2, CloneSeenStays
  <2>4. Visible(o) \in Shown(seen[c][x])
    BY <1>5, <1>9 DEF Or
  <2>5. Visible(Behind(mt', sst', loc'[c].snap, loc'[c].k)) \in Shown(seen'[c][loc'[c].k])
    BY <1>6, <2>2, <2>4 DEF OldEntry
  <2> QED BY <2>2, <2>3, <2>5 DEF Watched, OldEntry
<1> QED BY <1>7, <1>8, <1>9

\* The scan opens its iterators.
LEMMA ScanOpenWatched ==
    ASSUME Engine, Watching, [Next]_vars, NEW c \in Client, ScanOpen(c)
    PROVE  Watched(c)'
<1> DEFINE item == NextItem(c, 0)
           head == HeadOf(c, item, 0)
           lo == loc[c].lo
           hi == loc[c].hi
           valid == head # NoItem
<1>1. Control /\ Store /\ StoreTyped /\ TablesHeld /\ Clones /\ c \in Thread /\ SeenTyped /\ Watched(c)
  BY ThreadsApart DEF Engine, Store, Watching
<1>2. /\ at[c] = "scan.open" /\ mt' = mt /\ sst' = sst /\ seen' = seen /\ c \in Readers
      /\ Goto(c, "scan.next", [op |-> "scan", snap |-> loc[c].snap, lo |-> lo, hi |-> hi, item |-> item,
                               head |-> head, valid |-> valid, out |-> Nothing])
  BY DEF ScanOpen, Readers, engineVars, diskVars, historyVars
<1>3. Backed(mt, sst, loc[c].snap) /\ mt[loc[c].snap.mem].data \in Table
  BY <1>1, <1>2, CloneBacked
<1>4. CloneSeen(c) /\ 0 \in 0..MaxKey /\ \A k \in Key : k \in Nat /\ k > 0 /\ k <= MaxKey
  BY <1>1, <1>2, Week2Assumption DEF Watched, Key
<1>5. ReadAhead(lo, hi, item, 0, OldOf(c), seen[c])
  BY <1>3, <1>4, NextReadAhead
<1>6. ScanFits(lo, hi, item, head, valid, Nothing, OldOf(c), seen[c])
  <2> DEFINE out == Nothing
  <2>1. \A k \in Key : InRange(k, lo, hi) => /\ k <= 0 => out[k] \in Shown(seen[c][k])
                                             /\ k > 0  => out[k] = 0
    BY <1>4 DEF Nothing
  <2>2. valid => head # NoItem
    OBVIOUS
  <2>3. ~valid => \A k \in Key : InRange(k, lo, hi) => k < head.k
    BY <1>4, Week2Assumption DEF NoItem
  <2>4. 0 \in 0..MaxKey
    BY <1>4
  <2> DEFINE S == seen[c]
  <2>5. ReadAhead(lo, hi, item, 0, OldOf(c), S)
    BY <1>5
  <2>6. \A k \in Key : InRange(k, lo, hi) => /\ k <= 0 => out[k] \in Shown(S[k])
                                             /\ k > 0  => out[k] = 0
    BY <2>1
  <2> HIDE DEF item, valid, out, S
  <2>7. ScanFits(lo, hi, item, head, valid, out, OldOf(c), S)
    BY <1>3, <2>2, <2>3, <2>4, <2>5, <2>6, HeadFits
  <2> QED BY <2>7 DEF out, S
<1> HIDE DEF item, head, lo, hi, valid
<1>7. /\ at'[c] = "scan.next" /\ loc'[c].snap = loc[c].snap /\ loc'[c].lo = lo /\ loc'[c].hi = hi
      /\ loc'[c].item = item /\ loc'[c].head = head /\ loc'[c].valid = valid /\ loc'[c].out = Nothing
  BY <1>1, <1>2, Moved
<1>8. CloneSeen(c)' /\ OldOf(c)' = OldOf(c)
  BY <1>1, <1>2, <1>4, <1>7, CloneSeenStays
<1> QED BY <1>2, <1>6, <1>7, <1>8 DEF Watched

\* The scan takes an entry and moves on.
LEMMA ScanNextWatched ==
    ASSUME Engine, Watching, [Next]_vars, NEW c \in Client, ScanNext(c)
    PROVE  Watched(c)'
<1> DEFINE l    == loc[c]
           last == l.head.k
           lo   == l.lo
           hi   == l.hi
           out  == [l.out EXCEPT ![last] = Visible(l.head.e)]
           item == IF l.item.k = last THEN NextItem(c, last) ELSE l.item
           head == HeadOf(c, item, last)
           valid == head # NoItem /\ BelowUpper(head.k, hi)
           S == seen[c]
<1>1. Control /\ Store /\ StoreTyped /\ TablesHeld /\ Clones /\ c \in Thread /\ SeenTyped /\ Watched(c)
  BY ThreadsApart DEF Engine, Store, Watching
<1>2. /\ at[c] = "scan.next" /\ l.valid /\ mt' = mt /\ sst' = sst /\ seen' = seen /\ c \in Readers
      /\ Goto(c, "scan.next", [l EXCEPT !.out = out, !.item = item, !.head = head, !.valid = valid])
  BY DEF ScanNext, Readers, engineVars, diskVars, historyVars
<1>3. Backed(mt, sst, l.snap) /\ mt[l.snap.mem].data \in Table
  BY <1>1, <1>2, CloneBacked
<1>4. CloneSeen(c) /\ ScanFits(lo, hi, l.item, l.head, l.valid, l.out, OldOf(c), S)
  BY <1>1, <1>2 DEF Watched
<1>5. l \in [op : {"scan"}, snap : State, lo : Bound, hi : Bound,
             item : Item, head : Item, valid : BOOLEAN, out : Table]
  BY <1>1, <1>2, LocalsOf
<1>6. /\ hi \in Bound /\ l.out \in Table /\ l.item \in Item /\ l.head \in Item
      /\ DOMAIN l = {"op", "snap", "lo", "hi", "item", "head", "valid", "out"}
  BY <1>5
<1>7. MaxKey \in Nat /\ \A k \in Key : k \in Nat /\ k <= MaxKey
  BY Week2Assumption DEF Key
<1>8. last \in Key /\ last \in 0..MaxKey /\ last <= l.item.k /\ (l.item = NoItem \/ l.item.k \in Key) /\ l.item.k \in Nat
  <2>1. last \in Key /\ last <= l.item.k /\ (l.item = NoItem \/ l.item.k \in Key)
    BY <1>2, <1>4 DEF ScanFits
  <2>2. l.item.k \in Nat
    BY <1>6, <1>7 DEF Item
  <2> QED BY <1>7, <2>1, <2>2 DEF Key
<1>9. ReadAhead(lo, hi, item, last, OldOf(c), S)
  <2>1. CASE l.item.k = last
    BY <1>3, <1>4, <1>8, <2>1, NextReadAhead
  <2>2. CASE l.item.k # last
    <3>1. item = l.item
      BY <2>2
    <3>2. l.item.k > last
      BY <1>7, <1>8, <2>2
    <3>3. \A k \in Key : InRange(k, lo, hi) /\ k > last =>
            /\ k < l.item.k => Visible(OldOf(c)[k]) \in Shown(S[k])
            /\ k = l.item.k => Visible(l.item.e) \in Shown(S[k])
      BY <1>4 DEF ScanFits
    <3> QED BY <1>6, <1>8, <3>1, <3>2, <3>3 DEF ReadAhead
  <2> QED BY <2>1, <2>2
<1>10. ScanFits(lo, hi, item, head, valid, out, OldOf(c), S)
  <2>1. ASSUME NEW k \in Key, InRange(k, lo, hi)
        PROVE  /\ k <= last => out[k] \in Shown(S[k])
               /\ k > last  => out[k] = 0
    <3>1. /\ k < last => l.out[k] \in Shown(S[k])
          /\ k = last => Visible(l.head.e) \in Shown(S[k])
          /\ k >= last => l.out[k] = 0
      BY <1>4, <2>1 DEF ScanFits
    <3>2. out[k] = IF k = last THEN Visible(l.head.e) ELSE l.out[k]
      BY <1>6, <1>8 DEF Table
    <3> QED BY <1>7, <1>8, <3>1, <3>2
  <2>2. valid => head # NoItem
    OBVIOUS
  <2>3. head \in Item
    <3>1. ScanTables(c) \in Seq(Table)
      BY <1>3, ScanTablesOf
    <3>2. item \in Item
      BY <1>9 DEF ReadAhead
    <3> HIDE DEF item, last
    <3> QED BY <3>1, <3>2, HeadOfIs
  <2>4. ASSUME ~valid, NEW k \in Key, InRange(k, lo, hi)
        PROVE  k < head.k
    <3>1. head.k \in Nat
      BY <1>7, <2>3 DEF Item
    <3> HIDE DEF head
    <3>2. CASE head = NoItem
      BY <1>7, <3>2 DEF NoItem
    <3>3. CASE head # NoItem
      <4>1. ~BelowUpper(head.k, hi)
        BY <2>4, <3>3
      <4>2. BelowUpper(k, hi)
        BY <2>4 DEF InRange
      <4> HIDE DEF hi
      <4> QED BY <1>6, <3>1, <4>1, <4>2, AboveUpper
    <3> QED BY <3>2, <3>3
  <2>5. last \in 0..MaxKey
    BY <1>8
  <2>6. ReadAhead(loc[c].lo, loc[c].hi, item, last, OldOf(c), S) /\ Backed(mt, sst, loc[c].snap)
    BY <1>3, <1>9
  <2>7. \A k \in Key : InRange(k, loc[c].lo, loc[c].hi) => /\ k <= last => out[k] \in Shown(S[k])
                                                           /\ k > last  => out[k] = 0
    BY <2>1
  <2>8. ~valid => \A k \in Key : InRange(k, loc[c].lo, loc[c].hi) => k < HeadOf(c, item, last).k
    BY <2>4
  <2>9. valid => HeadOf(c, item, last) # NoItem
    BY <2>2
  <2> HIDE DEF item, valid, out, S, last
  <2>10. ScanFits(loc[c].lo, loc[c].hi, item, HeadOf(c, item, last), valid, out, OldOf(c), S)
    BY <2>5, <2>6, <2>7, <2>8, <2>9, HeadFits
  <2> QED BY <2>10
<1> DEFINE m == [l EXCEPT !.out = out, !.item = item, !.head = head, !.valid = valid]
<1>11. Goto(c, "scan.next", m)
  BY <1>2
<1>12. /\ m.snap = l.snap /\ m.lo = lo /\ m.hi = hi /\ m.item = item /\ m.head = head
       /\ m.valid = valid /\ m.out = out
  <2> HIDE DEF item, head, out, valid
  <2> QED BY <1>6
<1> HIDE DEF item, head, valid, out, S, m
<1>13. at'[c] = "scan.next" /\ loc'[c] = m
  BY <1>1, <1>11, Moved
<1>14. CloneSeen(c)' /\ OldOf(c)' = OldOf(c)
  BY <1>1, <1>2, <1>4, <1>12, <1>13, CloneSeenStays
<1>15. ScanFits(loc'[c].lo, loc'[c].hi, loc'[c].item, loc'[c].head, loc'[c].valid, loc'[c].out,
                OldOf(c)', seen'[c])
  BY <1>2, <1>10, <1>12, <1>13, <1>14 DEF S
<1> QED BY <1>13, <1>14, <1>15 DEF Watched

\* A scan that is at its end returned what it should; a read that returned is over.
LEMMA EndWatched ==
    ASSUME Engine, Watching, [Next]_vars, NEW c \in Client, ScanEnd(c) \/ ReadReturns(c)
    PROVE  Watched(c)'
<1>1. Control /\ c \in Thread /\ Watched(c)
  BY ThreadsApart DEF Engine, Watching
<1>2. CASE ReadReturns(c)
  <2>1. at'[c] = "idle"
    BY <1>1, <1>2, Moved DEF ReadReturns
  <2> QED BY <2>1 DEF Watched, Readers
<1>3. CASE ScanEnd(c)
  <2> DEFINE l == loc[c]
  <2>1. /\ at[c] = "scan.next" /\ ~l.valid /\ seen' = seen
        /\ Goto(c, "scanned", [op |-> "scan", lo |-> l.lo, hi |-> l.hi, out |-> l.out])
    BY <1>3 DEF ScanEnd, historyVars
  <2>2. ScanFits(l.lo, l.hi, l.item, l.head, l.valid, l.out, OldOf(c), seen[c])
    BY <1>1, <2>1 DEF Watched
  <2>3. \A k \in Key : InRange(k, l.lo, l.hi) => l.out[k] \in Shown(seen[c][k])
    BY <2>1, <2>2 DEF ScanFits
  <2> HIDE DEF l
  <2>4. at'[c] = "scanned" /\ loc'[c].lo = l.lo /\ loc'[c].hi = l.hi /\ loc'[c].out = l.out
    BY <1>1, <2>1, Moved
  <2> QED BY <2>1, <2>3, <2>4 DEF Watched, Readers
<1> QED BY <1>2, <1>3
-----------------------------------------------------------------------------
(* Every read, all the time.                                               *)

\* Every step keeps every read watched.
LEMMA WatchingStep ==
    ASSUME Contented, Watching, [Next]_vars
    PROVE  Watching'
<1>1. Engine /\ Control /\ Store /\ SeenTyped
  BY DEF Contented, Engine, Watching
<1>2. SeenTyped'
  BY <1>1, SeenGrows
<1>3. ASSUME NEW c \in Client PROVE Watched(c)'
  <2>1. CASE at'[c] = at[c] /\ loc'[c] = loc[c]
    BY <1>1, <2>1, WatchedStays
  <2>2. ASSUME NEW t \in Thread, OtherStep(t) \/ Merge(t) \/ Apply(t)
        PROVE  Watched(c)'
    <3>1. \E p, l : Goto(t, p, l) /\ p \notin ReadPlaces
      <4>1. CASE OtherStep(t)
        BY <4>1, OtherGoes
      <4>2. CASE Merge(t)
        <5>1. \E p \in {"panicked", "apply"} : \E l : Goto(t, p, l)
          BY <4>2 DEF Merge, Panic
        <5> QED BY <5>1 DEF ReadPlaces
      <4>3. CASE Apply(t)
        <5>1. \E p \in {"panicked", "install"} : \E l : Goto(t, p, l)
          BY <4>3 DEF Apply, Panic
        <5> QED BY <5>1 DEF ReadPlaces
      <4> QED BY <2>2, <4>1, <4>2, <4>3
    <3>2. PICK p, l : Goto(t, p, l) /\ p \notin ReadPlaces
      BY <3>1
    <3>3. CASE t = c
      <4>1. at'[c] = p
        BY <1>1, <3>2, <3>3, Moved
      <4> QED BY <3>2, <4>1 DEF Watched, Readers, ReadPlaces
    <3>4. CASE t # c
      <4>1. at'[c] = at[c] /\ loc'[c] = loc[c]
        BY <1>1, <3>2, <3>4, ThreadsApart, Moved
      <4> QED BY <1>1, <4>1, WatchedStays
    <3> QED BY <3>3, <3>4
  <2>3. ASSUME NEW d \in Client, ReadStep(d)
        PROVE  Watched(c)'
    <3>1. CASE d = c
      <4>1. \/ Get(c) \/ Scan(c) \/ GetMemtable(c) \/ GetOld(c) \/ ScanOpen(c)
            \/ ScanNext(c) \/ ScanEnd(c) \/ ReadReturns(c)
        BY <2>3, <3>1 DEF ReadStep
      <4> QED BY <1>1, <4>1, CloneWatched, GetWatched, ScanOpenWatched, ScanNextWatched, EndWatched
    <3>2. CASE d # c
      <4>1. PICK p, l : Goto(d, p, l)
        BY <2>3, ReadGoes
      <4>2. at'[c] = at[c] /\ loc'[c] = loc[c]
        BY <1>1, <3>2, <4>1, ThreadsApart, Moved
      <4> QED BY <1>1, <4>2, WatchedStays
    <3> QED BY <3>1, <3>2
  <2>4. ASSUME NEW d \in Client, Open(d)
        PROVE  Watched(c)'
    <3>1. CASE Opened.ok
      <4>1. at'[c] \in {"idle", "stopped"}
        BY <1>1, <2>4, <3>1, OpenIs, ThreadsApart
      <4> QED BY <4>1 DEF Watched, Readers
    <3>2. CASE ~Opened.ok
      <4>1. at'[c] = at[c] /\ loc'[c] = loc[c]
        BY <2>4, <3>2 DEF Open, threadVars
      <4> QED BY <1>1, <4>1, WatchedStays
    <3> QED BY <3>1, <3>2
  <2>5. UNCHANGED vars => at'[c] = at[c] /\ loc'[c] = loc[c]
    BY DEF vars, threadVars
  <2> QED BY <1>1, <2>1, <2>2, <2>3, <2>4, <2>5, NextGoes
<1> QED BY <1>2, <1>3 DEF Watching

\* Nobody reads at the start.
LEMMA WatchingInit ==
    ASSUME Init
    PROVE  Watching
<1>1. SeenTyped
  BY DEF Init, SeenTyped
<1>2. ASSUME NEW c \in Client PROVE at[c] \in {"idle", "stopped"}
  BY <1>2, ThreadsApart DEF Init, Start
<1>3. ASSUME NEW c \in Client PROVE Watched(c)
  BY <1>2 DEF Watched, Readers
<1> QED BY <1>1, <1>3 DEF Watching

\* Always every read is watched: what its clone says, what it found and what its
\* iterator read ahead was current at some moment since the call.
THEOREM WatchingHolds == Spec => []Watching
<1>1. Init => Watching
  BY WatchingInit
<1>2. Contented /\ Watching /\ [Next]_vars => Watching'
  BY WatchingStep
<1> QED BY <1>1, <1>2, ContentedHolds, PTL DEF Spec

\* A get and a scan return, for every key they cover, what it held at some moment
\* between their call and their return, although they hold no lock.
THEOREM Windows == Spec => []ReadsInWindow
<1>1. Watching => ReadsInWindow
  BY DEF Watching, Watched, ReadsInWindow, GetInWindow, ScanInWindow, Shown
<1> QED BY <1>1, WatchingHolds, PTL

=============================================================================
