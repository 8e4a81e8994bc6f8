-------------------------- MODULE Week2StepProofs --------------------------
(***************************************************************************)
(* Proofs about Week2, for any set of clients, keys, settings, limits and  *)
(* ranges: the invariants that everything else rests on, and the steps     *)
(* that keep them without replacing a table of the state.                  *)
(*                                                                         *)
(* Control says of every thread that its place, its locals, the mode and   *)
(* the owner of state_lock fit together.  Store says that memtables and    *)
(* tables have ids of their own in the order of their age, that whatever a *)
(* state, a clone, a task or a thread refers to exists and is named once,  *)
(* that what a thread is about to install fits the state as it is now, and *)
(* that replaying the manifest yields the tables of the state.             *)
(***************************************************************************)
EXTENDS Week2, FiniteSetTheorems, SequenceTheorems, WellFoundedInduction, TLAPS

-----------------------------------------------------------------------------
(* Where threads are.                                                      *)

Entry    == -writes..writes
Table    == [Key -> Int]
Memtable == [data : Table, size : Nat]
State    == [mem : Nat, imm : Seq(Nat), l0 : Seq(Nat), levels : Seq(Seq(Nat))]
Record   == [k : Key, del : BOOLEAN]
Item     == [k : 1..MaxKey + 1, e : Int]
Task     == [upper : 0..MaxLevels, us : Seq(Nat), lower : 1..MaxLevels, ls : Seq(Nat),
             bottom : BOOLEAN]

\* The locals of write_batch.
WriteLocals == [op : {"write"}, todo : Seq(Record), mem : Nat, k : Key, e : Int,
                before : SUBSET Int, new : Nat]

\* Who flushes.
FlushOps == {"force_flush", "tick", "close"}

\* The places at which a thread owns state_lock.
Holding == {"swap", "flush.install", "install"}

\* The places behind the joins of close.
PastJoins == {"close.memtable", "close.synced", "close.drain", "flush", "flush.install"}

\* What the locals l hold at the place p.
LocalsFit(p, l) ==
    \/ p \in {"idle", "stopped", "panicked"} /\ l.op = "none"
    \/ p \in {"append", "freeze"} /\ l \in WriteLocals
    \/ p = "insert" /\ l \in WriteLocals /\ l.todo # <<>>
    \/ p = "swap" /\ l \in WriteLocals \cup [op : {"force_flush"}, new : Nat]
    \/ p \in {"ff.lock", "ff.check"} /\ l.op = "force_flush"
    \/ p = "flush" /\ l.op \in FlushOps
    \/ p = "flush.install" /\ l \in [op : FlushOps, id : Nat]
    \/ p \in {"close.join_compactor", "close.join_flusher", "close.memtable",
              "close.synced", "close.drain"} /\ l.op = "close"
    \/ p \in {"merge", "remove"} /\ l \in [op : {"compact"}, task : Task]
    \/ p = "apply" /\ l \in [op : {"compact"}, task : Task, ids : Seq(Nat)]
    \/ p = "install" /\ l \in [op : {"compact"}, task : Task, ids : Seq(Nat), st : State]
    \/ p \in {"get.mem", "get.old"} /\ l \in [op : {"get"}, k : Key, snap : State]
    \/ p = "got" /\ l \in [op : {"get"}, k : Key, val : Int]
    \/ p = "scan.open" /\ l \in [op : {"scan"}, snap : State, lo : Bound, hi : Bound]
    \/ p = "scan.next" /\ l \in [op : {"scan"}, snap : State, lo : Bound, hi : Bound,
                                 item : Item, head : Item, valid : BOOLEAN, out : Table]
    \/ p = "scanned" /\ l \in [op : {"scan"}, lo : Bound, hi : Bound, out : Table]

\* Which thread may be there.
ThreadFits(t, p, l) ==
    /\ t = Flusher => /\ p \in {"idle", "flush", "flush.install", "stopped", "panicked"}
                      /\ l.op \in {"none", "tick"}
    /\ t = Compactor => p \in {"idle", "merge", "apply", "install", "remove",
                               "stopped", "panicked"}
    /\ t \in Client => p # "stopped" /\ l.op # "tick"
    /\ t = Compactor /\ ~setting.simple => p = "stopped"
    /\ t \in Client /\ setting.simple => l.op # "compact"

\* What is going on while the engine is in the mode m.
ModeFits(m, t, p, l) ==
    /\ m = "open" => l.op # "close"
    /\ m = "open" /\ p = "stopped" => t = Compactor /\ ~setting.simple
    /\ m # "open" /\ t \in Client => l.op \notin {"write", "force_flush", "compact"}
    /\ m \in {"closed", "failed"} => l.op # "close"
    /\ m = "failed" => p \in IF t \in Client THEN {"idle", "panicked"} ELSE {"stopped", "panicked"}

\* Place, locals, mode and state_lock fit together.
ThreadOK(t) ==
    /\ LocalsFit(at[t], loc[t])
    /\ ThreadFits(t, at[t], loc[t])
    /\ ModeFits(mode, t, at[t], loc[t])
    /\ lock = t <=> at[t] \in Holding

\* Control variables have their types.
Typed ==
    /\ setting \in Setting
    /\ mode \in {"open", "closing", "closed", "failed"}
    /\ closed \in {"none", "ok", "err"}
    /\ lock \in Thread \cup {Nobody}
    /\ DOMAIN at = Thread /\ DOMAIN loc = Thread
    /\ left \in [Calls -> Nat]
    /\ writes \in Nat
    /\ done \in [Key -> SUBSET Int]

\* One client closes; behind a join the thread has stopped.
OneCloses ==
    /\ stop = IF mode = "open" THEN {} ELSE {Flusher, Compactor}
    /\ \A c, d \in Client : loc[c].op = "close" /\ loc[d].op = "close" => c = d
    /\ \A c \in Client : loc[c].op = "close" =>
          /\ at[c] # "close.join_compactor" => at[Compactor] = "stopped"
          /\ at[c] \in PastJoins => at[Flusher] = "stopped"

\* Who does what, and who owns state_lock.
Control == Typed /\ OneCloses /\ \A t \in Thread : ThreadOK(t)

-----------------------------------------------------------------------------
(* Memtables, tables and files.                                            *)

\* No id twice.
Distinct(s) == \A p, q \in DOMAIN s : p # q => s[p] # s[q]

\* The memtables of the state.
MemIds == Ids(st.imm) \cup {st.mem}

\* Threads with a task, threads with tables built for one, readers with a clone.
Compacting == {t \in Thread : at[t] \in {"merge", "apply", "install", "remove"}}
Builders     == {t \in Thread : at[t] \in {"apply", "install"}}
Readers    == {c \in Client : at[c] \in {"get.mem", "get.old", "scan.open", "scan.next"}}

\* The tables a thread has built, and those its task takes.
Outputs(t) == Ids(loc[t].ids)
Taken(t)   == Ids(Inputs(loc[t].task))

\* The tables that a state, a task or a clone refers to.
Held == TableIds(st) \cup (UNION {TableIds(loc[c].snap) : c \in Readers})
        \cup (UNION {Taken(t) : t \in Compacting}) \cup (UNION {Outputs(t) : t \in Builders})

\* Ids are below the next one, and tables hold entries that were written.
StoreTyped ==
    /\ st \in State
    /\ Len(st.levels) = IF setting.simple THEN MaxLevels ELSE 1
    /\ nextId \in Nat
    /\ mt \in [DOMAIN mt -> Memtable] /\ DOMAIN mt \subseteq 0..(nextId - 1)
    /\ sst \in [DOMAIN sst -> Table]
    /\ wal \in [DOMAIN wal -> Seq([k : Key, e : Int])] /\ DOMAIN wal \subseteq 0..(nextId - 1)
    /\ \A i \in DOMAIN mt, k \in Key : mt[i].data[k] \in Entry
    /\ \A i \in DOMAIN sst, k \in Key : sst[i][k] \in Entry
    /\ \A i \in DOMAIN wal : \A n \in DOMAIN wal[i] : wal[i][n].e \in Entry
    /\ \A c \in Client : at[c] = "append" => loc[c].e \in Entry

\* Memtables are in the order of their ids, the current one first.
Memtables ==
    /\ MemIds \subseteq DOMAIN mt
    /\ \A p, q \in DOMAIN st.imm : p < q => st.imm[p] > st.imm[q]
    /\ \A i \in Ids(st.imm) : i < st.mem
    /\ \A c \in Client : at[c] = "append" => loc[c].mem = st.mem
    /\ \A c \in Client : at[c] = "swap" =>
          /\ loc[c].new \in DOMAIN mt /\ mt[loc[c].new] = EmptyMemtable
          /\ loc[c].new > st.mem /\ loc[c].new \notin Held

\* No table is in two places.
Apart(s) ==
    /\ Distinct(s.l0)
    /\ \A i \in DOMAIN s.levels : Ids(s.l0) \cap Ids(s.levels[i]) = {}
    /\ \A i, j \in DOMAIN s.levels : i # j => Ids(s.levels[i]) \cap Ids(s.levels[j]) = {}

\* The tables of the state are apart.
TablesApart == Apart(st)

\* A table that somebody refers to stays what it is, and its file while it is in use.
TablesHeld ==
    /\ Held \subseteq DOMAIN sst \cap 0..(nextId - 1)
    /\ Held \cap MemIds = {}
    /\ TableIds(st) \subseteq files

\* What threads have built is theirs, and what they install fits the state.
Jobs ==
    /\ \A t \in Builders : /\ Outputs(t) \subseteq files /\ Outputs(t) \cap TableIds(st) = {}
    /\ \A t \in Builders, u \in Compacting : Outputs(t) \cap Taken(u) = {}
    /\ \A t, u \in Builders : t # u => Outputs(t) \cap Outputs(u) = {}
    /\ \A t \in Compacting : at[t] = "remove" => Taken(t) \cap TableIds(st) = {}
    /\ \A t \in Builders : at[t] = "install" =>
          /\ InputsInPlace(st, loc[t].task)
          /\ loc[t].st = Applied(st, loc[t].task, loc[t].ids)
    /\ \A t \in Thread : at[t] = "flush.install" =>
          /\ st.imm # <<>> /\ loc[t].id = Last(st.imm)
          /\ loc[t].id \in DOMAIN sst \cap files
          /\ sst[loc[t].id] = mt[loc[t].id].data

\* A task takes a level and the next one, and a bottom task the last one.
TasksFit ==
    \A t \in Compacting :
        LET task == loc[t].task IN
        /\ task.lower = task.upper + 1 /\ task.lower <= Len(st.levels)
        /\ task.bottom => task.lower = Len(st.levels)

\* The inputs that a task took from L0 are the oldest there.
InputsLast ==
    \A t \in Thread :
        at[t] \in {"merge", "apply", "install"} /\ loc[t].task.upper = 0
        /\ Ids(loc[t].task.us) \subseteq Ids(st.l0) =>
            \E u \in Seq(Nat) : st.l0 = u \o loc[t].task.us

\* A clone has the levels of the state, and its memtables still exist.
Clones ==
    \A c \in Readers :
        LET s == loc[c].snap IN
        /\ Len(s.levels) = Len(st.levels)
        /\ s.mem \in DOMAIN mt /\ Ids(s.imm) \subseteq DOMAIN mt
        /\ s.mem <= st.mem /\ \A i \in Ids(s.imm) : i < s.mem

\* Every memtable has its log, if there are logs.
LogsKept ==
    IF setting.wal
    THEN /\ MemIds \subseteq DOMAIN wal
         /\ \A c \in Client : at[c] = "swap" => loc[c].new \in DOMAIN wal /\ wal[loc[c].new] = <<>>
    ELSE DOMAIN wal = {}

\* The ids of memtables that are about to become current.
Coming == {loc[c].new : c \in {d \in Client : at[d] = "swap"}}

\* What the manifest records.
ManifestRecord ==
    [kind : {"new", "flush"}, id : Nat] \cup [kind : {"compact", "full"}, task : Task, ids : Seq(Nat)]

\* No full compaction was recorded.
NoFull == \A n \in DOMAIN manifest : manifest[n].kind # "full"

\* Until close has frozen it the memtable has a record.
Recording == \/ mode = "open"
             \/ \E c \in Client : at[c] \in {"close.join_compactor", "close.join_flusher", "close.memtable"}

\* What replaying the manifest finds is what is in memory.
Replays ==
    /\ manifest \in Seq(ManifestRecord)
    /\ IF NoFull
       THEN /\ Replay.ok
            /\ Replay.s = [mem |-> 0, imm |-> <<>>, l0 |-> st.l0, levels |-> st.levels]
            /\ Replay.mems \subseteq Replay.ids
            /\ Ids(st.imm) \subseteq Replay.mems
            /\ TableIds(st) \subseteq Replay.ids
            /\ 1 \in Replay.ids /\ Replay.ids \subseteq 0..nextId
            /\ setting.wal =>
                  /\ st.mem \in Replay.mems
                  /\ DOMAIN wal = Replay.mems \cup Coming
                  /\ \A i \in Replay.mems \ MemIds : Recovered(wal[i]) = Nothing
            /\ Recording => st.mem \in Replay.mems
       ELSE ~Replay.ok

\* What memory, files, logs and manifest say of each other.
Store ==
    /\ StoreTyped /\ Memtables /\ TablesApart /\ TablesHeld /\ Jobs /\ TasksFit /\ InputsLast
    /\ Clones /\ LogsKept /\ Replays

-----------------------------------------------------------------------------
(* Sequences of ids.                                                       *)

\* A non-empty set of naturals has a least element.
LEMMA LeastOf ==
    ASSUME NEW S \in SUBSET Nat, S # {}
    PROVE  \E m \in S : \A x \in S : m <= x
<1> DEFINE Less == {p \in Nat \X Nat : p[1] < p[2]}
<1>1. IsWellFoundedOn(Less, Nat)
  BY NatLessThanWellFounded DEF OpToRel
<1>2. PICK m \in S : \A x \in S : ~ (<<x, m>> \in Less)
  BY <1>1, WFMin
<1>3. m \in Nat /\ \A x \in S : x \in Nat /\ ~(x < m)
  BY <1>2
<1>4. \A x \in S : m <= x
  BY <1>3
<1> QED BY <1>4

\* The ids of a sequence are those of its pieces.
LEMMA IdsOf ==
    /\ Ids(<<>>) = {}
    /\ \A i \in Nat : Ids(<<i>>) = {i}
    /\ \A s, t \in Seq(Nat) : Ids(s \o t) = Ids(s) \cup Ids(t)
    /\ \A s \in Seq(Nat) : Ids(s) \subseteq Nat
    /\ \A s \in Seq(Nat) : Ids(s) = {s[p] : p \in DOMAIN s}
<1>1. ASSUME NEW s \in Seq(Nat), NEW t \in Seq(Nat) PROVE Ids(s \o t) = Ids(s) \cup Ids(t)
  <2>1. Len(s) \in Nat /\ Len(t) \in Nat /\ Len(s \o t) = Len(s) + Len(t)
    OBVIOUS
  <2>2. \A i \in 1..Len(s) : (s \o t)[i] = s[i] /\ i \in 1..Len(s \o t)
    BY <2>1
  <2>3. \A i \in 1..Len(t) : (s \o t)[Len(s) + i] = t[i] /\ Len(s) + i \in 1..Len(s \o t)
    BY <2>1
  <2>4. \A i \in 1..Len(s \o t) : \/ i \in 1..Len(s) /\ (s \o t)[i] = s[i]
                                  \/ i - Len(s) \in 1..Len(t) /\ (s \o t)[i] = t[i - Len(s)]
    BY <2>1
  <2>5. Ids(s \o t) \subseteq Ids(s) \cup Ids(t)
    BY <2>4 DEF Ids
  <2>6. Ids(s) \subseteq Ids(s \o t) /\ Ids(t) \subseteq Ids(s \o t)
    BY <2>2, <2>3 DEF Ids
  <2> QED BY <2>5, <2>6
<1>2. Ids(<<>>) = {}
  BY DEF Ids
<1>3. \A i \in Nat : Ids(<<i>>) = {i}
  BY DEF Ids
<1>4. \A s \in Seq(Nat) : Ids(s) \subseteq Nat
  BY DEF Ids
<1>5. \A s \in Seq(Nat) : Ids(s) = {s[p] : p \in DOMAIN s}
  BY DEF Ids
<1> QED BY <1>1, <1>2, <1>3, <1>4, <1>5

\* A sequence with an element in front.
LEMMA Prepended ==
    ASSUME NEW i \in Nat, NEW s \in Seq(Nat)
    PROVE  /\ <<i>> \o s \in Seq(Nat)
           /\ Len(<<i>> \o s) = Len(s) + 1
           /\ (<<i>> \o s)[1] = i
           /\ \A p \in 1..Len(s) : (<<i>> \o s)[p + 1] = s[p]
           /\ \A p \in 2..Len(s) + 1 : (<<i>> \o s)[p] = s[p - 1]
           /\ Ids(<<i>> \o s) = {i} \cup Ids(s)
<1>1. Ids(<<i>> \o s) = {i} \cup Ids(s)
  BY IdsOf, <<i>> \in Seq(Nat)
<1> QED BY <1>1

\* A sequence without its last element.
LEMMA FrontOf ==
    ASSUME NEW s \in Seq(Nat), s # <<>>
    PROVE  /\ Front(s) \in Seq(Nat) /\ Len(Front(s)) = Len(s) - 1
           /\ Len(s) \in Nat \ {0}
           /\ \A p \in 1..Len(s) - 1 : Front(s)[p] = s[p]
           /\ Last(s) = s[Len(s)] /\ Last(s) \in Ids(s) /\ Last(s) \in Nat
           /\ Ids(s) = Ids(Front(s)) \cup {Last(s)}
           /\ s = Front(s) \o <<Last(s)>>
<1>1. Len(s) \in Nat \ {0}
  OBVIOUS
<1>2. /\ Front(s) \in Seq(Nat) /\ Len(Front(s)) = Len(s) - 1
      /\ \A p \in 1..Len(s) - 1 : Front(s)[p] = s[p]
  <2> DEFINE m == Len(s) - 1
  <2>1. m \in Int /\ 1 \in Int /\ \A p \in 1..m : s[p] \in Nat
    BY <1>1
  <2>2. /\ SubSeq(s, 1, m) \in Seq(Nat)
        /\ Len(SubSeq(s, 1, m)) = IF 1 <= m THEN m - 1 + 1 ELSE 0
        /\ \A p \in 1..m - 1 + 1 : SubSeq(s, 1, m)[p] = s[1 + p - 1]
    BY <2>1, SubSeqProperties
  <2>3. m \in Nat /\ m - 1 + 1 = m /\ \A p \in 1..m : 1 + p - 1 = p
    BY <1>1
  <2>4. Len(SubSeq(s, 1, m)) = m /\ \A p \in 1..m : SubSeq(s, 1, m)[p] = s[p]
    BY <2>2, <2>3
  <2> QED BY <2>2, <2>4 DEF Front
<1>3. Ids(s) = Ids(Front(s)) \cup {s[Len(s)]}
  <2>1. \A p \in 1..Len(s) : p \in 1..Len(Front(s)) \/ p = Len(s)
    BY <1>1, <1>2
  <2>2. \A p \in 1..Len(Front(s)) : p \in 1..Len(s) /\ Front(s)[p] = s[p]
    BY <1>1, <1>2
  <2>3. Len(s) \in 1..Len(s)
    BY <1>1
  <2>4. Ids(s) \subseteq Ids(Front(s)) \cup {s[Len(s)]}
    BY <2>1, <2>2 DEF Ids
  <2>5. Ids(Front(s)) \subseteq Ids(s) /\ s[Len(s)] \in Ids(s)
    BY <2>2, <2>3 DEF Ids
  <2> QED BY <2>4, <2>5
<1>4. Last(s) = s[Len(s)] /\ Last(s) \in Nat
  BY <1>1 DEF Last
<1>5. s = Front(s) \o <<Last(s)>>
  <2>1. Front(s) \o <<Last(s)>> \in Seq(Nat) /\ Len(Front(s) \o <<Last(s)>>) = Len(s)
    BY <1>1, <1>2, <1>4
  <2>2. \A p \in 1..Len(s) : (Front(s) \o <<Last(s)>>)[p] = s[p]
    BY <1>1, <1>2, <1>4
  <2> QED BY <2>1, <2>2, SeqEqual
<1> QED BY <1>1, <1>2, <1>3, <1>4, <1>5

-----------------------------------------------------------------------------
(* The first table that has a key.                                         *)

\* Newest gives the entry of the first table that has one, and 0 if none has.
LEMMA NewestOf ==
    ASSUME NEW T \in Seq(Table), NEW k \in Key
    PROVE  /\ Newest(T, k) \in Int
           /\ Newest(T, k) = 0 <=> \A i \in 1..Len(T) : T[i][k] = 0
           /\ \A i \in 1..Len(T) : T[i][k] # 0 /\ (\A j \in 1..Len(T) : j < i => T[j][k] = 0)
                                      => Newest(T, k) = T[i][k]
           /\ Newest(T, k) # 0 => \E i \in 1..Len(T) :
                 /\ Newest(T, k) = T[i][k] /\ T[i][k] # 0
                 /\ \A j \in 1..Len(T) : j < i => T[j][k] = 0
<1> DEFINE having == {i \in 1..Len(T) : T[i][k] # 0}
           first  == CHOOSE i \in having : \A j \in having : i <= j
<1>1. Len(T) \in Nat /\ \A i \in 1..Len(T) : T[i][k] \in Int
  <2>1. \A i \in 1..Len(T) : T[i] \in Table
    OBVIOUS
  <2> QED BY <2>1 DEF Table
<1>2. Newest(T, k) = IF having = {} THEN 0 ELSE T[first][k]
  BY DEF Newest
<1>3. CASE having = {}
  BY <1>2, <1>3
<1>4. CASE having # {}
  <2>1. having \in SUBSET Nat
    BY <1>1
  <2>2. \E i \in having : \A j \in having : i <= j
    <3> HIDE DEF having
    <3> QED BY <1>4, <2>1, LeastOf
  <2>3. first \in having /\ \A j \in having : first <= j
    <3> HIDE DEF having
    <3> QED BY <2>2
  <2> DEFINE f == first
  <2>4. f \in 1..Len(T) /\ T[f][k] # 0 /\ \A j \in 1..Len(T) : T[j][k] # 0 => f <= j
    BY <2>3
  <2>5. Newest(T, k) = T[f][k]
    BY <1>2, <1>4
  <2> HIDE DEF f, having
  <2>6. \A j \in 1..Len(T) : j < f => T[j][k] = 0
    BY <1>1, <2>4
  <2>7. ASSUME NEW i \in 1..Len(T), T[i][k] # 0, \A j \in 1..Len(T) : j < i => T[j][k] = 0
        PROVE  i = f
    BY <1>1, <2>4, <2>7
  <2> QED BY <1>1, <2>4, <2>5, <2>6, <2>7
<1> QED BY <1>3, <1>4

\* Sequences of tables with the same entries for a key read alike.
LEMMA NewestSame ==
    ASSUME NEW T \in Seq(Table), NEW U \in Seq(Table), NEW k \in Key, Len(T) = Len(U),
           \A i \in 1..Len(T) : T[i][k] = U[i][k]
    PROVE  Newest(T, k) = Newest(U, k)
<1>1. CASE Newest(T, k) = 0
  <2>1. \A i \in 1..Len(U) : U[i][k] = 0
    BY <1>1, NewestOf
  <2> QED BY <1>1, <2>1, NewestOf
<1>2. CASE Newest(T, k) # 0
  <2>1. PICK i \in 1..Len(T) : /\ Newest(T, k) = T[i][k] /\ T[i][k] # 0
                               /\ \A j \in 1..Len(T) : j < i => T[j][k] = 0
    BY <1>2, NewestOf
  <2>2. i \in 1..Len(U) /\ U[i][k] # 0 /\ \A j \in 1..Len(U) : j < i => U[j][k] = 0
    BY <2>1
  <2>3. Newest(U, k) = U[i][k]
    BY <2>2, NewestOf
  <2> QED BY <2>1, <2>3
<1> QED BY <1>1, <1>2

\* The first of two entries, if there is one, otherwise the second.
Or(a, b) == IF a # 0 THEN a ELSE b

\* Tables in front of others are asked first.
LEMMA NewestJoined ==
    ASSUME NEW T \in Seq(Table), NEW U \in Seq(Table), NEW k \in Key
    PROVE  Newest(T \o U, k) = Or(Newest(T, k), Newest(U, k))
<1> DEFINE J == T \o U
<1>1. /\ J \in Seq(Table) /\ Len(J) = Len(T) + Len(U) /\ Len(T) \in Nat /\ Len(U) \in Nat
      /\ \A i \in 1..Len(T) : J[i] = T[i]
      /\ \A i \in 1..Len(U) : J[Len(T) + i] = U[i]
      /\ \A i \in 1..Len(J) : i \notin 1..Len(T) => i - Len(T) \in 1..Len(U) /\ J[i] = U[i - Len(T)]
  OBVIOUS
<1> HIDE DEF J
<1>2. CASE Newest(T, k) # 0
  <2>1. PICK i \in 1..Len(T) : /\ Newest(T, k) = T[i][k] /\ T[i][k] # 0
                               /\ \A j \in 1..Len(T) : j < i => T[j][k] = 0
    BY <1>2, NewestOf
  <2>2. i \in 1..Len(J) /\ J[i][k] = T[i][k] /\ \A j \in 1..Len(J) : j < i => J[j][k] = 0
    <3>1. \A j \in 1..Len(J) : j < i => j \in 1..Len(T)
      BY <1>1
    <3>2. i \in 1..Len(J) /\ J[i][k] = T[i][k]
      BY <1>1
    <3>3. ASSUME NEW j \in 1..Len(J), j < i PROVE J[j][k] = 0
      BY <1>1, <2>1, <3>1, <3>3
    <3> QED BY <3>2, <3>3
  <2>3. Newest(J, k) = J[i][k]
    BY <1>1, <2>1, <2>2, NewestOf
  <2> QED BY <1>2, <2>1, <2>2, <2>3 DEF J, Or
<1>3. CASE Newest(T, k) = 0 /\ Newest(U, k) # 0
  <2>1. \A i \in 1..Len(T) : T[i][k] = 0
    BY <1>3, NewestOf
  <2>2. PICK i \in 1..Len(U) : /\ Newest(U, k) = U[i][k] /\ U[i][k] # 0
                               /\ \A j \in 1..Len(U) : j < i => U[j][k] = 0
    BY <1>3, NewestOf
  <2> DEFINE n == Len(T) + i
  <2>3. n \in 1..Len(J) /\ J[n][k] = U[i][k]
    BY <1>1
  <2>4. ASSUME NEW j \in 1..Len(J), j < n PROVE J[j][k] = 0
    <3>1. CASE j \in 1..Len(T)
      BY <1>1, <2>1, <3>1
    <3>2. CASE j \notin 1..Len(T)
      <4>1. j - Len(T) \in 1..Len(U) /\ J[j] = U[j - Len(T)] /\ j - Len(T) < i
        BY <1>1, <2>4, <3>2
      <4> QED BY <2>2, <4>1
    <3> QED BY <3>1, <3>2
  <2> HIDE DEF n
  <2>5. Newest(J, k) = J[n][k]
    BY <1>1, <2>2, <2>3, <2>4, NewestOf
  <2> QED BY <1>3, <2>2, <2>3, <2>5 DEF J, Or
<1>4. CASE Newest(T, k) = 0 /\ Newest(U, k) = 0
  <2>1. \A i \in 1..Len(T) : T[i][k] = 0
    BY <1>4, NewestOf
  <2>2. \A i \in 1..Len(U) : U[i][k] = 0
    BY <1>4, NewestOf
  <2>3. \A i \in 1..Len(J) : J[i][k] = 0
    BY <1>1, <2>1, <2>2
  <2>4. Newest(J, k) = 0
    BY <1>1, <2>3, NewestOf
  <2> QED BY <1>4, <2>4 DEF J, Or
<1> QED BY <1>2, <1>3, <1>4

\* No table has nothing, and one table has what it holds.
LEMMA NewestSmall ==
    ASSUME NEW k \in Key
    PROVE  Newest(<<>>, k) = 0 /\ \A d \in Table : Newest(<<d>>, k) = d[k]
<1>1. Newest(<<>>, k) = 0
  <2> DEFINE T == <<>>
  <2>1. T \in Seq(Table) /\ Len(T) = 0 /\ 1..Len(T) = {}
    OBVIOUS
  <2> HIDE DEF T
  <2>2. Newest(T, k) = 0
    BY <2>1, NewestOf
  <2> QED BY <2>2 DEF T
<1>2. ASSUME NEW d \in Table PROVE Newest(<<d>>, k) = d[k]
  <2> DEFINE T == <<d>>
  <2>1. T \in Seq(Table) /\ Len(T) = 1 /\ T[1][k] = d[k]
    OBVIOUS
  <2> HIDE DEF T
  <2>2. CASE d[k] = 0
    <3>1. \A i \in 1..Len(T) : T[i][k] = 0
      BY <2>1, <2>2
    <3> QED BY <2>1, <2>2, <3>1, NewestOf DEF T
  <2>3. CASE d[k] # 0
    <3>1. 1 \in 1..Len(T) /\ \A j \in 1..Len(T) : j < 1 => T[j][k] = 0
      BY <2>1
    <3> QED BY <2>1, <2>3, <3>1, NewestOf DEF T
  <2> QED BY <2>2, <2>3
<1> QED BY <1>1, <1>2

\* The entry for k that the tables ids give in f.
Lookup(f, ids, k) == Newest([i \in 1..Len(ids) |-> f[ids[i]]], k)

\* All tables of the ids are at hand.
AtHand(f, ids) == ids \in Seq(Nat) /\ \A i \in Ids(ids) : i \in DOMAIN f /\ f[i] \in Table

\* The tables of some ids are a sequence of tables.
LEMMA TablesOf ==
    ASSUME NEW f, NEW ids, AtHand(f, ids)
    PROVE  /\ [i \in 1..Len(ids) |-> f[ids[i]]] \in Seq(Table)
           /\ Len([i \in 1..Len(ids) |-> f[ids[i]]]) = Len(ids)
<1>1. Len(ids) \in Nat
  BY DEF AtHand
<1>2. \A i \in 1..Len(ids) : f[ids[i]] \in Table
  BY DEF AtHand, Ids
<1> QED BY <1>1, <1>2

\* Where two stores have the same tables the ids give the same.
LEMMA LookupSame ==
    ASSUME NEW f, NEW g, NEW ids, \A i \in Ids(ids) : f[i] = g[i]
    PROVE  [i \in 1..Len(ids) |-> f[ids[i]]] = [i \in 1..Len(ids) |-> g[ids[i]]]
BY DEF Ids

\* The tables of ids in front of others are asked first.
LEMMA LookupJoined ==
    ASSUME NEW f, NEW u, NEW v, AtHand(f, u), AtHand(f, v), NEW k \in Key
    PROVE  Lookup(f, u \o v, k) = Or(Lookup(f, u, k), Lookup(f, v, k))
<1> DEFINE T(ids) == [i \in 1..Len(ids) |-> f[ids[i]]]
<1>1. u \in Seq(Nat) /\ v \in Seq(Nat)
  BY DEF AtHand
<1>2. T(u) \in Seq(Table) /\ T(v) \in Seq(Table) /\ Len(T(u)) = Len(u) /\ Len(T(v)) = Len(v)
  BY TablesOf
<1>3. T(u \o v) = T(u) \o T(v)
  <2>1. Len(u \o v) = Len(u) + Len(v) /\ Len(u) \in Nat /\ Len(v) \in Nat
    BY <1>1
  <2>2. \A i \in 1..Len(u) + Len(v) : (u \o v)[i] = IF i <= Len(u) THEN u[i] ELSE v[i - Len(u)]
    BY <1>1
  <2>3. /\ Len(T(u) \o T(v)) = Len(u) + Len(v) /\ T(u) \o T(v) \in Seq(Table)
        /\ \A i \in 1..Len(u) + Len(v) :
              (T(u) \o T(v))[i] = IF i <= Len(u) THEN T(u)[i] ELSE T(v)[i - Len(u)]
    <3> HIDE DEF T
    <3> QED BY <1>2, <2>1
  <2>4. \A i \in 1..Len(u) + Len(v) : f[(u \o v)[i]] = IF i <= Len(u) THEN T(u)[i] ELSE T(v)[i - Len(u)]
    BY <2>1, <2>2
  <2>5. T(u \o v) \in Seq(Table) /\ Len(T(u \o v)) = Len(u) + Len(v)
    <3>1. u \o v \in Seq(Nat) /\ Ids(u \o v) = Ids(u) \cup Ids(v)
      BY <1>1, IdsOf
    <3>2. AtHand(f, u \o v)
      BY <3>1 DEF AtHand
    <3> QED BY <2>1, <3>2, TablesOf
  <2>6. \A i \in 1..Len(u) + Len(v) : T(u \o v)[i] = (T(u) \o T(v))[i]
    BY <2>1, <2>3, <2>4
  <2> HIDE DEF T
  <2> QED BY <2>3, <2>5, <2>6, SeqEqual
<1>4. Newest(T(u) \o T(v), k) = Or(Newest(T(u), k), Newest(T(v), k))
  <2> HIDE DEF T
  <2> QED BY <1>2, NewestJoined
<1> QED BY <1>3, <1>4 DEF Lookup

\* No id has nothing, and one id what its table holds.
LEMMA LookupSmall ==
    ASSUME NEW f, NEW k \in Key
    PROVE  /\ Lookup(f, <<>>, k) = 0
           /\ \A i : f[i] \in Table => Lookup(f, <<i>>, k) = f[i][k]
<1>1. Lookup(f, <<>>, k) = 0
  <2>1. [i \in 1..Len(<<>>) |-> f[(<<>>)[i]]] = <<>>
    OBVIOUS
  <2> QED BY <2>1, NewestSmall DEF Lookup
<1>2. ASSUME NEW i, f[i] \in Table PROVE Lookup(f, <<i>>, k) = f[i][k]
  <2>1. [j \in 1..Len(<<i>>) |-> f[(<<i>>)[j]]] = <<f[i]>>
    OBVIOUS
  <2> QED BY <1>2, <2>1, NewestSmall DEF Lookup
<1> QED BY <1>1, <1>2

\* What a lookup gives is an entry of one of the tables.
LEMMA LookupType ==
    ASSUME NEW f, NEW ids, AtHand(f, ids), NEW k \in Key
    PROVE  /\ Lookup(f, ids, k) \in Int
           /\ Lookup(f, ids, k) = 0 <=> \A i \in Ids(ids) : f[i][k] = 0
           /\ Lookup(f, ids, k) # 0 => \E i \in Ids(ids) : Lookup(f, ids, k) = f[i][k]
<1> DEFINE T == [i \in 1..Len(ids) |-> f[ids[i]]]
<1>1. T \in Seq(Table) /\ Len(T) = Len(ids) /\ \A i \in 1..Len(ids) : T[i] = f[ids[i]]
  BY TablesOf
<1>2. Lookup(f, ids, k) = Newest(T, k)
  BY DEF Lookup
<1> HIDE DEF T
<1>3. /\ Newest(T, k) \in Int
      /\ Newest(T, k) = 0 <=> \A i \in 1..Len(T) : T[i][k] = 0
      /\ Newest(T, k) # 0 => \E i \in 1..Len(T) : Newest(T, k) = T[i][k]
  BY <1>1, NewestOf
<1> QED BY <1>1, <1>2, <1>3 DEF Ids

-----------------------------------------------------------------------------
(* Taking ids out of a sequence, and putting them in order.                *)

\* Taking the tail of a sequence without repetitions out leaves the front.
LEMMA WithoutTail ==
    ASSUME NEW u \in Seq(Nat), NEW t \in Seq(Nat), Distinct(u \o t)
    PROVE  Without(u \o t, t) = u
<1> DEFINE s == u \o t
           kept == {i \in DOMAIN s : s[i] \notin Ids(t)}
           m == Len(u)
<1>1. /\ s \in Seq(Nat) /\ m \in Nat /\ Len(t) \in Nat /\ Len(s) = m + Len(t)
      /\ DOMAIN s = 1..Len(s)
      /\ \A i \in 1..m : s[i] = u[i]
      /\ \A i \in 1..Len(t) : s[m + i] = t[i]
  OBVIOUS
<1>2. kept = 1..m
  <2>1. ASSUME NEW i \in 1..m PROVE i \in kept
    <3>1. ASSUME NEW j \in 1..Len(t), t[j] = s[i] PROVE FALSE
      <4>1. s[m + j] = s[i] /\ m + j \in 1..Len(s) /\ i \in 1..Len(s) /\ m + j # i
        BY <1>1, <3>1
      <4> QED BY <1>1, <4>1 DEF Distinct
    <3> QED BY <1>1, <3>1 DEF Ids
  <2>2. ASSUME NEW i \in kept PROVE i \in 1..m
    <3>1. ASSUME i > m PROVE FALSE
      <4>1. i - m \in 1..Len(t) /\ s[i] = t[i - m]
        BY <1>1, <3>1
      <4> QED BY <4>1 DEF Ids
    <3> QED BY <1>1, <3>1
  <2> QED BY <2>1, <2>2
<1>3. \A i \in 0..m : Cardinality(1..i) = i
  <2> SUFFICES ASSUME NEW i \in 0..m PROVE Cardinality(1..i) = i
    OBVIOUS
  <2>1. Cardinality(1..i) = IF 1 > i THEN 0 ELSE i - 1 + 1
    BY <1>1, FS_Interval, 1 \in Int, i \in Int
  <2> QED BY <1>1, <2>1
<1>4. ASSUME NEW n \in 1..m
      PROVE  (CHOOSE i \in 1..m : Cardinality({j \in 1..m : j < i}) = n - 1) = n
  <2>1. ASSUME NEW i \in 1..m PROVE Cardinality({j \in 1..m : j < i}) = i - 1
    <3>1. {j \in 1..m : j < i} = 1..i - 1 /\ i - 1 \in 0..m
      BY <1>1
    <3> QED BY <1>3, <3>1
  <2>2. \A i \in 1..m : Cardinality({j \in 1..m : j < i}) = n - 1 <=> i = n
    BY <1>1, <2>1
  <2> QED BY <2>2
<1>5. Without(s, t) = [n \in 1..m |-> s[n]]
  <2>1. Without(s, t) = [n \in 1..Cardinality(kept) |->
                            s[CHOOSE i \in kept : Cardinality({j \in kept : j < i}) = n - 1]]
    BY DEF Without
  <2>2. Cardinality(kept) = m
    <3>1. m \in 0..m
      BY <1>1
    <3> QED BY <1>2, <1>3, <3>1
  <2>3. \A n \in 1..m : (CHOOSE i \in kept : Cardinality({j \in kept : j < i}) = n - 1) = n
    BY <1>2, <1>4
  <2> HIDE DEF kept, s, m
  <2> QED BY <2>1, <2>2, <2>3
<1>6. u = [n \in 1..m |-> u[n]]
  BY <1>1
<1> QED BY <1>1, <1>5, <1>6

\* Descending lists a finite set of numbers, each once, the largest first.
LEMMA DescendingLists ==
    ASSUME NEW S \in SUBSET Nat, IsFiniteSet(S)
    PROVE  /\ Descending(S) \in Seq(Nat)
           /\ Ids(Descending(S)) = S
           /\ \A p, q \in DOMAIN Descending(S) : p < q => Descending(S)[p] > Descending(S)[q]
<1> DEFINE N == Cardinality(S)
           above(i) == {j \in S : j > i}
           rank == [i \in S |-> Cardinality(above(i)) + 1]
           nth(n) == CHOOSE i \in S : Cardinality(above(i)) = n - 1
<1>1. N \in Nat
  BY FS_CardinalityType
<1>2. ASSUME NEW i \in S
      PROVE  /\ IsFiniteSet(above(i)) /\ Cardinality(above(i)) \in Nat
             /\ rank[i] = Cardinality(above(i)) + 1 /\ rank[i] \in 1..N
  <2>1. IsFiniteSet(above(i)) /\ Cardinality(above(i)) <= N
        /\ (Cardinality(above(i)) = N => above(i) = S)
    BY FS_Subset
  <2>2. i \notin above(i)
    OBVIOUS
  <2>3. Cardinality(above(i)) \in Nat
    BY <2>1, FS_CardinalityType
  <2>4. rank[i] = Cardinality(above(i)) + 1 /\ Cardinality(above(i)) # N
    BY <2>1, <2>2
  <2> HIDE DEF above
  <2> QED BY <1>1, <2>1, <2>3, <2>4
<1>3. ASSUME NEW i \in S, NEW k \in S, i < k
      PROVE  rank[k] < rank[i]
  <2>1. above(k) \subseteq above(i) /\ k \in above(i) /\ k \notin above(k)
    <3>1. i \in Nat /\ k \in Nat /\ \A j \in S : j \in Nat
      OBVIOUS
    <3>2. \A j \in S : j > k => j > i
      BY <1>3, <3>1
    <3>3. ~(k > k) /\ k > i
      BY <1>3, <3>1
    <3> QED BY <3>2, <3>3
  <2>2. Cardinality(above(k)) <= Cardinality(above(i))
        /\ (Cardinality(above(k)) = Cardinality(above(i)) => above(i) = above(k))
    BY <1>2, <2>1, FS_Subset
  <2>3. above(i) # above(k)
    BY <2>1
  <2>4. /\ rank[i] = Cardinality(above(i)) + 1 /\ Cardinality(above(i)) \in Nat
        /\ rank[k] = Cardinality(above(k)) + 1 /\ Cardinality(above(k)) \in Nat
    BY <1>2
  <2> HIDE DEF above, rank
  <2> QED BY <2>2, <2>3, <2>4
<1>4. rank \in Injection(S, 1..N)
  <2>1. rank \in [S -> 1..N]
    BY <1>2
  <2>2. ASSUME NEW i \in S, NEW k \in S, rank[i] = rank[k] PROVE i = k
    <3>1. i \in Nat /\ k \in Nat /\ rank[i] \in Nat
      BY <1>2
    <3>2. ~(i < k) /\ ~(k < i)
      BY <1>2, <1>3, <2>2
    <3> QED BY <3>1, <3>2
  <2> QED BY <2>1, <2>2 DEF Injection, IsInjective
<1>5. IsFiniteSet(1..N) /\ Cardinality(1..N) = N
  BY <1>1, FS_Interval
<1>6. rank \in Surjection(S, 1..N)
  BY <1>4, <1>5, FS_Injection
<1>7. ASSUME NEW n \in 1..N
      PROVE  nth(n) \in S /\ rank[nth(n)] = n
  <2>1. PICK i \in S : rank[i] = n
    BY <1>6 DEF Surjection
  <2>2. Cardinality(above(i)) = n - 1
    BY <1>1, <1>2, <2>1
  <2>3. nth(n) \in S /\ Cardinality(above(nth(n))) = n - 1
    <3> HIDE DEF above
    <3> QED BY <2>2
  <2>4. rank[nth(n)] = Cardinality(above(nth(n))) + 1
    BY <1>2, <2>3
  <2> HIDE DEF nth, above, rank
  <2> QED BY <1>1, <2>3, <2>4
<1>8. Descending(S) = [n \in 1..N |-> nth(n)]
  BY DEF Descending
<1>9. Descending(S) \in [1..N -> S]
  <2>1. \A n \in 1..N : nth(n) \in S
    BY <1>7
  <2> HIDE DEF nth, N
  <2> QED BY <1>8, <2>1
<1>10. Descending(S) \in Seq(Nat) /\ Len(Descending(S)) = N
  <2>1. \A n \in 1..N : Descending(S)[n] \in Nat
    BY <1>9
  <2>2. Descending(S) = [n \in 1..N |-> Descending(S)[n]]
    BY <1>9
  <2> HIDE DEF N
  <2> QED BY <1>1, <2>1, <2>2
<1>11. ASSUME NEW i \in S PROVE \E n \in 1..N : Descending(S)[n] = i
  <2>1. rank[i] \in 1..N /\ rank[nth(rank[i])] = rank[i] /\ nth(rank[i]) \in S
    BY <1>2, <1>7
  <2>2. nth(rank[i]) = i
    BY <1>4, <2>1 DEF Injection, IsInjective
  <2> QED BY <1>8, <2>1, <2>2
<1>12. Ids(Descending(S)) = S
  BY <1>9, <1>10, <1>11 DEF Ids
<1>13. ASSUME NEW p \in 1..N, NEW q \in 1..N, p < q
       PROVE  Descending(S)[p] > Descending(S)[q]
  <2>1. /\ nth(p) \in S /\ rank[nth(p)] = p
        /\ nth(q) \in S /\ rank[nth(q)] = q
    BY <1>7
  <2>2. \A i \in S, k \in S : i < k => rank[k] < rank[i]
    BY <1>3
  <2>3. Descending(S)[p] = nth(p) /\ Descending(S)[q] = nth(q)
    BY <1>8
  <2> HIDE DEF nth, rank, N
  <2>4. nth(p) \in Nat /\ nth(q) \in Nat /\ p \in Nat /\ q \in Nat
    <3>1. \A i \in S : i \in Nat
      OBVIOUS
    <3>2. nth(p) \in Nat /\ nth(q) \in Nat
      BY <2>1, <3>1
    <3>3. p \in Nat /\ q \in Nat
      BY <1>1
    <3> QED BY <3>2, <3>3
  <2>5. ~(nth(p) < nth(q)) /\ nth(q) # nth(p)
    BY <1>13, <2>1, <2>2, <2>4
  <2> QED BY <2>3, <2>4, <2>5
<1>14. DOMAIN Descending(S) = 1..N
  BY <1>9
<1> HIDE DEF N
<1> QED BY <1>10, <1>12, <1>13, <1>14

-----------------------------------------------------------------------------
(* Recursive functions.                                                    *)

\* What holds of 0 and passes from n to n + 1 holds up to N.
LEMMA UpTo ==
    ASSUME NEW N \in Nat, NEW G, 0 \in G, \A n \in 0..N : n \in G /\ n < N => n + 1 \in G
    PROVE  \A n \in 0..N : n \in G
<1> DEFINE wrong == {n \in 0..N : n \notin G}
<1>1. SUFFICES ASSUME wrong # {} PROVE FALSE
  OBVIOUS
<1>2. wrong \in SUBSET Nat
  OBVIOUS
<1>3. PICK m \in wrong : \A x \in wrong : m <= x
  <2> HIDE DEF wrong
  <2> QED BY <1>1, <1>2, LeastOf
<1>4. m \in 0..N /\ m # 0 /\ m \notin G
  OBVIOUS
<1>5. m - 1 \in 0..N /\ m - 1 < N /\ (m - 1) + 1 = m /\ ~(m <= m - 1)
  BY <1>4
<1>6. m - 1 \in G
  BY <1>3, <1>5
<1> QED BY <1>4, <1>5, <1>6

\* What replaying starts with.
ReplayStart == [ok |-> TRUE, mems |-> {}, ids |-> {1},
                s |-> [mem |-> 0, imm |-> <<>>, l0 |-> <<>>, levels |-> EmptyLevels]]

\* A function gives what replaying finds after each record.
LEMMA ReplayingOf ==
    ASSUME NEW R, NEW m \in Seq(R)
    PROVE  \E f : /\ ReplayOf(m) = f[Len(m)] /\ f[0] = ReplayStart
                  /\ \A n \in 1..Len(m) : f[n] = Replayed(f[n - 1], m[n])
<1> DEFINE N == Len(m)
           step(f, n) == IF n = 0 THEN ReplayStart ELSE Replayed(f[n - 1], m[n])
           Solves(f, n) == f = [i \in 0..n |-> step(f, i)]
           G == {n \in Nat : \E f : Solves(f, n)}
           upto == CHOOSE f : Solves(f, N)
<1>1. N \in Nat
  OBVIOUS
<1>2. ReplayOf(m) = upto[N]
  BY DEF ReplayOf, ReplayStart
<1>3. 0 \in G
  <2> DEFINE f == [i \in 0..0 |-> ReplayStart]
  <2>1. \A i \in 0..0 : step(f, i) = ReplayStart
    OBVIOUS
  <2>2. Solves(f, 0)
    <3> HIDE DEF step
    <3> QED BY <2>1
  <2> HIDE DEF Solves, f
  <2> QED BY <2>2
<1>4. ASSUME NEW n \in 0..N, n \in G, n < N PROVE n + 1 \in G
  <2>1. PICK f : Solves(f, n)
    BY <1>4
  <2>2. n \in Nat
    BY <1>1
  <2> DEFINE g == [i \in 0..n + 1 |-> IF i = n + 1 THEN Replayed(f[n], m[n + 1]) ELSE f[i]]
  <2>3. ASSUME NEW i \in 0..n + 1 PROVE g[i] = step(g, i)
    <3>1. CASE i = n + 1
      <4>1. g[n] = f[n] /\ i - 1 = n /\ i # 0
        BY <2>2, <3>1
      <4> QED BY <3>1, <4>1
    <3>2. CASE i # n + 1 /\ i = 0
      <4>1. g[0] = f[0] /\ 0 \in 0..n
        BY <2>2, <3>2
      <4> QED BY <2>1, <3>2, <4>1
    <3>3. CASE i # n + 1 /\ i # 0
      <4>1. i \in 0..n /\ i - 1 \in 0..n + 1 /\ i - 1 # n + 1
        BY <2>2, <3>3
      <4>2. f[i] = Replayed(f[i - 1], m[i])
        BY <2>1, <3>3, <4>1
      <4>3. g[i] = f[i] /\ g[i - 1] = f[i - 1]
        BY <3>3, <4>1
      <4> QED BY <3>3, <4>2, <4>3
    <3> QED BY <3>1, <3>2, <3>3
  <2>4. Solves(g, n + 1)
    <3>1. g = [i \in 0..n + 1 |-> g[i]]
      OBVIOUS
    <3> HIDE DEF g, step
    <3>2. [i \in 0..n + 1 |-> g[i]] = [i \in 0..n + 1 |-> step(g, i)]
      BY <2>3
    <3> QED BY <3>1, <3>2
  <2> HIDE DEF g, Solves
  <2> QED BY <2>2, <2>4
<1>5. N \in G
  <2> HIDE DEF G
  <2>1. \A n \in 0..N : n \in G
    BY <1>1, <1>3, <1>4, UpTo
  <2> QED BY <1>1, <2>1
<1>6. Solves(upto, N)
  <2> HIDE DEF Solves
  <2>1. \E f : Solves(f, N)
    BY <1>5
  <2> QED BY <2>1
<1> HIDE DEF upto
<1>7. \A n \in 0..N : upto[n] = step(upto, n)
  <2> HIDE DEF step
  <2> QED BY <1>6
<1>8. upto[0] = ReplayStart /\ \A n \in 1..N : upto[n] = Replayed(upto[n - 1], m[n])
  BY <1>1, <1>7
<1> QED BY <1>2, <1>8

\* One more record is replayed on what the records before it gave.
LEMMA ReplayNext ==
    ASSUME NEW R, NEW m \in Seq(R), NEW r \in R
    PROVE  ReplayOf(Append(m, r)) = Replayed(ReplayOf(m), r)
<1> DEFINE a == Append(m, r)
<1>1. /\ a \in Seq(R) /\ Len(m) \in Nat /\ Len(a) = Len(m) + 1 /\ a[Len(a)] = r
      /\ \A n \in 1..Len(m) : a[n] = m[n]
  OBVIOUS
<1> HIDE DEF a
<1>2. PICK f : /\ ReplayOf(m) = f[Len(m)] /\ f[0] = ReplayStart
               /\ \A n \in 1..Len(m) : f[n] = Replayed(f[n - 1], m[n])
  BY ReplayingOf
<1>3. PICK g : /\ ReplayOf(a) = g[Len(a)] /\ g[0] = ReplayStart
               /\ \A n \in 1..Len(a) : g[n] = Replayed(g[n - 1], a[n])
  BY <1>1, ReplayingOf
<1> DEFINE G == {n \in 0..Len(m) : f[n] = g[n]}
<1>4. 0 \in G
  BY <1>1, <1>2, <1>3
<1>5. ASSUME NEW n \in 0..Len(m), n \in G, n < Len(m) PROVE n + 1 \in G
  <2>1. n + 1 \in 1..Len(m) /\ n + 1 \in 1..Len(a) /\ (n + 1) - 1 = n /\ a[n + 1] = m[n + 1]
    BY <1>1, <1>5
  <2>2. f[n + 1] = Replayed(f[n], m[n + 1]) /\ g[n + 1] = Replayed(g[n], m[n + 1])
    BY <1>2, <1>3, <2>1
  <2> QED BY <1>5, <2>1, <2>2
<1>6. Len(m) \in G
  <2> HIDE DEF G
  <2>1. \A n \in 0..Len(m) : n \in G
    BY <1>1, <1>4, <1>5, UpTo
  <2> QED BY <1>1, <2>1
<1>7. Len(a) \in 1..Len(a) /\ Len(a) - 1 = Len(m)
  BY <1>1
<1>8. g[Len(a)] = Replayed(g[Len(m)], r)
  BY <1>1, <1>3, <1>7
<1> QED BY <1>2, <1>3, <1>6, <1>8 DEF a

\* Replaying nothing.
LEMMA ReplayNothing == ReplayOf(<<>>) = ReplayStart
<1>1. PICK f : ReplayOf(<<>>) = f[Len(<<>>)] /\ f[0] = ReplayStart
  BY ReplayingOf, <<>> \in Seq({})
<1> QED BY <1>1

-----------------------------------------------------------------------------
(* Building the tables of a compaction.                                    *)

\* What is to be left of the entry for j.
KeptEntry(m, bottom, j) == IF bottom /\ m[j] < 0 THEN 0 ELSE m[j]

\* What the entry for k adds to the tables.
Added(b, m, bottom, k) ==
    LET d == IF bottom /\ m[k] < 0 THEN b.cur ELSE [b.cur EXCEPT ![k] = m[k]]
    IN CASE m[k] = 0 -> b
         [] m[k] # 0 /\ Entries(d) >= TableLimit ->
               [out |-> Append(b.out, d), cur |-> Nothing, open |-> FALSE]
         [] OTHER -> [b EXCEPT !.cur = d, !.open = TRUE]

\* What building tables yields.
Builder == [out : Seq(Table), cur : Table, open : BOOLEAN]

\* Up to the key k the tables hold what is to be left.
BuiltUpTo(b, m, bottom, k) ==
    /\ b \in Builder
    /\ \A j \in Key : Or(Newest(b.out, j), b.cur[j]) = IF j <= k THEN KeptEntry(m, bottom, j) ELSE 0
    /\ \A j \in Key : b.cur[j] \in {0, m[j]}
    /\ \A j \in Key, i \in 1..Len(b.out) : b.out[i][j] \in {0, m[j]}
    /\ ~b.open => b.cur = Nothing
    /\ b.open /\ b.cur = Nothing => bottom /\ \E j \in Key : m[j] < 0

\* Adding the entry for the next key.
LEMMA AddedNext ==
    ASSUME NEW m \in Table, NEW bottom \in BOOLEAN, NEW k \in Key, NEW b,
           BuiltUpTo(b, m, bottom, k - 1)
    PROVE  BuiltUpTo(Added(b, m, bottom, k), m, bottom, k)
<1> DEFINE d == IF bottom /\ m[k] < 0 THEN b.cur ELSE [b.cur EXCEPT ![k] = m[k]]
           r == Added(b, m, bottom, k)
<1>1. /\ b \in Builder /\ b.out \in Seq(Table) /\ b.cur \in Table /\ b.open \in BOOLEAN
      /\ \A j \in Key : b.cur[j] \in {0, m[j]} /\ b.cur[j] \in Int
      /\ \A j \in Key, i \in 1..Len(b.out) : b.out[i][j] \in {0, m[j]}
      /\ \A j \in Key : Or(Newest(b.out, j), b.cur[j])
                           = IF j <= k - 1 THEN KeptEntry(m, bottom, j) ELSE 0
  BY DEF BuiltUpTo, Builder, Table
<1>2. k \in Nat /\ \A j \in Key : j \in Nat /\ m[j] \in Int
  BY Week2Assumption DEF Key, Table
<1>3. b.cur[k] = 0 /\ Newest(b.out, k) = 0
  <2>1. Or(Newest(b.out, k), b.cur[k]) = 0
    BY <1>1, <1>2
  <2> QED BY <2>1 DEF Or
<1>4. /\ d \in Table /\ \A j \in Key : d[j] \in {0, m[j]} /\ (j # k => d[j] = b.cur[j])
      /\ d[k] = KeptEntry(m, bottom, k)
  BY <1>1, <1>2, <1>3 DEF Table, KeptEntry
<1>5. \A j \in Key : Or(Newest(b.out, j), d[j]) = IF j <= k THEN KeptEntry(m, bottom, j) ELSE 0
  <2> SUFFICES ASSUME NEW j \in Key
               PROVE  Or(Newest(b.out, j), d[j]) = IF j <= k THEN KeptEntry(m, bottom, j) ELSE 0
    OBVIOUS
  <2>1. CASE j = k
    BY <1>2, <1>3, <1>4, <2>1 DEF Or
  <2>2. CASE j # k
    <3>1. j <= k <=> j <= k - 1
      BY <1>2, <2>2
    <3> QED BY <1>1, <1>4, <2>2, <3>1
  <2> QED BY <2>1, <2>2
<1>6. m[k] # 0 /\ d = Nothing => bottom /\ m[k] < 0
  BY <1>4 DEF Nothing, KeptEntry
<1>7. Nothing \in Table /\ \A j \in Key : Nothing[j] = 0
  BY DEF Nothing, Table
<1> HIDE DEF d
<1>8. CASE m[k] = 0
  <2>1. r = b
    BY <1>8 DEF Added
  <2>2. \A j \in Key : (IF j <= k - 1 THEN KeptEntry(m, bottom, j) ELSE 0)
                        = IF j <= k THEN KeptEntry(m, bottom, j) ELSE 0
    BY <1>2, <1>8 DEF KeptEntry
  <2>3. \A j \in Key : Or(Newest(b.out, j), b.cur[j])
                          = IF j <= k THEN KeptEntry(m, bottom, j) ELSE 0
    BY <1>1, <2>2
  <2> QED BY <2>1, <2>3 DEF BuiltUpTo
<1>9. CASE m[k] # 0 /\ Entries(d) >= TableLimit
  <2> DEFINE o == Append(b.out, d)
  <2>1. r = [out |-> o, cur |-> Nothing, open |-> FALSE]
    BY <1>9 DEF Added, d
  <2>2. /\ o \in Seq(Table) /\ o = b.out \o <<d>> /\ Len(o) = Len(b.out) + 1 /\ Len(b.out) \in Nat
        /\ \A i \in 1..Len(o) : (i \in 1..Len(b.out) /\ o[i] = b.out[i]) \/ o[i] = d
    BY <1>1, <1>4
  <2>3. ASSUME NEW j \in Key
        PROVE  Or(Newest(o, j), Nothing[j]) = Or(Newest(b.out, j), d[j])
    <3>1. <<d>> \in Seq(Table)
      BY <1>4
    <3>2. Newest(b.out \o <<d>>, j) = Or(Newest(b.out, j), Newest(<<d>>, j))
      BY <1>1, <3>1, NewestJoined
    <3>3. Newest(<<d>>, j) = d[j]
      BY <1>4, NewestSmall
    <3>4. Newest(o, j) = Or(Newest(b.out, j), d[j])
      BY <2>2, <3>2, <3>3
    <3> QED BY <1>7, <3>4 DEF Or
  <2>4. \A j \in Key, i \in 1..Len(o) : o[i][j] \in {0, m[j]}
    BY <1>1, <1>4, <2>2
  <2> HIDE DEF o
  <2>5. r.out = o /\ r.cur = Nothing /\ r.open = FALSE /\ r \in Builder
    BY <1>7, <2>1, <2>2 DEF Builder
  <2>6. \A j \in Key : Or(Newest(o, j), Nothing[j]) = IF j <= k THEN KeptEntry(m, bottom, j) ELSE 0
    BY <1>5, <2>3
  <2> HIDE DEF r
  <2>7. \A j \in Key : r.cur[j] \in {0, m[j]}
    BY <1>7, <2>5
  <2> QED BY <2>4, <2>5, <2>6, <2>7 DEF BuiltUpTo, r
<1>10. CASE m[k] # 0 /\ ~(Entries(d) >= TableLimit)
  <2>1. r = [b EXCEPT !.cur = d, !.open = TRUE]
    BY <1>10 DEF Added, d
  <2>2. r \in Builder /\ r.out = b.out /\ r.cur = d /\ r.open = TRUE
    BY <1>1, <1>4, <2>1 DEF Builder
  <2> HIDE DEF r
  <2>3. r.cur = Nothing => bottom /\ \E j \in Key : m[j] < 0
    BY <1>6, <1>10, <2>2
  <2>4. \A j \in Key : Or(Newest(r.out, j), r.cur[j]) = IF j <= k THEN KeptEntry(m, bottom, j) ELSE 0
    BY <1>5, <2>2
  <2>5. (\A j \in Key : r.cur[j] \in {0, m[j]})
        /\ \A j \in Key, i \in 1..Len(r.out) : r.out[i][j] \in {0, m[j]}
    BY <1>1, <1>4, <2>2
  <2> QED BY <2>2, <2>3, <2>4, <2>5 DEF BuiltUpTo, r
<1> QED BY <1>8, <1>9, <1>10

\* Built is complete at the last key.
LEMMA BuiltAll ==
    ASSUME NEW m \in Table, NEW bottom \in BOOLEAN
    PROVE  BuiltUpTo(Built(m, bottom), m, bottom, MaxKey)
<1> DEFINE N == MaxKey
           start == [out |-> <<>>, cur |-> Nothing, open |-> FALSE]
           step(f, n) == IF n = 0 THEN start ELSE Added(f[n - 1], m, bottom, n)
           Solves(f, n) == f = [i \in 0..n |-> step(f, i)]
           G == {n \in Nat : \E f : Solves(f, n)}
           upto == CHOOSE f : Solves(f, N)
<1>1. N \in Nat
  BY Week2Assumption
<1>2. Built(m, bottom) = upto[N]
  BY DEF Built, Added
<1>3. 0 \in G
  <2> DEFINE f == [i \in 0..0 |-> start]
  <2>1. \A i \in 0..0 : step(f, i) = start
    OBVIOUS
  <2>2. Solves(f, 0)
    <3> HIDE DEF step, start
    <3> QED BY <2>1
  <2> HIDE DEF Solves, f
  <2> QED BY <2>2
<1>4. ASSUME NEW n \in 0..N, n \in G, n < N PROVE n + 1 \in G
  <2>1. PICK f : Solves(f, n)
    BY <1>4
  <2>2. n \in Nat
    BY <1>1
  <2> DEFINE g == [i \in 0..n + 1 |-> IF i = n + 1 THEN Added(f[n], m, bottom, n + 1) ELSE f[i]]
  <2>3. ASSUME NEW i \in 0..n + 1 PROVE g[i] = step(g, i)
    <3>1. CASE i = n + 1
      <4>1. g[n] = f[n] /\ i - 1 = n /\ i # 0
        BY <2>2, <3>1
      <4> QED BY <3>1, <4>1
    <3>2. CASE i # n + 1 /\ i = 0
      <4>1. g[0] = f[0] /\ 0 \in 0..n
        BY <2>2, <3>2
      <4> QED BY <2>1, <3>2, <4>1
    <3>3. CASE i # n + 1 /\ i # 0
      <4>1. i \in 0..n /\ i - 1 \in 0..n + 1 /\ i - 1 # n + 1
        BY <2>2, <3>3
      <4>2. f[i] = Added(f[i - 1], m, bottom, i)
        BY <2>1, <3>3, <4>1
      <4>3. g[i] = f[i] /\ g[i - 1] = f[i - 1]
        BY <3>3, <4>1
      <4> QED BY <3>3, <4>2, <4>3
    <3> QED BY <3>1, <3>2, <3>3
  <2>4. Solves(g, n + 1)
    <3>1. g = [i \in 0..n + 1 |-> g[i]]
      OBVIOUS
    <3> HIDE DEF g, step
    <3>2. [i \in 0..n + 1 |-> g[i]] = [i \in 0..n + 1 |-> step(g, i)]
      BY <2>3
    <3> QED BY <3>1, <3>2
  <2> HIDE DEF g, Solves
  <2> QED BY <2>2, <2>4
<1>5. N \in G
  <2> HIDE DEF G, N
  <2>1. \A n \in 0..N : n \in G
    BY <1>1, <1>3, <1>4, UpTo
  <2> QED BY <1>1, <2>1
<1>6. Solves(upto, N)
  <2> HIDE DEF Solves
  <2>1. \E f : Solves(f, N)
    BY <1>5
  <2> QED BY <2>1
<1> HIDE DEF upto
<1>7. \A n \in 0..N : upto[n] = step(upto, n)
  <2> HIDE DEF step
  <2> QED BY <1>6
<1>8. upto[0] = start /\ \A n \in 1..N : upto[n] = Added(upto[n - 1], m, bottom, n)
  <2>1. 0 \in 0..N /\ \A n \in 1..N : n \in 0..N /\ n # 0
    BY <1>1
  <2>2. upto[0] = step(upto, 0) /\ \A n \in 1..N : upto[n] = step(upto, n)
    <3> HIDE DEF step, N
    <3> QED BY <1>7, <2>1
  <2> HIDE DEF start
  <2> QED BY <2>1, <2>2
<1> DEFINE H == {n \in 0..N : BuiltUpTo(upto[n], m, bottom, n)}
<1>9. 0 \in H
  <2>1. start \in Builder /\ start.out = <<>> /\ start.cur = Nothing /\ ~start.open
    BY DEF Builder, Nothing, Table
  <2>2. \A j \in Key : Or(Newest(<<>>, j), Nothing[j]) = 0 /\ ~(j <= 0) /\ Nothing[j] = 0
    BY NewestSmall, Week2Assumption DEF Or, Nothing, Key
  <2>3. BuiltUpTo(start, m, bottom, 0)
    <3>1. 1..Len(<<>>) = {}
      OBVIOUS
    <3> HIDE DEF start
    <3> QED BY <2>1, <2>2, <3>1 DEF BuiltUpTo
  <2> QED BY <1>1, <1>8, <2>3
<1>10. ASSUME NEW n \in 0..N, n \in H, n < N PROVE n + 1 \in H
  <2>1. n + 1 \in 1..N /\ n + 1 \in 0..N /\ (n + 1) - 1 = n /\ n + 1 \in Key
    BY <1>1, <1>10 DEF Key
  <2>2. upto[n + 1] = Added(upto[n], m, bottom, n + 1)
    BY <1>8, <2>1
  <2>3. BuiltUpTo(upto[n], m, bottom, (n + 1) - 1)
    BY <1>10, <2>1
  <2>4. BuiltUpTo(Added(upto[n], m, bottom, n + 1), m, bottom, n + 1)
    BY <2>1, <2>3, AddedNext
  <2> QED BY <2>1, <2>2, <2>4
<1>11. N \in H
  <2> HIDE DEF H, N
  <2>1. \A n \in 0..N : n \in H
    BY <1>1, <1>9, <1>10, UpTo
  <2> QED BY <1>1, <2>1
<1> QED BY <1>2, <1>11

-----------------------------------------------------------------------------
(* What a state reads as, with the memtables m and the SSTs f.             *)

\* The sources of a state as functions of the memtables m and the tables f.
ImmOf(m, imm) == [i \in 1..Len(imm) |-> m[imm[i]].data]
LevelsOf(f, levels) == [i \in 1..Len(levels) |-> [k \in Key |-> Lookup(f, levels[i], k)]]
LevelEntry(f, levels, k) == Newest(LevelsOf(f, levels), k)
StoredIn(f, s, k) == Or(Lookup(f, s.l0, k), LevelEntry(f, s.levels, k))
Behind(m, f, s, k) == Or(Newest(ImmOf(m, s.imm), k), StoredIn(f, s, k))

\* The frozen memtables and the SSTs of a state are at hand.
FrozenAtHand(m, imm) == imm \in Seq(Nat) /\ \A i \in Ids(imm) : m[i].data \in Table

\* All tables of the levels exist.
LevelsAtHand(f, levels) ==
    levels \in Seq(Seq(Nat)) /\ \A i \in 1..Len(levels) : AtHand(f, levels[i])

\* All sources of a state exist.
Backed(m, f, s) ==
    FrozenAtHand(m, s.imm) /\ AtHand(f, s.l0) /\ LevelsAtHand(f, s.levels)

\* The tables of the levels.
LEMMA LevelsOfType ==
    ASSUME NEW f, NEW levels, LevelsAtHand(f, levels)
    PROVE  /\ LevelsOf(f, levels) \in Seq(Table)
           /\ Len(LevelsOf(f, levels)) = Len(levels) /\ Len(levels) \in Nat
           /\ \A i \in 1..Len(levels) : /\ LevelsOf(f, levels)[i] \in Table
                                        /\ \A k \in Key : LevelsOf(f, levels)[i][k] = Lookup(f, levels[i], k)
<1>1. Len(levels) \in Nat
  BY DEF LevelsAtHand
<1>2. ASSUME NEW i \in 1..Len(levels)
      PROVE  [k \in Key |-> Lookup(f, levels[i], k)] \in Table
  <2>1. AtHand(f, levels[i])
    BY DEF LevelsAtHand
  <2>2. \A k \in Key : Lookup(f, levels[i], k) \in Int
    BY <2>1, LookupType
  <2> QED BY <2>2 DEF Table
<1> QED BY <1>1, <1>2 DEF LevelsOf

\* The frozen memtables.
LEMMA ImmOfType ==
    ASSUME NEW m, NEW imm, FrozenAtHand(m, imm)
    PROVE  ImmOf(m, imm) \in Seq(Table) /\ Len(ImmOf(m, imm)) = Len(imm) /\ Len(imm) \in Nat
<1>1. Len(imm) \in Nat
  BY DEF FrozenAtHand
<1>2. \A i \in 1..Len(imm) : m[imm[i]].data \in Table
  BY DEF FrozenAtHand, Ids
<1> QED BY <1>1, <1>2 DEF ImmOf

\* All sources behind the memtable, the newer ones first.
LEMMA BehindOf ==
    ASSUME NEW m, NEW f, NEW s, Backed(m, f, s)
    PROVE  LET T == ImmOf(m, s.imm) \o [i \in 1..Len(s.l0) |-> f[s.l0[i]]] \o LevelsOf(f, s.levels)
           IN /\ T \in Seq(Table)
              /\ \A k \in Key : /\ Newest(T, k) = Behind(m, f, s, k)
                                /\ \A d \in Table : Newest(<<d>> \o T, k) = Or(d[k], Behind(m, f, s, k))
<1> DEFINE A == ImmOf(m, s.imm)
           B == [i \in 1..Len(s.l0) |-> f[s.l0[i]]]
           C == LevelsOf(f, s.levels)
<1>1. A \in Seq(Table) /\ B \in Seq(Table) /\ C \in Seq(Table)
  BY ImmOfType, TablesOf, LevelsOfType DEF Backed
<1>2. \A k \in Key : Lookup(f, s.l0, k) = Newest(B, k) /\ LevelEntry(f, s.levels, k) = Newest(C, k)
  BY DEF Lookup, LevelEntry
<1>3. \A k \in Key : Behind(m, f, s, k) = Or(Newest(A, k), Or(Newest(B, k), Newest(C, k)))
  <2> HIDE DEF B
  <2> QED BY <1>2 DEF Behind, StoredIn
<1> HIDE DEF A, B, C
<1>4. A \o B \in Seq(Table) /\ A \o B \o C \in Seq(Table)
  BY <1>1
<1>5. ASSUME NEW k \in Key PROVE Newest(A \o B \o C, k) = Behind(m, f, s, k)
  <2>1. Newest(A \o B, k) = Or(Newest(A, k), Newest(B, k))
    BY <1>1, NewestJoined
  <2>2. Newest((A \o B) \o C, k) = Or(Newest(A \o B, k), Newest(C, k))
    BY <1>1, <1>4, NewestJoined
  <2> QED BY <1>3, <2>1, <2>2 DEF Or
<1>6. ASSUME NEW k \in Key, NEW d \in Table
      PROVE  Newest(<<d>> \o (A \o B \o C), k) = Or(d[k], Behind(m, f, s, k))
  <2>1. <<d>> \in Seq(Table)
    OBVIOUS
  <2>2. Newest(<<d>> \o (A \o B \o C), k) = Or(Newest(<<d>>, k), Newest(A \o B \o C, k))
    BY <1>4, <2>1, NewestJoined
  <2> QED BY <1>5, <2>2, NewestSmall
<1> QED BY <1>4, <1>5, <1>6 DEF A, B, C

\* What a state reads as is a number.
LEMMA BehindType ==
    ASSUME NEW m, NEW f, NEW s, Backed(m, f, s), NEW k \in Key
    PROVE  Behind(m, f, s, k) \in Int /\ StoredIn(f, s, k) \in Int
           /\ LevelEntry(f, s.levels, k) \in Int /\ Lookup(f, s.l0, k) \in Int
           /\ Newest(ImmOf(m, s.imm), k) \in Int
<1>1. Newest(ImmOf(m, s.imm), k) \in Int
  BY ImmOfType, NewestOf DEF Backed
<1>2. Lookup(f, s.l0, k) \in Int
  BY LookupType DEF Backed
<1>3. LevelEntry(f, s.levels, k) \in Int
  BY LevelsOfType, NewestOf DEF Backed, LevelEntry
<1> QED BY <1>1, <1>2, <1>3 DEF Behind, StoredIn, Or

\* The tables of a state, in the words of the model.
LEMMA OldTablesAre ==
    ASSUME NEW s
    PROVE  /\ OldTables(s) = ImmOf(mt, s.imm) \o [i \in 1..Len(s.l0) |-> sst[s.l0[i]]]
                             \o LevelsOf(sst, s.levels)
           /\ LevelTables(s.levels) = LevelsOf(sst, s.levels)
           /\ ImmTables(s) = ImmOf(mt, s.imm)
           /\ Contents(s.l0) = [i \in 1..Len(s.l0) |-> sst[s.l0[i]]]
BY DEF OldTables, ImmTables, Contents, LevelTables, ImmOf, LevelsOf, Lookup

\* The ids of the tables of a state are numbers.
LEMMA TableIdsOf ==
    ASSUME NEW s \in State
    PROVE  /\ Ids(s.l0) \subseteq TableIds(s) /\ Ids(s.imm) \subseteq Nat /\ s.mem \in Nat
           /\ s.imm \in Seq(Nat) /\ s.l0 \in Seq(Nat) /\ s.levels \in Seq(Seq(Nat))
           /\ DOMAIN s.levels = 1..Len(s.levels) /\ Len(s.levels) \in Nat
           /\ \A i \in 1..Len(s.levels) : s.levels[i] \in Seq(Nat) /\ Ids(s.levels[i]) \subseteq TableIds(s)
           /\ TableIds(s) \subseteq Nat
<1>1. s.imm \in Seq(Nat) /\ s.l0 \in Seq(Nat) /\ s.levels \in Seq(Seq(Nat)) /\ s.mem \in Nat
  BY DEF State
<1>2. DOMAIN s.levels = 1..Len(s.levels) /\ Len(s.levels) \in Nat
      /\ \A i \in 1..Len(s.levels) : s.levels[i] \in Seq(Nat)
  BY <1>1
<1>3. \A i \in 1..Len(s.levels) : Ids(s.levels[i]) \subseteq Nat
  BY <1>2, IdsOf
<1>4. Ids(s.l0) \subseteq Nat /\ Ids(s.imm) \subseteq Nat
  BY <1>1, IdsOf
<1> QED BY <1>1, <1>2, <1>3, <1>4 DEF TableIds

\* A state whose memtables and tables are at hand is backed by them.
LEMMA BackedBy ==
    ASSUME NEW s \in State, NEW m, NEW f, \A i \in Ids(s.imm) : m[i].data \in Table,
           \A i \in TableIds(s) : i \in DOMAIN f /\ f[i] \in Table
    PROVE  Backed(m, f, s)
BY TableIdsOf DEF Backed, FrozenAtHand, AtHand, LevelsAtHand

\* What is held is held by the state, a clone, a task or its output.
LEMMA HeldHas ==
    \A i : i \in Held <=> \/ i \in TableIds(st)
                          \/ \E c \in Readers : i \in TableIds(loc[c].snap)
                          \/ \E t \in Compacting : i \in Taken(t)
                          \/ \E t \in Builders : i \in Outputs(t)
<1> SUFFICES ASSUME NEW i
             PROVE  i \in Held <=> \/ i \in TableIds(st)
                                   \/ \E c \in Readers : i \in TableIds(loc[c].snap)
                                   \/ \E t \in Compacting : i \in Taken(t)
                                   \/ \E t \in Builders : i \in Outputs(t)
  OBVIOUS
<1> DEFINE R == UNION {TableIds(loc[c].snap) : c \in Readers}
           T == UNION {Taken(t) : t \in Compacting}
           O == UNION {Outputs(t) : t \in Builders}
<1>1. i \in R <=> \E c \in Readers : i \in TableIds(loc[c].snap)
  OBVIOUS
<1>2. i \in T <=> \E t \in Compacting : i \in Taken(t)
  OBVIOUS
<1>3. i \in O <=> \E t \in Builders : i \in Outputs(t)
  OBVIOUS
<1>4. Held = TableIds(st) \cup R \cup T \cup O
  BY DEF Held
<1> HIDE DEF R, T, O
<1>5. i \in Held <=> i \in TableIds(st) \/ i \in R \/ i \in T \/ i \in O
  BY <1>4
<1> QED BY <1>1, <1>2, <1>3, <1>5

-----------------------------------------------------------------------------
(* Where threads are, and what they hold.                                  *)

\* The places of close.
ClosePlaces == {"close.join_compactor", "close.join_flusher", "close.memtable",
                "close.synced", "close.drain"}

\* The locals of a thread are those of its place.
LEMMA LocalsOf ==
    ASSUME Control, NEW t \in Thread
    PROVE  /\ at[t] \in {"idle", "stopped", "panicked"} => loc[t].op = "none"
           /\ at[t] \in {"append", "freeze", "insert"} => loc[t] \in WriteLocals
           /\ at[t] = "insert" => loc[t].todo # <<>>
           /\ at[t] = "swap" => loc[t] \in WriteLocals \cup [op : {"force_flush"}, new : Nat]
           /\ at[t] \in {"ff.lock", "ff.check"} => loc[t].op = "force_flush"
           /\ at[t] = "flush" => loc[t].op \in FlushOps
           /\ at[t] = "flush.install" => loc[t] \in [op : FlushOps, id : Nat]
           /\ at[t] \in ClosePlaces => loc[t].op = "close"
           /\ at[t] \in {"merge", "remove"} => loc[t] \in [op : {"compact"}, task : Task]
           /\ at[t] = "apply" => loc[t] \in [op : {"compact"}, task : Task, ids : Seq(Nat)]
           /\ at[t] = "install" =>
                 loc[t] \in [op : {"compact"}, task : Task, ids : Seq(Nat), st : State]
           /\ at[t] \in {"get.mem", "get.old"} => loc[t] \in [op : {"get"}, k : Key, snap : State]
           /\ at[t] = "got" => loc[t] \in [op : {"get"}, k : Key, val : Int]
           /\ at[t] = "scan.open" =>
                 loc[t] \in [op : {"scan"}, snap : State, lo : Bound, hi : Bound]
           /\ at[t] = "scan.next" =>
                 loc[t] \in [op : {"scan"}, snap : State, lo : Bound, hi : Bound, item : Item,
                             head : Item, valid : BOOLEAN, out : Table]
           /\ at[t] = "scanned" => loc[t] \in [op : {"scan"}, lo : Bound, hi : Bound, out : Table]
<1>1. LocalsFit(at[t], loc[t])
  BY DEF Control, ThreadOK
<1> QED BY <1>1 DEF LocalsFit, ClosePlaces

\* The engine threads are not clients.
LEMMA ThreadsApart ==
    /\ Flusher \in Thread /\ Compactor \in Thread /\ Flusher # Compactor
    /\ Nobody \notin Thread /\ Flusher \notin Client /\ Compactor \notin Client
    /\ Client \subseteq Thread
    /\ \A t \in Thread : t \in Client \/ t = Flusher \/ t = Compactor
BY Week2Assumption DEF Thread

\* How a move to p changes the owner of state_lock.
LockMoves(t, p) ==
    \/ lock' = lock /\ (at[t] \in Holding <=> p \in Holding)
    \/ lock = Nobody /\ lock' = t /\ p \in Holding
    \/ lock' = Nobody /\ at[t] \in Holding /\ p \notin Holding

\* How a client that closes gets on.
CloseGoes(t, p, l) ==
    t \in Client /\ l.op = "close" =>
        /\ loc[t].op = "close"
        /\ p # "close.join_compactor" => at[Compactor] = "stopped"
        /\ p \in PastJoins => at[Flusher] = "stopped"

\* A thread goes to a place where it may be.
Move(t, p, l) ==
    /\ Goto(t, p, l) /\ UNCHANGED <<setting, controlVars>>
    /\ at[t] # "stopped" /\ LockMoves(t, p)
    /\ LocalsFit(p, l) /\ ThreadFits(t, p, l) /\ ModeFits(mode, t, p, l)
    /\ CloseGoes(t, p, l)
    /\ left' \in [Calls -> Nat] /\ writes' \in Nat /\ done' \in [Key -> SUBSET Int]

\* What Goto changes.
LEMMA Moved ==
    ASSUME Control, NEW t \in Thread, NEW p, NEW l, Goto(t, p, l)
    PROVE  /\ DOMAIN at' = Thread /\ DOMAIN loc' = Thread
           /\ at'[t] = p /\ loc'[t] = l
           /\ \A u \in Thread : u # t => at'[u] = at[u] /\ loc'[u] = loc[u]
BY DEF Control, Typed, Goto

\* A thread that owns state_lock is where it needs it.
LEMMA LockOf ==
    ASSUME Control, NEW t \in Thread
    PROVE  lock = t <=> at[t] \in Holding
BY DEF Control, ThreadOK

\* Such a move keeps every thread in its place.
LEMMA MoveKeeps ==
    ASSUME Control, NEW t \in Thread, NEW p, NEW l, Move(t, p, l)
    PROVE  Control'
<1>1. /\ Goto(t, p, l) /\ setting' = setting /\ stop' = stop /\ mode' = mode /\ closed' = closed
      /\ at[t] # "stopped" /\ LockMoves(t, p)
      /\ LocalsFit(p, l) /\ ThreadFits(t, p, l) /\ ModeFits(mode, t, p, l)
      /\ CloseGoes(t, p, l)
      /\ left' \in [Calls -> Nat] /\ writes' \in Nat /\ done' \in [Key -> SUBSET Int]
  BY DEF Move, controlVars
<1>2. /\ DOMAIN at' = Thread /\ DOMAIN loc' = Thread
      /\ at'[t] = p /\ loc'[t] = l
      /\ \A u \in Thread : u # t => at'[u] = at[u] /\ loc'[u] = loc[u]
  BY <1>1, Moved
<1>3. lock' \in Thread \cup {Nobody}
      /\ \A u \in Thread : lock' = u <=> IF u = t THEN p \in Holding ELSE lock = u
  <2>1. lock \in Thread \cup {Nobody} /\ \A u \in Thread : lock = u <=> at[u] \in Holding
    BY DEF Control, Typed, ThreadOK
  <2> QED BY <1>1, <2>1, ThreadsApart DEF LockMoves
<1>4. Typed'
  BY <1>1, <1>2, <1>3 DEF Control, Typed
<1>5. OneCloses'
  <2>1. /\ stop = IF mode = "open" THEN {} ELSE {Flusher, Compactor}
        /\ \A c, d \in Client : loc[c].op = "close" /\ loc[d].op = "close" => c = d
        /\ \A c \in Client : loc[c].op = "close" =>
              /\ at[c] # "close.join_compactor" => at[Compactor] = "stopped"
              /\ at[c] \in PastJoins => at[Flusher] = "stopped"
    BY DEF Control, OneCloses
  <2>2. \A c \in Client : loc'[c].op = "close" => loc[c].op = "close"
    BY <1>1, <1>2, ThreadsApart DEF CloseGoes
  <2>3. \A u \in {Flusher, Compactor} : at[u] = "stopped" => at'[u] = "stopped"
    BY <1>1, <1>2, ThreadsApart
  <2>4. ASSUME NEW c \in Client, loc'[c].op = "close"
        PROVE  /\ at'[c] # "close.join_compactor" => at'[Compactor] = "stopped"
               /\ at'[c] \in PastJoins => at'[Flusher] = "stopped"
    <3>1. CASE c = t
      BY <1>1, <1>2, <2>3, <2>4, <3>1, ThreadsApart DEF CloseGoes
    <3>2. CASE c # t
      BY <1>2, <2>1, <2>3, <2>4, <3>2, ThreadsApart
    <3> QED BY <3>1, <3>2
  <2> QED BY <1>1, <2>1, <2>2, <2>4 DEF OneCloses
<1>6. ASSUME NEW u \in Thread PROVE ThreadOK(u)'
  <2>1. CASE u = t
    <3>1. LocalsFit(at[u], loc[u])' /\ ThreadFits(u, at[u], loc[u])' /\ ModeFits(mode, u, at[u], loc[u])'
      BY <1>1, <1>2, <2>1 DEF LocalsFit, ThreadFits, ModeFits
    <3>2. (lock = u <=> at[u] \in Holding)'
      BY <1>2, <1>3, <2>1 DEF Holding
    <3> QED BY <3>1, <3>2 DEF ThreadOK
  <2>2. CASE u # t
    <3>1. ThreadOK(u)
      BY DEF Control
    <3>2. LocalsFit(at[u], loc[u])' /\ ThreadFits(u, at[u], loc[u])' /\ ModeFits(mode, u, at[u], loc[u])'
      BY <1>1, <1>2, <2>2, <3>1 DEF ThreadOK, LocalsFit, ThreadFits, ModeFits
    <3>3. (lock = u <=> at[u] \in Holding)'
      BY <1>2, <1>3, <2>2, <3>1 DEF ThreadOK, Holding
    <3> QED BY <3>2, <3>3 DEF ThreadOK
  <2> QED BY <2>1, <2>2
<1> QED BY <1>4, <1>5, <1>6 DEF Control

\* Where a thread is allowed to be, and the types of the control state.
LEMMA PlaceOf ==
    ASSUME Control, NEW t \in Thread
    PROVE  /\ ThreadFits(t, at[t], loc[t]) /\ ModeFits(mode, t, at[t], loc[t])
           /\ left \in [Calls -> Nat] /\ writes \in Nat /\ done \in [Key -> SUBSET Int]
           /\ mode \in {"open", "closing", "closed", "failed"}
           /\ setting \in Setting
           /\ t \in Client /\ loc[t].op = "close" =>
                 /\ at[t] # "close.join_compactor" => at[Compactor] = "stopped"
                 /\ at[t] \in PastJoins => at[Flusher] = "stopped"
BY DEF Control, ThreadOK, Typed, OneCloses

\* The disjuncts of Next.
LEMMA NextCases ==
    ASSUME [Next]_vars
    PROVE  \/ \E c \in Client :
                 \/ WriteBatch(c) \/ NextRecord(c) \/ AppendRecord(c) \/ TryFreeze(c)
                 \/ ForceFlush(c) \/ FullCompaction(c)
                 \/ Get(c) \/ GetMemtable(c) \/ GetOld(c) \/ ReadReturns(c)
                 \/ Scan(c) \/ ScanOpen(c) \/ ScanNext(c) \/ ScanEnd(c)
                 \/ Close(c) \/ CloseJoin(c) \/ CloseMemtable(c) \/ CloseDrain(c) \/ CloseEnd(c)
                 \/ Open(c)
           \/ \E t \in Thread :
                 \/ ForceFreeze(t) \/ Swap(t) \/ ForceCheck(t) \/ FlushBuild(t) \/ FlushInstall(t)
                 \/ Merge(t) \/ Apply(t) \/ Install(t) \/ RemoveInputs(t) \/ StopThread(t)
           \/ FlushTick \/ CompactTick
           \/ UNCHANGED vars
BY ThreadsApart DEF Next, ClientCalls, Works, FlusherWorks, CompactorWorks, ClientWorks,
    WriterWorks, FlushWorks, CompactWorks, ReadWorks, CloseWorks

-----------------------------------------------------------------------------
(* Writers.                                                                *)

\* A call takes from what is left.
LEMMA CallLeaves ==
    ASSUME Control, NEW kind \in Calls, Call(kind)
    PROVE  left' \in [Calls -> Nat] /\ left[kind] > 0 /\ left'[kind] = left[kind] - 1
           /\ \A other \in Calls : other # kind => left'[other] = left[other]
<1>1. left \in [Calls -> Nat]
  BY DEF Control, Typed
<1>2. left[kind] > 0 /\ left' = [left EXCEPT ![kind] = left[kind] - 1]
  BY DEF Call
<1>3. left[kind] - 1 \in Nat
  BY <1>1, <1>2
<1> QED BY <1>1, <1>2, <1>3

\* A batch is a sequence of records.
LEMMA BatchOf ==
    ASSUME Control, NEW b \in Batches
    PROVE  b \in Seq(Record) /\ b # <<>> /\ Len(b) \in Nat /\ Dels(b) \in 0..Len(b)
           /\ \A i \in DOMAIN b : b[i].k \in setting.keys
<1>1. PICK n \in 1..MaxBatch : b \in [1..n -> Records]
  BY DEF Batches
<1>2. n \in Nat /\ n >= 1
  BY Week2Assumption
<1>3. setting.keys \subseteq Key
  BY DEF Control, Typed, Setting, Key
<1>4. Records \subseteq Record
  BY <1>3 DEF Records, Record
<1>5. b \in Seq(Record) /\ Len(b) = n /\ b # <<>> /\ DOMAIN b = 1..n
  BY <1>1, <1>2, <1>4
<1>6. Dels(b) \in 0..n
  <2> DEFINE D == {i \in DOMAIN b : b[i].del}
  <2>1. D \subseteq 1..n
    BY <1>5
  <2>2. IsFiniteSet(1..n) /\ Cardinality(1..n) = n
    BY <1>2, FS_Interval
  <2>3. IsFiniteSet(D) /\ Cardinality(D) <= n
    BY <2>1, <2>2, FS_Subset
  <2>4. Cardinality(D) \in Nat
    BY <2>3, FS_CardinalityType
  <2> QED BY <1>2, <2>3, <2>4 DEF Dels
<1>7. \A i \in DOMAIN b : b[i].k \in setting.keys
  BY <1>1, <1>5 DEF Records
<1> QED BY <1>2, <1>5, <1>6, <1>7

\* The locals of a writer that has inserted the first record of b.
Inserting(b) ==
    [op |-> "write", todo |-> Tail(b), mem |-> st.mem, k |-> b[1].k,
     e |-> IF b[1].del THEN -(writes + 1) ELSE writes + 1, before |-> done[b[1].k], new |-> 0]

\* A record is inserted, and its writer goes on to append it.
LEMMA InsertMoves ==
    ASSUME Control, StoreTyped, NEW c \in Client, NEW b \in Seq(Record), b # <<>>, Insert(c, b),
           at[c] \in {"idle", "insert"}, mode = "open", left' \in [Calls -> Nat]
    PROVE  Control'
<1>1. /\ Goto(c, "append", Inserting(b)) /\ UNCHANGED <<setting, controlVars>>
      /\ lock' = lock /\ writes' = writes + 1 /\ done' = done
  BY DEF Insert, Inserting
<1>2. b[1] \in Record /\ Tail(b) \in Seq(Record) /\ b[1].k \in Key /\ b[1].del \in BOOLEAN
  <2>1. Len(b) \in Nat /\ Len(b) >= 1 /\ 1 \in 1..Len(b)
    OBVIOUS
  <2>2. b[1] \in Record
    BY <2>1
  <2>3. Tail(b) \in Seq(Record)
    OBVIOUS
  <2> QED BY <2>2, <2>3 DEF Record
<1>3. st.mem \in Nat /\ writes \in Nat /\ done \in [Key -> SUBSET Int]
  BY DEF StoreTyped, State, Control, Typed
<1>4. Inserting(b) \in WriteLocals
  BY <1>2, <1>3 DEF Inserting, WriteLocals
<1>5. c \in Thread /\ ThreadFits(c, at[c], loc[c]) /\ c # Flusher /\ c # Compactor
  BY PlaceOf, ThreadsApart
<1>6. Inserting(b).op = "write"
  BY DEF Inserting
<1>7. loc[c].op \in {"none", "write"}
  BY <1>5, LocalsOf DEF WriteLocals
<1> HIDE DEF Inserting
<1>8. LocalsFit("append", Inserting(b))
  BY <1>4 DEF LocalsFit
<1>9. ThreadFits(c, "append", Inserting(b)) /\ ModeFits(mode, c, "append", Inserting(b))
  BY <1>5, <1>6 DEF ThreadFits, ModeFits
<1>10. LockMoves(c, "append") /\ CloseGoes(c, "append", Inserting(b))
  BY <1>1, <1>6 DEF LockMoves, CloseGoes, Holding
<1>11. writes' \in Nat /\ done' \in [Key -> SUBSET Int]
  BY <1>1, <1>3
<1>12. Move(c, "append", Inserting(b))
  BY <1>1, <1>8, <1>9, <1>10, <1>11 DEF Move
<1> QED BY <1>5, <1>12, MoveKeeps

\* What a writer that is done with a record does next keeps its place.
LEMMA AfterRecordFits ==
    ASSUME Control, NEW c \in Client, at[c] \in {"append", "freeze", "swap"}, loc[c] \in WriteLocals,
           NEW p, NEW l, \/ p = "freeze" /\ l = loc[c]
                         \/ p = "idle" /\ l = NoOp
                         \/ p = "insert" /\ l = loc[c] /\ loc[c].todo # <<>>
                         \/ p = "swap" /\ l = [loc[c] EXCEPT !.new = nextId] /\ nextId \in Nat
    PROVE  /\ LocalsFit(p, l) /\ ThreadFits(c, p, l) /\ ModeFits(mode, c, p, l) /\ CloseGoes(c, p, l)
           /\ mode = "open" /\ at[c] # "stopped"
<1>1. c \in Thread /\ c # Flusher /\ c # Compactor /\ loc[c].op = "write"
  BY ThreadsApart DEF WriteLocals
<1>2. ThreadFits(c, at[c], loc[c]) /\ ModeFits(mode, c, at[c], loc[c])
  BY <1>1, PlaceOf
<1>3. mode = "open"
  BY <1>1, <1>2 DEF ModeFits
<1>4. CASE p = "freeze" /\ l = loc[c]
  BY <1>1, <1>2, <1>3, <1>4 DEF LocalsFit, ThreadFits, ModeFits, CloseGoes
<1>5. CASE p = "idle" /\ l = NoOp
  BY <1>1, <1>2, <1>3, <1>5 DEF LocalsFit, ThreadFits, ModeFits, CloseGoes, NoOp
<1>6. CASE p = "insert" /\ l = loc[c] /\ loc[c].todo # <<>>
  BY <1>1, <1>2, <1>3, <1>6 DEF LocalsFit, ThreadFits, ModeFits, CloseGoes
<1>7. CASE p = "swap" /\ l = [loc[c] EXCEPT !.new = nextId] /\ nextId \in Nat
  <2>1. l \in WriteLocals /\ l.op = "write"
    BY <1>7 DEF WriteLocals
  <2> QED BY <1>1, <1>2, <1>3, <1>7, <2>1 DEF LocalsFit, ThreadFits, ModeFits, CloseGoes
<1> QED BY <1>4, <1>5, <1>6, <1>7

\* The end of a record is a move to the end of the call or to the next record.
LEMMA AfterRecordGoes ==
    ASSUME NEW c, AfterRecord(c)
    PROVE  \/ Goto(c, "idle", NoOp) /\ loc[c].todo = <<>>
           \/ Goto(c, "insert", loc[c]) /\ loc[c].todo # <<>>
BY DEF AfterRecord

\* A step of a writer, up to what is typed.
LEMMA WriterMoves ==
    ASSUME Control, NEW c \in Client, at[c] \in {"append", "freeze", "swap"}, loc[c] \in WriteLocals,
           NEW p, NEW l, \/ p = "freeze" /\ l = loc[c]
                         \/ p = "idle" /\ l = NoOp
                         \/ p = "insert" /\ l = loc[c] /\ loc[c].todo # <<>>
                         \/ p = "swap" /\ l = [loc[c] EXCEPT !.new = nextId] /\ nextId \in Nat,
           Goto(c, p, l), UNCHANGED <<setting, controlVars, left, writes>>, LockMoves(c, p),
           done' \in [Key -> SUBSET Int]
    PROVE  Control'
<1>1. c \in Thread
  BY ThreadsApart
<1>2. /\ LocalsFit(p, l) /\ ThreadFits(c, p, l) /\ ModeFits(mode, c, p, l) /\ CloseGoes(c, p, l)
      /\ at[c] # "stopped"
  BY AfterRecordFits
<1>3. left' \in [Calls -> Nat] /\ writes' \in Nat
  BY DEF Control, Typed
<1>4. Move(c, p, l)
  BY <1>2, <1>3 DEF Move
<1> QED BY <1>1, <1>4, MoveKeeps

\* wal.put keeps who does what.
LEMMA AppendMoves ==
    ASSUME Control, StoreTyped, NEW c \in Client, AppendRecord(c)
    PROVE  Control'
<1>1. at[c] = "append" /\ UNCHANGED <<setting, controlVars, left, writes>> /\ lock' = lock
      /\ done' = [done EXCEPT ![loc[c].k] = @ \cup {loc[c].e}]
      /\ (Goto(c, "freeze", loc[c]) \/ AfterRecord(c))
  BY DEF AppendRecord
<1>2. c \in Thread /\ loc[c] \in WriteLocals /\ done \in [Key -> SUBSET Int]
  BY <1>1, ThreadsApart, LocalsOf, PlaceOf
<1>3. done' \in [Key -> SUBSET Int]
  <2>1. loc[c].k \in Key /\ loc[c].e \in Int
    BY <1>2 DEF WriteLocals
  <2> QED BY <1>1, <1>2, <2>1
<1>4. LockMoves(c, "freeze") /\ LockMoves(c, "idle") /\ LockMoves(c, "insert")
  BY <1>1 DEF LockMoves, Holding
<1>5. CASE Goto(c, "freeze", loc[c])
  BY <1>1, <1>2, <1>3, <1>4, <1>5, WriterMoves
<1>6. CASE Goto(c, "idle", NoOp)
  BY <1>1, <1>2, <1>3, <1>4, <1>6, WriterMoves
<1>7. CASE Goto(c, "insert", loc[c]) /\ loc[c].todo # <<>>
  BY <1>1, <1>2, <1>3, <1>4, <1>7, WriterMoves
<1> QED BY <1>1, <1>5, <1>6, <1>7, AfterRecordGoes

\* So does try_freeze.
LEMMA TryFreezeMoves ==
    ASSUME Control, StoreTyped, NEW c \in Client, TryFreeze(c)
    PROVE  Control'
<1>1. at[c] = "freeze" /\ lock = Nobody /\ UNCHANGED <<setting, controlVars, left, writes, done>>
  BY DEF TryFreeze, historyVars
<1>2. c \in Thread /\ loc[c] \in WriteLocals /\ done' \in [Key -> SUBSET Int] /\ nextId \in Nat
  BY <1>1, ThreadsApart, LocalsOf, PlaceOf DEF StoreTyped
<1>3. CASE mt[st.mem].size >= setting.limit
  <2>1. lock' = c /\ Goto(c, "swap", [loc[c] EXCEPT !.new = nextId])
    BY <1>3 DEF TryFreeze, Goto
  <2>2. LockMoves(c, "swap")
    BY <1>1, <2>1 DEF LockMoves, Holding
  <2> QED BY <1>1, <1>2, <2>1, <2>2, WriterMoves
<1>4. CASE ~(mt[st.mem].size >= setting.limit)
  <2>1. AfterRecord(c) /\ lock' = lock
    BY <1>4 DEF TryFreeze
  <2>2. LockMoves(c, "idle") /\ LockMoves(c, "insert")
    BY <1>1, <2>1 DEF LockMoves, Holding
  <2>3. CASE Goto(c, "idle", NoOp)
    BY <1>1, <1>2, <2>2, <2>3, WriterMoves
  <2>4. CASE Goto(c, "insert", loc[c]) /\ loc[c].todo # <<>>
    BY <1>1, <1>2, <2>2, <2>4, WriterMoves
  <2> QED BY <2>1, <2>3, <2>4, AfterRecordGoes
<1> QED BY <1>3, <1>4

\* So does a call of write_batch.
LEMMA WriteBatchMoves ==
    ASSUME Control, StoreTyped, NEW c \in Client, WriteBatch(c)
    PROVE  Control'
<1>1. PICK b \in Batches :
         /\ Dels(b) <= left["del"] /\ Len(b) - Dels(b) <= left["put"]
         /\ left' = [left EXCEPT !["del"] = @ - Dels(b), !["put"] = @ - (Len(b) - Dels(b))]
         /\ Insert(c, b)
  BY DEF WriteBatch
<1>2. mode = "open" /\ at[c] = "idle"
  BY DEF WriteBatch, Idle
<1>3. b \in Seq(Record) /\ b # <<>> /\ Len(b) \in Nat /\ Dels(b) \in 0..Len(b)
  BY BatchOf
<1>4. left' \in [Calls -> Nat]
  <2>1. left \in [Calls -> Nat] /\ "del" \in Calls /\ "put" \in Calls
    BY DEF Control, Typed, Calls
  <2>2. left["del"] - Dels(b) \in Nat /\ left["put"] - (Len(b) - Dels(b)) \in Nat
    BY <1>1, <1>3, <2>1
  <2> QED BY <1>1, <2>1, <2>2
<1> QED BY <1>1, <1>2, <1>3, <1>4, InsertMoves

\* So does the next record of a batch.
LEMMA NextRecordMoves ==
    ASSUME Control, StoreTyped, NEW c \in Client, NextRecord(c)
    PROVE  Control'
<1>1. at[c] = "insert" /\ Insert(c, loc[c].todo) /\ left' = left
  BY DEF NextRecord
<1>2. c \in Thread /\ loc[c] \in WriteLocals /\ loc[c].todo # <<>>
  BY <1>1, ThreadsApart, LocalsOf
<1>3. loc[c].todo \in Seq(Record) /\ loc[c].op = "write"
  BY <1>2 DEF WriteLocals
<1>4. mode = "open"
  BY <1>2, <1>3, PlaceOf DEF ModeFits
<1>5. left' \in [Calls -> Nat]
  BY <1>1 DEF Control, Typed
<1> QED BY <1>1, <1>2, <1>3, <1>4, <1>5, InsertMoves

-----------------------------------------------------------------------------
(* Freezing and flushing.                                                  *)

\* A move that leaves the histories alone.
PlainMove(t, p, l) ==
    /\ Goto(t, p, l) /\ UNCHANGED <<setting, controlVars, writes, done>>
    /\ at[t] # "stopped" /\ LockMoves(t, p)
    /\ LocalsFit(p, l) /\ ThreadFits(t, p, l) /\ ModeFits(mode, t, p, l) /\ CloseGoes(t, p, l)

\* A move that leaves writes and history alone keeps who does what.
LEMMA PlainMoveKeeps ==
    ASSUME Control, NEW t \in Thread, NEW p, NEW l, PlainMove(t, p, l), left' \in [Calls -> Nat]
    PROVE  Control'
<1>1. Move(t, p, l)
  BY DEF PlainMove, Move, Control, Typed
<1> QED BY <1>1, MoveKeeps

\* So does force_flush.
LEMMA ForceFlushMoves ==
    ASSUME Control, NEW c \in Client, ForceFlush(c)
    PROVE  Control'
<1> DEFINE p == IF IsEmptyTable(mt[st.mem].data) THEN "ff.check" ELSE "ff.lock"
           l == [op |-> "force_flush"]
<1>1. /\ mode = "open" /\ at[c] = "idle" /\ Call("flush") /\ Goto(c, p, l)
      /\ UNCHANGED <<setting, controlVars, writes, done>> /\ lock' = lock
  BY DEF ForceFlush, Idle, historyVars
<1>2. c \in Thread /\ c # Flusher /\ c # Compactor /\ ThreadFits(c, at[c], loc[c])
  BY ThreadsApart, PlaceOf
<1>3. p \in {"ff.check", "ff.lock"} /\ l.op = "force_flush"
  OBVIOUS
<1> HIDE DEF p, l
<1>4. LocalsFit(p, l) /\ ThreadFits(c, p, l) /\ ModeFits(mode, c, p, l) /\ CloseGoes(c, p, l)
  BY <1>1, <1>2, <1>3 DEF LocalsFit, ThreadFits, ModeFits, CloseGoes
<1>5. PlainMove(c, p, l)
  BY <1>1, <1>3, <1>4 DEF PlainMove, LockMoves, Holding
<1>6. left' \in [Calls -> Nat]
  BY <1>1, CallLeaves DEF Calls
<1> QED BY <1>2, <1>5, <1>6, PlainMoveKeeps

\* The thread in force_flush is a client of an open engine.
LEMMA ForcedBy ==
    ASSUME Control, NEW t \in Thread, at[t] \in {"ff.lock", "ff.check"}
    PROVE  t \in Client /\ mode = "open" /\ loc[t].op = "force_flush"
           /\ t # Flusher /\ t # Compactor
<1>1. loc[t].op = "force_flush" /\ ThreadFits(t, at[t], loc[t]) /\ ModeFits(mode, t, at[t], loc[t])
  BY LocalsOf, PlaceOf
<1> QED BY <1>1, ThreadsApart DEF ThreadFits, ModeFits

\* So does the freeze of force_flush.
LEMMA ForceFreezeMoves ==
    ASSUME Control, StoreTyped, NEW t \in Thread, ForceFreeze(t)
    PROVE  Control'
<1> DEFINE l == [op |-> "force_flush", new |-> nextId]
<1>1. /\ at[t] = "ff.lock" /\ lock = Nobody /\ lock' = t /\ Goto(t, "swap", l)
      /\ UNCHANGED <<setting, controlVars, writes, done>> /\ left' = left
  BY DEF ForceFreeze, historyVars
<1>2. t \in Client /\ mode = "open" /\ t # Flusher /\ t # Compactor
      /\ ThreadFits(t, at[t], loc[t]) /\ left \in [Calls -> Nat] /\ loc[t].op = "force_flush"
  BY <1>1, ForcedBy, PlaceOf
<1>3. l \in [op : {"force_flush"}, new : Nat] /\ l.op = "force_flush"
  BY DEF StoreTyped
<1> HIDE DEF l
<1>4. LocalsFit("swap", l) /\ ThreadFits(t, "swap", l) /\ ModeFits(mode, t, "swap", l)
      /\ CloseGoes(t, "swap", l)
  BY <1>1, <1>2, <1>3 DEF LocalsFit, ThreadFits, ModeFits, CloseGoes
<1>5. PlainMove(t, "swap", l)
  BY <1>1, <1>4 DEF PlainMove, LockMoves, Holding
<1> QED BY <1>1, <1>2, <1>5, PlainMoveKeeps

\* So does its look at the immutable memtables.
LEMMA ForceCheckMoves ==
    ASSUME Control, NEW t \in Thread, ForceCheck(t)
    PROVE  Control'
<1>1. /\ at[t] = "ff.check" /\ lock' = lock /\ left' = left
      /\ UNCHANGED <<setting, controlVars, writes, done>>
      /\ (Goto(t, "idle", NoOp) \/ Goto(t, "flush", loc[t]))
  BY DEF ForceCheck, historyVars
<1>2. t \in Client /\ mode = "open" /\ t # Flusher /\ t # Compactor
      /\ ThreadFits(t, at[t], loc[t]) /\ left \in [Calls -> Nat] /\ loc[t].op = "force_flush"
  BY <1>1, ForcedBy, PlaceOf
<1>3. \A p \in {"idle", "flush"} : LockMoves(t, p)
  BY <1>1 DEF LockMoves, Holding
<1>4. LocalsFit("flush", loc[t]) /\ ThreadFits(t, "flush", loc[t]) /\ ModeFits(mode, t, "flush", loc[t])
      /\ CloseGoes(t, "flush", loc[t])
  BY <1>1, <1>2 DEF LocalsFit, ThreadFits, ModeFits, CloseGoes, FlushOps
<1>5. LocalsFit("idle", NoOp) /\ ThreadFits(t, "idle", NoOp) /\ ModeFits(mode, t, "idle", NoOp)
      /\ CloseGoes(t, "idle", NoOp)
  BY <1>1, <1>2 DEF LocalsFit, ThreadFits, ModeFits, CloseGoes, NoOp
<1>6. PlainMove(t, "flush", loc[t]) \/ PlainMove(t, "idle", NoOp)
  BY <1>1, <1>3, <1>4, <1>5 DEF PlainMove
<1> QED BY <1>1, <1>2, <1>6, PlainMoveKeeps

\* So does the replacement of the memtable.
LEMMA SwapMoves ==
    ASSUME Control, NEW t \in Thread, Swap(t)
    PROVE  Control'
<1>1. /\ at[t] = "swap" /\ lock' = Nobody /\ left' = left
      /\ UNCHANGED <<setting, controlVars, writes, done>>
      /\ IF loc[t].op = "write" THEN AfterRecord(t) ELSE Goto(t, "ff.check", loc[t])
  BY DEF Swap, historyVars
<1>2. /\ ThreadFits(t, at[t], loc[t]) /\ ModeFits(mode, t, at[t], loc[t]) /\ left \in [Calls -> Nat]
      /\ loc[t] \in WriteLocals \cup [op : {"force_flush"}, new : Nat]
      /\ done' \in [Key -> SUBSET Int]
  BY <1>1, LocalsOf, PlaceOf
<1>3. t \in Client /\ t # Flusher /\ t # Compactor
  BY <1>1, <1>2, ThreadsApart DEF ThreadFits
<1>4. \A p \in {"idle", "insert", "ff.check"} : LockMoves(t, p)
  BY <1>1 DEF LockMoves, Holding
<1>5. CASE loc[t].op = "write"
  <2>1. loc[t] \in WriteLocals
    BY <1>2, <1>5
  <2>2. AfterRecord(t)
    BY <1>1, <1>5
  <2>3. CASE Goto(t, "idle", NoOp)
    BY <1>1, <1>2, <1>3, <1>4, <2>1, <2>3, WriterMoves
  <2>4. CASE Goto(t, "insert", loc[t]) /\ loc[t].todo # <<>>
    BY <1>1, <1>2, <1>3, <1>4, <2>1, <2>4, WriterMoves
  <2> QED BY <2>2, <2>3, <2>4, AfterRecordGoes
<1>6. CASE loc[t].op # "write"
  <2>1. loc[t].op = "force_flush"
    BY <1>2, <1>6 DEF WriteLocals
  <2>2. LocalsFit("ff.check", loc[t]) /\ ThreadFits(t, "ff.check", loc[t])
        /\ ModeFits(mode, t, "ff.check", loc[t]) /\ CloseGoes(t, "ff.check", loc[t])
    BY <1>1, <1>2, <1>3, <2>1 DEF LocalsFit, ThreadFits, ModeFits, CloseGoes
  <2>3. PlainMove(t, "ff.check", loc[t])
    BY <1>1, <1>4, <1>6, <2>2 DEF PlainMove
  <2> QED BY <1>1, <1>2, <2>3, PlainMoveKeeps
<1> QED BY <1>5, <1>6

\* A thread may panic wherever it may be without being sent away.
LEMMA PanicFits ==
    ASSUME Control, NEW t \in Thread, NEW x, at[t] \notin {"idle", "stopped"}
    PROVE  LET l == [op |-> "none", cause |-> x]
           IN LocalsFit("panicked", l) /\ ThreadFits(t, "panicked", l)
              /\ ModeFits(mode, t, "panicked", l) /\ CloseGoes(t, "panicked", l)
<1> DEFINE l == [op |-> "none", cause |-> x]
<1>1. l.op = "none"
  OBVIOUS
<1> HIDE DEF l
<1>2. ThreadFits(t, at[t], loc[t])
  BY PlaceOf
<1>3. LocalsFit("panicked", l) /\ ThreadFits(t, "panicked", l)
      /\ ModeFits(mode, t, "panicked", l) /\ CloseGoes(t, "panicked", l)
  BY <1>1, <1>2, ThreadsApart DEF LocalsFit, ThreadFits, ModeFits, CloseGoes
<1> QED BY <1>3 DEF l

\* So does building the table of a flush, or panicking there.
LEMMA FlushBuildMoves ==
    ASSUME Control, StoreTyped, NEW t \in Thread, FlushBuild(t)
    PROVE  Control'
<1>1. /\ at[t] = "flush" /\ lock = Nobody /\ left' = left
      /\ UNCHANGED <<setting, controlVars, writes, done>>
  BY DEF FlushBuild, historyVars
<1>2. /\ ThreadFits(t, at[t], loc[t]) /\ ModeFits(mode, t, at[t], loc[t]) /\ left \in [Calls -> Nat]
      /\ loc[t].op \in FlushOps /\ CloseGoes(t, at[t], loc[t])
  BY <1>1, LocalsOf, PlaceOf DEF CloseGoes
<1>3. CASE st.imm = <<>> \/ IsEmptyTable(mt[Last(st.imm)].data)
  <2> DEFINE l == [op |-> "none", cause |-> "nothing to flush"]
  <2>1. Goto(t, "panicked", l) /\ lock' = lock
    BY <1>3 DEF FlushBuild, Panic
  <2>2. LocalsFit("panicked", l) /\ ThreadFits(t, "panicked", l)
        /\ ModeFits(mode, t, "panicked", l) /\ CloseGoes(t, "panicked", l)
    BY <1>1, PanicFits
  <2> HIDE DEF l
  <2>3. PlainMove(t, "panicked", l)
    BY <1>1, <2>1, <2>2 DEF PlainMove, LockMoves, Holding
  <2> QED BY <1>1, <1>2, <2>3, PlainMoveKeeps
<1>4. CASE ~(st.imm = <<>> \/ IsEmptyTable(mt[Last(st.imm)].data))
  <2> DEFINE l == [op |-> loc[t].op, id |-> Last(st.imm)]
  <2>1. Goto(t, "flush.install", l) /\ lock' = t
    BY <1>4 DEF FlushBuild
  <2>2. st.imm \in Seq(Nat)
    BY DEF StoreTyped, State
  <2>3. l \in [op : FlushOps, id : Nat] /\ l.op = loc[t].op
    BY <1>2, <1>4, <2>2, FrontOf
  <2> HIDE DEF l
  <2>4. LocalsFit("flush.install", l) /\ ThreadFits(t, "flush.install", l)
        /\ ModeFits(mode, t, "flush.install", l) /\ CloseGoes(t, "flush.install", l)
    BY <1>1, <1>2, <2>3 DEF LocalsFit, ThreadFits, ModeFits, CloseGoes, FlushOps, PastJoins
  <2>5. PlainMove(t, "flush.install", l)
    BY <1>1, <2>1, <2>4 DEF PlainMove, LockMoves, Holding
  <2> QED BY <1>1, <1>2, <2>5, PlainMoveKeeps
<1> QED BY <1>3, <1>4

\* So does the end of a flush.
LEMMA FlushInstallMoves ==
    ASSUME Control, NEW t \in Thread, FlushInstall(t)
    PROVE  Control'
<1>1. /\ at[t] = "flush.install" /\ lock' = Nobody /\ left' = left
      /\ UNCHANGED <<setting, controlVars, writes, done>>
      /\ \/ Goto(t, "panicked", [op |-> "none", cause |-> "another memtable"])
         \/ Goto(t, "close.drain", [op |-> "close"]) /\ loc[t].op = "close"
         \/ Goto(t, "idle", NoOp) /\ loc[t].op # "close"
  BY DEF FlushInstall, Panic, historyVars
<1>2. /\ ThreadFits(t, at[t], loc[t]) /\ ModeFits(mode, t, at[t], loc[t]) /\ left \in [Calls -> Nat]
      /\ loc[t] \in [op : FlushOps, id : Nat] /\ CloseGoes(t, at[t], loc[t])
  BY <1>1, LocalsOf, PlaceOf DEF CloseGoes
<1>3. \A p \in {"idle", "close.drain", "panicked"} : LockMoves(t, p)
  BY <1>1 DEF LockMoves, Holding
<1>4. CASE Goto(t, "panicked", [op |-> "none", cause |-> "another memtable"])
  <2> DEFINE l == [op |-> "none", cause |-> "another memtable"]
  <2>2. LocalsFit("panicked", l) /\ ThreadFits(t, "panicked", l)
        /\ ModeFits(mode, t, "panicked", l) /\ CloseGoes(t, "panicked", l)
    BY <1>1, PanicFits
  <2>3. PlainMove(t, "panicked", l)
    BY <1>1, <1>3, <1>4, <2>2 DEF PlainMove
  <2> QED BY <1>1, <1>2, <2>3, PlainMoveKeeps
<1>5. CASE Goto(t, "close.drain", [op |-> "close"]) /\ loc[t].op = "close"
  <2> DEFINE l == [op |-> "close"]
  <2>1. l.op = "close"
    OBVIOUS
  <2>2. t \in Client /\ t # Flusher /\ t # Compactor
    BY <1>1, <1>2, <1>5, ThreadsApart DEF ThreadFits
  <2> HIDE DEF l
  <2>3. LocalsFit("close.drain", l) /\ ThreadFits(t, "close.drain", l)
        /\ ModeFits(mode, t, "close.drain", l) /\ CloseGoes(t, "close.drain", l)
    BY <1>1, <1>2, <1>5, <2>1, <2>2 DEF LocalsFit, ThreadFits, ModeFits, CloseGoes, PastJoins
  <2>4. PlainMove(t, "close.drain", l)
    BY <1>1, <1>3, <1>5, <2>3 DEF PlainMove, l
  <2> QED BY <1>1, <1>2, <2>4, PlainMoveKeeps
<1>6. CASE Goto(t, "idle", NoOp) /\ loc[t].op # "close"
  <2>1. LocalsFit("idle", NoOp) /\ ThreadFits(t, "idle", NoOp)
        /\ ModeFits(mode, t, "idle", NoOp) /\ CloseGoes(t, "idle", NoOp)
    BY <1>1, <1>2, <1>6, ThreadsApart DEF LocalsFit, ThreadFits, ModeFits, CloseGoes, NoOp
  <2>2. PlainMove(t, "idle", NoOp)
    BY <1>1, <1>3, <1>6, <2>1 DEF PlainMove
  <2> QED BY <1>1, <1>2, <2>2, PlainMoveKeeps
<1> QED BY <1>1, <1>4, <1>5, <1>6

\* So does a tick of the flush thread.
LEMMA FlushTickMoves ==
    ASSUME Control, FlushTick
    PROVE  Control'
<1> DEFINE l == [op |-> "tick"]
<1>1. /\ at[Flusher] = "idle" /\ Goto(Flusher, "flush", l) /\ lock' = lock /\ left' = left
      /\ UNCHANGED <<setting, controlVars, writes, done>>
  BY DEF FlushTick, Idle, historyVars
<1>2. Flusher \in Thread /\ Flusher \notin Client /\ Flusher # Compactor /\ left \in [Calls -> Nat]
  BY ThreadsApart, PlaceOf
<1>3. l.op = "tick"
  OBVIOUS
<1> HIDE DEF l
<1>4. LocalsFit("flush", l) /\ ThreadFits(Flusher, "flush", l)
      /\ ModeFits(mode, Flusher, "flush", l) /\ CloseGoes(Flusher, "flush", l)
  <2>1. mode # "failed"
    BY <1>1, <1>2, PlaceOf DEF ModeFits
  <2> QED BY <1>1, <1>2, <1>3, <2>1 DEF LocalsFit, ThreadFits, ModeFits, CloseGoes, FlushOps
<1>5. PlainMove(Flusher, "flush", l)
  BY <1>1, <1>4 DEF PlainMove, LockMoves, Holding
<1> QED BY <1>1, <1>2, <1>5, PlainMoveKeeps

-----------------------------------------------------------------------------
(* Compaction.                                                             *)

\* The inputs of a task are ids, and its levels there are.
LEMMA TaskOf ==
    ASSUME NEW task \in Task
    PROVE  /\ task.us \in Seq(Nat) /\ task.ls \in Seq(Nat) /\ Inputs(task) \in Seq(Nat)
           /\ Ids(Inputs(task)) = Ids(task.us) \cup Ids(task.ls)
           /\ task.bottom \in BOOLEAN /\ task.upper \in 0..MaxLevels /\ task.lower \in 1..MaxLevels
           /\ task.upper \in Nat /\ task.lower \in Nat
BY IdsOf, Week2Assumption DEF Task, Inputs

\* A full task, and one that the controller makes, take tables of the state.
LEMMA TasksAre ==
    ASSUME StoreTyped, Control, NEW task,
           \/ task = FullTask(st) /\ ~setting.simple
           \/ task = SimpleTask(st) /\ task # NoTask /\ setting.simple
    PROVE  /\ task \in Task
           /\ task.us = IF task.upper = 0 THEN st.l0 ELSE st.levels[task.upper]
           /\ task.ls = st.levels[task.lower]
           /\ task.lower = task.upper + 1 /\ task.lower \in 1..Len(st.levels)
           /\ task.bottom => task.lower = Len(st.levels)
           /\ Ids(Inputs(task)) \subseteq TableIds(st)
<1>1. /\ st.l0 \in Seq(Nat) /\ st.levels \in Seq(Seq(Nat)) /\ MaxLevels \in Nat \ {0}
      /\ Len(st.levels) = IF setting.simple THEN MaxLevels ELSE 1
      /\ Ids(st.l0) \subseteq TableIds(st)
      /\ \A i \in 1..Len(st.levels) : st.levels[i] \in Seq(Nat) /\ Ids(st.levels[i]) \subseteq TableIds(st)
  BY TableIdsOf, Week2Assumption DEF StoreTyped
<1>2. ASSUME task.upper \in 0..MaxLevels, task.lower \in 1..Len(st.levels), task.bottom \in BOOLEAN,
             task.us = IF task.upper = 0 THEN st.l0 ELSE st.levels[task.upper],
             task.upper # 0 => task.upper \in 1..Len(st.levels),
             task.ls = st.levels[task.lower],
             task = [upper |-> task.upper, us |-> task.us, lower |-> task.lower,
                     ls |-> task.ls, bottom |-> task.bottom]
      PROVE  task \in Task /\ Ids(Inputs(task)) \subseteq TableIds(st)
  <2>1. task.us \in Seq(Nat) /\ Ids(task.us) \subseteq TableIds(st)
    BY <1>1, <1>2
  <2>2. task.ls \in Seq(Nat) /\ Ids(task.ls) \subseteq TableIds(st)
    BY <1>1, <1>2
  <2>3. task.lower \in 1..MaxLevels
    BY <1>1, <1>2
  <2>4. [upper |-> task.upper, us |-> task.us, lower |-> task.lower,
         ls |-> task.ls, bottom |-> task.bottom] \in Task
    BY <1>2, <2>1, <2>2, <2>3 DEF Task
  <2>5. task \in Task
    BY <1>2, <2>4
  <2> QED BY <2>1, <2>2, <2>5, TaskOf
<1>3. CASE task = FullTask(st) /\ ~setting.simple
  <2>1. task = [upper |-> 0, us |-> st.l0, lower |-> 1, ls |-> st.levels[1], bottom |-> TRUE]
    BY <1>3 DEF FullTask
  <2>2. 1 \in 1..Len(st.levels) /\ Len(st.levels) = 1
    BY <1>1, <1>3
  <2>3. /\ task.upper = 0 /\ task.us = st.l0 /\ task.lower = 1 /\ task.ls = st.levels[1]
        /\ task.bottom = TRUE
    BY <2>1
  <2>4. task \in Task /\ Ids(Inputs(task)) \subseteq TableIds(st)
    <3>1. 0 \in 0..MaxLevels
      BY <1>1
    <3> QED BY <1>2, <2>1, <2>2, <2>3, <3>1
  <2> QED BY <2>2, <2>3, <2>4
<1>4. CASE task = SimpleTask(st) /\ task # NoTask /\ setting.simple /\ Len(st.l0) >= Trigger
  <2>1. task = [upper |-> 0, us |-> st.l0, lower |-> 1, ls |-> st.levels[1], bottom |-> FALSE]
    BY <1>4 DEF SimpleTask
  <2>2. 1 \in 1..Len(st.levels)
    BY <1>1, <1>4
  <2>3. /\ task.upper = 0 /\ task.us = st.l0 /\ task.lower = 1 /\ task.ls = st.levels[1]
        /\ task.bottom = FALSE
    BY <2>1
  <2>4. task \in Task /\ Ids(Inputs(task)) \subseteq TableIds(st)
    <3>1. 0 \in 0..MaxLevels
      BY <1>1
    <3> QED BY <1>2, <2>1, <2>2, <2>3, <3>1
  <2> QED BY <2>2, <2>3, <2>4
<1>5. CASE task = SimpleTask(st) /\ task # NoTask /\ setting.simple /\ ~(Len(st.l0) >= Trigger)
  <2> DEFINE small == {i \in 1..(MaxLevels - 1) : Len(st.levels[i + 1]) < Len(st.levels[i])}
             n == CHOOSE i \in small : \A j \in small : i <= j
  <2>1. small # {} /\ task = [upper |-> n, us |-> st.levels[n], lower |-> n + 1,
                              ls |-> st.levels[n + 1], bottom |-> n + 1 = MaxLevels]
    BY <1>5 DEF SimpleTask
  <2>2. small \in SUBSET Nat
    BY <1>1
  <2>3. \E i \in small : \A j \in small : i <= j
    <3> HIDE DEF small
    <3> QED BY <2>1, <2>2, LeastOf
  <2>4. n \in small
    <3> HIDE DEF small
    <3> QED BY <2>3
  <2>5. n \in 1..(MaxLevels - 1)
    BY <2>4
  <2> HIDE DEF n, small
  <2>6. n \in 1..Len(st.levels) /\ n + 1 \in 1..Len(st.levels) /\ n \in 0..MaxLevels /\ n # 0
        /\ Len(st.levels) = MaxLevels
    BY <1>1, <1>5, <2>5
  <2> QED BY <1>1, <1>2, <2>1, <2>6
<1> QED BY <1>3, <1>4, <1>5

\* The compaction thread, or a client that forces a full compaction of an open engine.
LEMMA CompactedBy ==
    ASSUME Control, NEW t \in Thread, at[t] \in {"merge", "apply", "install", "remove"}
    PROVE  /\ t # Flusher /\ loc[t].op = "compact" /\ (t = Compactor <=> setting.simple)
           /\ t \in Client => mode = "open"
           /\ loc[t].task \in Task
           /\ ThreadFits(t, at[t], loc[t]) /\ ModeFits(mode, t, at[t], loc[t])
<1>1. /\ ThreadFits(t, at[t], loc[t]) /\ ModeFits(mode, t, at[t], loc[t])
      /\ loc[t].op = "compact" /\ loc[t].task \in Task /\ mode \in {"open", "closing", "closed", "failed"}
  BY LocalsOf, PlaceOf
<1> QED BY <1>1, ThreadsApart DEF ThreadFits, ModeFits

\* In a compaction one place follows another.
LEMMA CompactFits ==
    ASSUME Control, NEW t \in Thread, at[t] \in {"merge", "apply", "install", "remove"},
           NEW p, NEW l, \/ p = "apply" /\ l \in [op : {"compact"}, task : Task, ids : Seq(Nat)]
                         \/ p = "install"
                            /\ l \in [op : {"compact"}, task : Task, ids : Seq(Nat), st : State]
                         \/ p = "remove" /\ l \in [op : {"compact"}, task : Task]
                         \/ p = "idle" /\ l = NoOp
    PROVE  /\ LocalsFit(p, l) /\ ThreadFits(t, p, l) /\ ModeFits(mode, t, p, l)
           /\ CloseGoes(t, p, l) /\ at[t] # "stopped"
<1>1. /\ t # Flusher /\ loc[t].op = "compact" /\ (t = Compactor <=> setting.simple)
      /\ t \in Client => mode = "open"
      /\ ThreadFits(t, at[t], loc[t]) /\ ModeFits(mode, t, at[t], loc[t])
  BY CompactedBy
<1>2. CASE p = "idle" /\ l = NoOp
  BY <1>1, <1>2, ThreadsApart DEF LocalsFit, ThreadFits, ModeFits, CloseGoes, NoOp
<1>3. CASE p # "idle"
  <2>1. l.op = "compact" /\ p \in {"apply", "install", "remove"}
    BY <1>3
  <2>2. LocalsFit(p, l)
    BY <1>3 DEF LocalsFit
  <2>3. mode \in {"open", "closing", "closed", "failed"} /\ mode # "failed"
    BY <1>1, PlaceOf DEF ModeFits
  <2> QED BY <1>1, <2>1, <2>2, <2>3, ThreadsApart DEF ThreadFits, ModeFits, CloseGoes
<1> QED BY <1>2, <1>3

\* A tick of the compaction thread keeps who does what.
LEMMA CompactTickMoves ==
    ASSUME Control, StoreTyped, CompactTick
    PROVE  Control'
<1> DEFINE l == [op |-> "compact", task |-> SimpleTask(st)]
<1>1. /\ at[Compactor] = "idle" /\ Goto(Compactor, "merge", l) /\ lock' = lock /\ left' = left
      /\ UNCHANGED <<setting, controlVars, writes, done>>
      /\ setting.simple /\ SimpleTask(st) # NoTask
  BY DEF CompactTick, Idle, historyVars
<1>2. /\ Compactor \in Thread /\ Compactor \notin Client /\ Flusher # Compactor
      /\ left \in [Calls -> Nat] /\ mode # "failed"
      /\ mode \in {"open", "closing", "closed", "failed"}
  BY <1>1, ThreadsApart, PlaceOf DEF ModeFits
<1>3. l.op = "compact" /\ l \in [op : {"compact"}, task : Task]
  <2>1. SimpleTask(st) \in Task
    BY <1>1, TasksAre
  <2> QED BY <2>1
<1> HIDE DEF l
<1>4. LocalsFit("merge", l) /\ ThreadFits(Compactor, "merge", l)
      /\ ModeFits(mode, Compactor, "merge", l) /\ CloseGoes(Compactor, "merge", l)
  BY <1>1, <1>2, <1>3 DEF LocalsFit, ThreadFits, ModeFits, CloseGoes
<1>5. PlainMove(Compactor, "merge", l)
  BY <1>1, <1>4 DEF PlainMove, LockMoves, Holding
<1> QED BY <1>1, <1>2, <1>5, PlainMoveKeeps

\* So does a call of force_full_compaction.
LEMMA FullCompactionMoves ==
    ASSUME Control, StoreTyped, NEW c \in Client, FullCompaction(c)
    PROVE  Control'
<1> DEFINE l == [op |-> "compact", task |-> FullTask(st)]
<1>1. /\ at[c] = "idle" /\ Goto(c, "merge", l) /\ lock' = lock /\ Call("full")
      /\ UNCHANGED <<setting, controlVars, writes, done>>
      /\ ~setting.simple /\ mode = "open"
  BY DEF FullCompaction, Idle, historyVars
<1>2. c \in Thread /\ c # Flusher /\ c # Compactor
  BY ThreadsApart
<1>3. l.op = "compact" /\ l \in [op : {"compact"}, task : Task]
  <2>1. FullTask(st) \in Task
    BY <1>1, TasksAre
  <2> QED BY <2>1
<1> HIDE DEF l
<1>4. LocalsFit("merge", l) /\ ThreadFits(c, "merge", l)
      /\ ModeFits(mode, c, "merge", l) /\ CloseGoes(c, "merge", l)
  BY <1>1, <1>2, <1>3 DEF LocalsFit, ThreadFits, ModeFits, CloseGoes
<1>5. PlainMove(c, "merge", l)
  BY <1>1, <1>4 DEF PlainMove, LockMoves, Holding
<1>6. left' \in [Calls -> Nat]
  BY <1>1, CallLeaves DEF Calls
<1> QED BY <1>2, <1>5, <1>6, PlainMoveKeeps

\* Of the tables a compaction has built there are finitely many.
LEMMA BuiltTyped ==
    ASSUME NEW m \in Table, NEW bottom \in BOOLEAN
    PROVE  Built(m, bottom) \in Builder
BY BuiltAll DEF BuiltUpTo

\* What is merged of a task, from tables at hand.
MergedOf(f, task) == [k \in Key |-> Or(Lookup(f, task.us, k), Lookup(f, task.ls, k))]

\* What compact merges is the first entry of the inputs, for each key.
LEMMA MergedIs ==
    ASSUME NEW task, AtHand(sst, task.us), AtHand(sst, task.ls)
    PROVE  Merged(task) = MergedOf(sst, task) /\ Merged(task) \in Table
<1>1. /\ Contents(task.us) = [i \in 1..Len(task.us) |-> sst[task.us[i]]]
      /\ Contents(task.ls) = [i \in 1..Len(task.ls) |-> sst[task.ls[i]]]
  BY DEF Contents
<1>2. Contents(task.us) \in Seq(Table) /\ Contents(task.ls) \in Seq(Table)
  BY <1>1, TablesOf
<1>3. ASSUME NEW k \in Key
      PROVE  /\ Newest(Contents(task.us) \o Contents(task.ls), k)
                = Or(Lookup(sst, task.us, k), Lookup(sst, task.ls, k))
             /\ Lookup(sst, task.us, k) \in Int /\ Lookup(sst, task.ls, k) \in Int
  <2>1. Newest(Contents(task.us) \o Contents(task.ls), k)
           = Or(Newest(Contents(task.us), k), Newest(Contents(task.ls), k))
    BY <1>2, NewestJoined
  <2>2. Newest(Contents(task.us), k) = Lookup(sst, task.us, k)
        /\ Newest(Contents(task.ls), k) = Lookup(sst, task.ls, k)
    BY <1>1 DEF Lookup
  <2> QED BY <2>1, <2>2, LookupType
<1>4. \A k \in Key : Or(Lookup(sst, task.us, k), Lookup(sst, task.ls, k)) \in Int
  BY <1>3 DEF Or
<1> QED BY <1>3, <1>4 DEF Merged, MergedOf, Table

\* The tables that a task takes are at hand.
LEMMA TaskAtHand ==
    ASSUME Control, StoreTyped, TablesHeld, NEW t \in Thread,
           at[t] \in {"merge", "apply", "install", "remove"}
    PROVE  AtHand(sst, loc[t].task.us) /\ AtHand(sst, loc[t].task.ls)
<1>1. loc[t].task \in Task
  BY CompactedBy
<1>2. t \in Compacting /\ Taken(t) \subseteq Held /\ Held \subseteq DOMAIN sst
  <2>1. t \in Compacting
    BY DEF Compacting
  <2>2. Taken(t) \subseteq Held
    BY <2>1, HeldHas
  <2> QED BY <2>1, <2>2 DEF TablesHeld
<1>3. Ids(loc[t].task.us) \subseteq DOMAIN sst /\ Ids(loc[t].task.ls) \subseteq DOMAIN sst
  BY <1>1, <1>2, TaskOf DEF Taken
<1>4. \A i \in DOMAIN sst : sst[i] \in Table
  BY DEF StoreTyped
<1> QED BY <1>1, <1>3, <1>4, TaskOf DEF AtHand

\* What Merge makes of the tables it was given.
MergeResult(t) == Built(Merged(loc[t].task), loc[t].task.bottom)
Dead(b)      == b.open /\ IsEmptyTable(b.cur)
OutOf(b)     == IF b.open /\ ~Dead(b) THEN Append(b.out, b.cur) ELSE b.out
OutIds(b)    == [i \in 1..Len(OutOf(b)) |-> nextId + i - 1]

\* Merge, by the names above.
LEMMA MergeIs ==
    ASSUME NEW t, Merge(t)
    PROVE  LET b == MergeResult(t) IN
           /\ at[t] = "merge"
           /\ sst' = [i \in DOMAIN sst \cup Ids(OutIds(b)) |->
                        IF i \in Ids(OutIds(b)) THEN OutOf(b)[i - nextId + 1] ELSE sst[i]]
           /\ files' = files \cup Ids(OutIds(b))
           /\ nextId' = nextId + Len(OutOf(b)) + (IF Dead(b) THEN 1 ELSE 0)
           /\ IF Dead(b) THEN Panic(t, "empty table")
              ELSE Goto(t, "apply", [op |-> "compact", task |-> loc[t].task, ids |-> OutIds(b)])
           /\ UNCHANGED <<st, mt, wal, manifest, lock, controlVars, historyVars, left, setting>>
BY DEF Merge, MergeResult, Dead, OutOf, OutIds

\* The new tables get the next ids.
LEMMA OutIdsOf ==
    ASSUME NEW b \in Builder, nextId \in Nat
    PROVE  /\ OutOf(b) \in Seq(Table) /\ Len(OutOf(b)) \in Nat
           /\ OutIds(b) \in Seq(Nat) /\ Len(OutIds(b)) = Len(OutOf(b))
           /\ Ids(OutIds(b)) = nextId..(nextId + Len(OutOf(b)) - 1)
           /\ \A i \in 1..Len(OutOf(b)) : OutIds(b)[i] = nextId + i - 1
<1>1. OutOf(b) \in Seq(Table)
  BY DEF Builder, OutOf
<1>2. Len(OutOf(b)) \in Nat
  BY <1>1
<1>3. OutIds(b) \in Seq(Nat) /\ Len(OutIds(b)) = Len(OutOf(b))
      /\ \A i \in 1..Len(OutOf(b)) : OutIds(b)[i] = nextId + i - 1
  BY <1>2 DEF OutIds
<1>4. Ids(OutIds(b)) = nextId..(nextId + Len(OutOf(b)) - 1)
  <2>1. Ids(OutIds(b)) = {nextId + i - 1 : i \in 1..Len(OutOf(b))}
    BY <1>3 DEF Ids
  <2>2. ASSUME NEW x \in nextId..(nextId + Len(OutOf(b)) - 1)
        PROVE  x \in {nextId + i - 1 : i \in 1..Len(OutOf(b))}
    <3>1. x - nextId + 1 \in 1..Len(OutOf(b)) /\ x = nextId + (x - nextId + 1) - 1
      BY <1>2
    <3> QED BY <3>1
  <2> QED BY <1>2, <2>1, <2>2
<1> QED BY <1>1, <1>2, <1>3, <1>4

\* Building the tables of a compaction keeps who does what.
LEMMA MergeMoves ==
    ASSUME Control, StoreTyped, TablesHeld, NEW t \in Thread, Merge(t)
    PROVE  Control'
<1> DEFINE b == MergeResult(t)
           l == [op |-> "compact", task |-> loc[t].task, ids |-> OutIds(b)]
           pan == [op |-> "none", cause |-> "empty table"]
<1>1. /\ at[t] = "merge" /\ lock' = lock /\ left' = left
      /\ UNCHANGED <<setting, controlVars, writes, done>>
      /\ Goto(t, "panicked", pan) \/ Goto(t, "apply", l)
  BY MergeIs DEF Panic, historyVars
<1>2. loc[t].task \in Task /\ left \in [Calls -> Nat]
  BY <1>1, CompactedBy, PlaceOf
<1>3. b \in Builder
  <2>1. Merged(loc[t].task) \in Table
    BY <1>1, TaskAtHand, MergedIs
  <2> QED BY <1>2, <2>1, BuiltTyped, TaskOf DEF MergeResult
<1>4. OutIds(b) \in Seq(Nat)
  BY <1>3, OutIdsOf DEF StoreTyped
<1> HIDE DEF b
<1>5. l \in [op : {"compact"}, task : Task, ids : Seq(Nat)]
  BY <1>2, <1>4
<1>6. /\ LocalsFit("apply", l) /\ ThreadFits(t, "apply", l) /\ ModeFits(mode, t, "apply", l)
      /\ CloseGoes(t, "apply", l) /\ at[t] # "stopped"
  <2> HIDE DEF l
  <2> QED BY <1>1, <1>5, CompactFits
<1>7. LocalsFit("panicked", pan) /\ ThreadFits(t, "panicked", pan)
      /\ ModeFits(mode, t, "panicked", pan) /\ CloseGoes(t, "panicked", pan)
  BY <1>1, PanicFits
<1>8. LockMoves(t, "apply") /\ LockMoves(t, "panicked")
  BY <1>1 DEF LockMoves, Holding
<1> HIDE DEF l, pan
<1>9. PlainMove(t, "apply", l) \/ PlainMove(t, "panicked", pan)
  BY <1>1, <1>6, <1>7, <1>8 DEF PlainMove
<1> QED BY <1>1, <1>2, <1>9, PlainMoveKeeps

\* A task fits the levels, and a state that it was applied to is a state.
LEMMA AppliedType ==
    ASSUME NEW s \in State, NEW task \in Task, NEW ids \in Seq(Nat)
    PROVE  /\ Without(s.l0, task.us) \in Seq(Nat) => Applied(s, task, ids) \in State
           /\ task.upper # 0 => Applied(s, task, ids) \in State
           /\ Len(Applied(s, task, ids).levels) = Len(s.levels)
<1>1. s.levels \in Seq(Seq(Nat)) /\ s.l0 \in Seq(Nat) /\ s.imm \in Seq(Nat) /\ s.mem \in Nat
  BY DEF State
<1>2. ASSUME NEW lv \in Seq(Seq(Nat)), NEW n, NEW x \in Seq(Nat)
      PROVE  [lv EXCEPT ![n] = x] \in Seq(Seq(Nat)) /\ Len([lv EXCEPT ![n] = x]) = Len(lv)
  <2>1. lv \in [1..Len(lv) -> Seq(Nat)] /\ Len(lv) \in Nat
    OBVIOUS
  <2>2. [lv EXCEPT ![n] = x] \in [1..Len(lv) -> Seq(Nat)]
    BY <2>1
  <2> QED BY <2>1, <2>2
<1>3. <<>> \in Seq(Nat)
  OBVIOUS
<1>4. CASE task.upper = 0
  <2> DEFINE l0 == Without(s.l0, task.us)
             lv == [s.levels EXCEPT ![task.lower] = ids]
  <2>1. Applied(s, task, ids) = [s EXCEPT !.l0 = l0, !.levels = lv]
    BY <1>4 DEF Applied
  <2>2. lv \in Seq(Seq(Nat)) /\ Len(lv) = Len(s.levels)
    BY <1>1, <1>2
  <2> HIDE DEF lv, l0
  <2>3. [s EXCEPT !.l0 = l0, !.levels = lv].levels = lv
    BY DEF State
  <2>4. l0 \in Seq(Nat) => [s EXCEPT !.l0 = l0, !.levels = lv] \in State
    BY <2>2 DEF State
  <2> QED BY <1>4, <2>1, <2>2, <2>3, <2>4 DEF l0
<1>5. CASE task.upper # 0
  <2> DEFINE mid == [s.levels EXCEPT ![task.upper] = <<>>]
             lv == [mid EXCEPT ![task.lower] = ids]
  <2>1. Applied(s, task, ids) = [s EXCEPT !.levels = lv]
    BY <1>1, <1>5 DEF Applied, State
  <2>2. mid \in Seq(Seq(Nat)) /\ Len(mid) = Len(s.levels)
    BY <1>1, <1>2, <1>3
  <2> HIDE DEF mid
  <2>3. lv \in Seq(Seq(Nat)) /\ Len(lv) = Len(s.levels)
    BY <1>2, <2>2
  <2> HIDE DEF lv
  <2>4. [s EXCEPT !.levels = lv].levels = lv /\ [s EXCEPT !.levels = lv] \in State
    BY <2>3 DEF State
  <2> QED BY <1>5, <2>1, <2>3, <2>4
<1> QED BY <1>4, <1>5

\* The inputs of a task that is about to be applied are the tail of L0.
LEMMA TailOf ==
    ASSUME Control, StoreTyped, TablesApart, InputsLast, NEW t \in Thread, at[t] \in {"apply", "install"},
           InputsInPlace(st, loc[t].task), loc[t].task.upper = 0
    PROVE  \E u \in Seq(Nat) : /\ st.l0 = u \o loc[t].task.us /\ Without(st.l0, loc[t].task.us) = u
                               /\ Ids(st.l0) = Ids(u) \cup Ids(loc[t].task.us)
                               /\ Ids(u) \cap Ids(loc[t].task.us) = {} /\ Distinct(u)
<1>1. loc[t].task.us \in Seq(Nat)
  BY CompactedBy, TaskOf
<1> DEFINE us == loc[t].task.us
<1>2. PICK u \in Seq(Nat) : st.l0 = u \o us
  BY DEF InputsLast, InputsInPlace
<1>3. Distinct(u \o us)
  BY <1>2 DEF TablesApart, Apart
<1>4. Without(u \o us, us) = u /\ Ids(u \o us) = Ids(u) \cup Ids(us)
  BY <1>1, <1>3, WithoutTail, IdsOf
<1> HIDE DEF us
<1>5. /\ Len(u) \in Nat /\ Len(us) \in Nat /\ Len(u \o us) = Len(u) + Len(us)
      /\ DOMAIN (u \o us) = 1..Len(u) + Len(us) /\ DOMAIN u = 1..Len(u)
      /\ \A p \in 1..Len(u) : (u \o us)[p] = u[p]
      /\ \A p \in 1..Len(us) : (u \o us)[Len(u) + p] = us[p]
  BY <1>1 DEF us
<1>6. Distinct(u)
  BY <1>3, <1>5 DEF Distinct
<1>7. ASSUME NEW p \in 1..Len(u), NEW q \in 1..Len(us), u[p] = us[q] PROVE FALSE
  <2>1. p # Len(u) + q /\ p \in DOMAIN (u \o us) /\ Len(u) + q \in DOMAIN (u \o us)
    BY <1>5
  <2> QED BY <1>3, <1>5, <1>7, <2>1 DEF Distinct
<1>8. Ids(u) \cap Ids(us) = {}
  BY <1>7 DEF Ids
<1> QED BY <1>2, <1>4, <1>6, <1>8 DEF us

\* The state that is about to be installed is a state.
LEMMA AppliedState ==
    ASSUME Control, StoreTyped, TablesApart, InputsLast, NEW t \in Thread, at[t] = "apply",
           InputsInPlace(st, loc[t].task)
    PROVE  Applied(st, loc[t].task, loc[t].ids) \in State
<1>1. loc[t].task \in Task /\ loc[t].ids \in Seq(Nat) /\ st \in State
  BY LocalsOf DEF StoreTyped
<1>2. CASE loc[t].task.upper = 0
  <2>1. Without(st.l0, loc[t].task.us) \in Seq(Nat)
    BY <1>2, TailOf
  <2> QED BY <1>1, <2>1, AppliedType
<1> QED BY <1>1, <1>2, AppliedType

\* So does applying a task to the clone, or panicking there.
LEMMA ApplyMoves ==
    ASSUME Control, StoreTyped, TablesApart, InputsLast, NEW t \in Thread, Apply(t)
    PROVE  Control'
<1> DEFINE pan == [op |-> "none", cause |-> "inputs moved"]
<1>1. /\ at[t] = "apply" /\ lock = Nobody /\ left' = left
      /\ UNCHANGED <<setting, controlVars, writes, done>>
      /\ \/ Goto(t, "panicked", pan) /\ lock' = lock
         \/ InputsInPlace(st, loc[t].task) /\ Goto(t, "install", Installing(loc[t])) /\ lock' = t
  BY DEF Apply, Panic, historyVars
<1>2. left \in [Calls -> Nat] /\ loc[t] \in [op : {"compact"}, task : Task, ids : Seq(Nat)]
  BY <1>1, LocalsOf, PlaceOf
<1>3. CASE Goto(t, "panicked", pan) /\ lock' = lock
  <2>1. LocalsFit("panicked", pan) /\ ThreadFits(t, "panicked", pan)
        /\ ModeFits(mode, t, "panicked", pan) /\ CloseGoes(t, "panicked", pan)
    BY <1>1, PanicFits
  <2> HIDE DEF pan
  <2>2. PlainMove(t, "panicked", pan)
    BY <1>1, <1>3, <2>1 DEF PlainMove, LockMoves, Holding
  <2> QED BY <1>1, <1>2, <2>2, PlainMoveKeeps
<1>4. CASE InputsInPlace(st, loc[t].task) /\ Goto(t, "install", Installing(loc[t])) /\ lock' = t
  <2> DEFINE l == Installing(loc[t])
  <2>1. Applied(st, loc[t].task, loc[t].ids) \in State
    BY <1>1, <1>4, AppliedState
  <2>2. l \in [op : {"compact"}, task : Task, ids : Seq(Nat), st : State]
    BY <1>2, <2>1 DEF Installing
  <2> HIDE DEF l
  <2>3. /\ LocalsFit("install", l) /\ ThreadFits(t, "install", l) /\ ModeFits(mode, t, "install", l)
        /\ CloseGoes(t, "install", l) /\ at[t] # "stopped"
    BY <1>1, <2>2, CompactFits
  <2>4. PlainMove(t, "install", l)
    BY <1>1, <1>4, <2>3 DEF PlainMove, LockMoves, Holding, l
  <2> QED BY <1>1, <1>2, <2>4, PlainMoveKeeps
<1> QED BY <1>1, <1>3, <1>4

\* So does installing the clone.
LEMMA InstallMoves ==
    ASSUME Control, NEW t \in Thread, Install(t)
    PROVE  Control'
<1> DEFINE l == [op |-> "compact", task |-> loc[t].task]
<1>1. /\ at[t] = "install" /\ lock' = (IF lock = t THEN Nobody ELSE lock) /\ left' = left
      /\ UNCHANGED <<setting, controlVars, writes, done>>
      /\ Goto(t, "remove", l)
  BY DEF Install, historyVars
<1>2. left \in [Calls -> Nat] /\ loc[t].task \in Task /\ lock = t
  BY <1>1, CompactedBy, PlaceOf, LockOf DEF Holding
<1>3. l \in [op : {"compact"}, task : Task]
  BY <1>2
<1> HIDE DEF l
<1>4. /\ LocalsFit("remove", l) /\ ThreadFits(t, "remove", l) /\ ModeFits(mode, t, "remove", l)
      /\ CloseGoes(t, "remove", l) /\ at[t] # "stopped"
  BY <1>1, <1>3, CompactFits
<1>5. PlainMove(t, "remove", l)
  BY <1>1, <1>2, <1>4 DEF PlainMove, LockMoves, Holding
<1> QED BY <1>1, <1>2, <1>5, PlainMoveKeeps

\* So does removing the inputs.
LEMMA RemoveInputsMoves ==
    ASSUME Control, NEW t \in Thread, RemoveInputs(t)
    PROVE  Control'
<1>1. /\ at[t] = "remove" /\ lock' = lock /\ left' = left
      /\ UNCHANGED <<setting, controlVars, writes, done>>
      /\ Goto(t, "idle", NoOp)
  BY DEF RemoveInputs, historyVars
<1>2. left \in [Calls -> Nat]
  BY PlaceOf
<1>3. /\ LocalsFit("idle", NoOp) /\ ThreadFits(t, "idle", NoOp) /\ ModeFits(mode, t, "idle", NoOp)
      /\ CloseGoes(t, "idle", NoOp) /\ at[t] # "stopped"
  BY <1>1, CompactFits
<1>4. PlainMove(t, "idle", NoOp)
  BY <1>1, <1>3 DEF PlainMove, LockMoves, Holding
<1> QED BY <1>1, <1>2, <1>4, PlainMoveKeeps

-----------------------------------------------------------------------------
(* Readers.                                                                *)

\* The places of get and scan.
ReadPlaces == {"get.mem", "get.old", "got", "scan.open", "scan.next", "scanned"}

\* A reader goes from one place of its call to the next, or ends it.
LEMMA ReadFits ==
    ASSUME Control, NEW c \in Client, at[c] \in ReadPlaces \cup {"idle"}, at[c] = "idle" => Reading,
           NEW p, NEW l, \/ p \in ReadPlaces /\ LocalsFit(p, l) /\ l.op \in {"get", "scan"}
                         \/ p = "idle" /\ l = NoOp
    PROVE  /\ LocalsFit(p, l) /\ ThreadFits(c, p, l) /\ ModeFits(mode, c, p, l)
           /\ CloseGoes(c, p, l) /\ at[c] # "stopped"
           /\ (lock' = lock => LockMoves(c, p))
<1>1. /\ c \in Thread /\ c # Flusher /\ c # Compactor /\ ModeFits(mode, c, at[c], loc[c])
  BY ThreadsApart, PlaceOf
<1>2. CASE p = "idle" /\ l = NoOp
  BY <1>1, <1>2 DEF LocalsFit, ThreadFits, ModeFits, CloseGoes, NoOp, ReadPlaces, Reading, LockMoves, Holding
<1>3. CASE p \in ReadPlaces /\ LocalsFit(p, l) /\ l.op \in {"get", "scan"}
  <2>1. ThreadFits(c, p, l) /\ CloseGoes(c, p, l) /\ at[c] # "stopped"
    BY <1>1, <1>3 DEF ThreadFits, CloseGoes, ReadPlaces
  <2>2. ModeFits(mode, c, p, l)
    BY <1>1, <1>3 DEF ModeFits, ReadPlaces, Reading
  <2>3. lock' = lock => LockMoves(c, p)
    BY <1>3 DEF LockMoves, Holding, ReadPlaces
  <2> QED BY <1>3, <2>1, <2>2, <2>3
<1> QED BY <1>2, <1>3

\* The clone of a reader is backed by what is at hand.
LEMMA CloneBacked ==
    ASSUME Control, StoreTyped, TablesHeld, Clones, NEW c \in Readers
    PROVE  /\ Backed(mt, sst, loc[c].snap) /\ loc[c].snap \in State
           /\ mt[loc[c].snap.mem].data \in Table /\ c \in Client /\ c \in Thread
           /\ loc[c].snap.mem \in DOMAIN mt
           /\ \A i \in Ids(loc[c].snap.imm) : i \in DOMAIN mt
           /\ \A i \in TableIds(loc[c].snap) : i \in DOMAIN sst
<1>1. c \in Client /\ c \in Thread /\ loc[c].snap \in State
  BY ThreadsApart, LocalsOf DEF Readers
<1>2. \A i \in DOMAIN mt : mt[i].data \in Table
  BY DEF StoreTyped, Memtable
<1>3. \A i \in TableIds(loc[c].snap) : i \in DOMAIN sst /\ sst[i] \in Table
  <2>1. TableIds(loc[c].snap) \subseteq Held
    BY HeldHas
  <2> QED BY <2>1 DEF TablesHeld, StoreTyped
<1>4. loc[c].snap.mem \in DOMAIN mt /\ Ids(loc[c].snap.imm) \subseteq DOMAIN mt
  BY DEF Clones
<1>5. \A i \in Ids(loc[c].snap.imm) : mt[i].data \in Table
  BY <1>2, <1>4
<1> QED BY <1>1, <1>2, <1>3, <1>4, <1>5, BackedBy

\* What a read finds is a number.
LEMMA OldRead ==
    ASSUME NEW s, Backed(mt, sst, s), NEW k \in Key
    PROVE  Newest(OldTables(s), k) = Behind(mt, sst, s, k) /\ Behind(mt, sst, s, k) \in Int
           /\ Visible(Behind(mt, sst, s, k)) \in Int
<1>1. Newest(OldTables(s), k) = Behind(mt, sst, s, k)
  BY OldTablesAre, BehindOf
<1> QED BY <1>1, BehindType DEF Visible

\* A step of a reader that is no call.
LEMMA ReaderMoves ==
    ASSUME Control, NEW c \in Client, at[c] \in ReadPlaces, NEW p, NEW l, Goto(c, p, l),
           \/ p \in ReadPlaces /\ LocalsFit(p, l) /\ l.op \in {"get", "scan"}
           \/ p = "idle" /\ l = NoOp,
           UNCHANGED <<setting, controlVars, writes, done, lock, left>>
    PROVE  Control'
<1>1. /\ LocalsFit(p, l) /\ ThreadFits(c, p, l) /\ ModeFits(mode, c, p, l)
      /\ CloseGoes(c, p, l) /\ at[c] # "stopped" /\ LockMoves(c, p)
  <2>1. at[c] # "idle"
    BY DEF ReadPlaces
  <2> QED BY <2>1, ReadFits
<1>2. PlainMove(c, p, l) /\ c \in Thread /\ left' \in [Calls -> Nat]
  BY <1>1, ThreadsApart, PlaceOf DEF PlainMove
<1> QED BY <1>2, PlainMoveKeeps

\* A call of get or scan keeps who does what.
LEMMA GetMoves ==
    ASSUME Control, StoreTyped, NEW c \in Client, Get(c) \/ Scan(c)
    PROVE  Control'
<1>1. /\ Reading /\ at[c] = "idle" /\ UNCHANGED <<setting, controlVars, writes, done, lock>>
      /\ Call("get") \/ Call("scan")
  BY DEF Get, Scan, Idle
<1>2. left' \in [Calls -> Nat] /\ c \in Thread
  BY <1>1, CallLeaves, ThreadsApart DEF Calls
<1>3. PICK p, l : Goto(c, p, l) /\ p \in ReadPlaces /\ LocalsFit(p, l) /\ l.op \in {"get", "scan"}
  <2>1. CASE Get(c)
    <3>1. PICK k \in setting.keys : Goto(c, "get.mem", [op |-> "get", k |-> k, snap |-> st])
      BY <2>1 DEF Get
    <3>2. k \in Key /\ st \in State
      BY DEF Control, Typed, Setting, Key, StoreTyped
    <3> DEFINE l == [op |-> "get", k |-> k, snap |-> st]
    <3>3. l \in [op : {"get"}, k : Key, snap : State] /\ l.op = "get"
      BY <3>2
    <3> HIDE DEF l
    <3>4. LocalsFit("get.mem", l)
      BY <3>3 DEF LocalsFit
    <3> QED BY <3>1, <3>3, <3>4 DEF ReadPlaces, l
  <2>2. CASE Scan(c)
    <3>1. PICK r \in Ranges :
             Goto(c, "scan.open", [op |-> "scan", snap |-> st, lo |-> r[1], hi |-> r[2]])
      BY <2>2 DEF Scan
    <3>2. r[1] \in Bound /\ r[2] \in Bound /\ st \in State
      BY Week2Assumption DEF StoreTyped
    <3> DEFINE l == [op |-> "scan", snap |-> st, lo |-> r[1], hi |-> r[2]]
    <3>3. l \in [op : {"scan"}, snap : State, lo : Bound, hi : Bound] /\ l.op = "scan"
      BY <3>2
    <3> HIDE DEF l
    <3>4. LocalsFit("scan.open", l)
      BY <3>3 DEF LocalsFit
    <3> QED BY <3>1, <3>3, <3>4 DEF ReadPlaces, l
  <2> QED BY <2>1, <2>2
<1>4. /\ ThreadFits(c, p, l) /\ ModeFits(mode, c, p, l)
      /\ CloseGoes(c, p, l) /\ at[c] # "stopped" /\ LockMoves(c, p)
  BY <1>1, <1>3, ReadFits
<1>5. PlainMove(c, p, l)
  BY <1>1, <1>3, <1>4 DEF PlainMove
<1> QED BY <1>2, <1>5, PlainMoveKeeps

\* So does a look at the memtable.
LEMMA GetMemtableMoves ==
    ASSUME Control, StoreTyped, TablesHeld, Clones, NEW c \in Client, GetMemtable(c)
    PROVE  Control'
<1> DEFINE e == mt[loc[c].snap.mem].data[loc[c].k]
           l == [op |-> "get", k |-> loc[c].k, val |-> Visible(e)]
<1>1. /\ at[c] = "get.mem" /\ UNCHANGED <<setting, controlVars, writes, done, lock, left>>
      /\ Goto(c, "got", l) \/ Goto(c, "get.old", loc[c])
  BY DEF GetMemtable, historyVars
<1>2. c \in Readers /\ c \in Thread
  BY <1>1, ThreadsApart DEF Readers
<1>3. loc[c] \in [op : {"get"}, k : Key, snap : State]
  BY <1>1, <1>2, LocalsOf
<1>4. Visible(e) \in Int
  <2>1. e \in Int
    BY <1>2, <1>3, CloneBacked DEF Table
  <2> QED BY <2>1 DEF Visible
<1>5. l \in [op : {"get"}, k : Key, val : Int] /\ l.op = "get"
  BY <1>3, <1>4
<1> HIDE DEF l
<1>6. LocalsFit("got", l)
  BY <1>5 DEF LocalsFit
<1>7. LocalsFit("get.old", loc[c]) /\ loc[c].op = "get"
  BY <1>3 DEF LocalsFit
<1> QED BY <1>1, <1>5, <1>6, <1>7, ReaderMoves DEF ReadPlaces

\* So does a look behind it.
LEMMA GetOldMoves ==
    ASSUME Control, StoreTyped, TablesHeld, Clones, NEW c \in Client, GetOld(c)
    PROVE  Control'
<1> DEFINE v == Visible(Newest(OldTables(loc[c].snap), loc[c].k))
           l == [op |-> "get", k |-> loc[c].k, val |-> v]
<1>1. /\ at[c] = "get.old" /\ UNCHANGED <<setting, controlVars, writes, done, lock, left>>
      /\ Goto(c, "got", l)
  BY DEF GetOld, historyVars
<1>2. c \in Readers /\ c \in Thread
  BY <1>1, ThreadsApart DEF Readers
<1>3. loc[c] \in [op : {"get"}, k : Key, snap : State]
  BY <1>1, <1>2, LocalsOf
<1>4. v \in Int
  BY <1>2, <1>3, CloneBacked, OldRead
<1>5. l \in [op : {"get"}, k : Key, val : Int] /\ l.op = "get"
  BY <1>3, <1>4
<1> HIDE DEF l
<1>6. LocalsFit("got", l)
  BY <1>5 DEF LocalsFit
<1> QED BY <1>1, <1>5, <1>6, ReaderMoves DEF ReadPlaces

\* So does the return of a read.
LEMMA ReadReturnsMoves ==
    ASSUME Control, NEW c \in Client, ReadReturns(c)
    PROVE  Control'
<1>1. /\ at[c] \in ReadPlaces /\ UNCHANGED <<setting, controlVars, writes, done, lock, left>>
      /\ Goto(c, "idle", NoOp)
  BY DEF ReadReturns, ReadPlaces
<1> QED BY <1>1, ReaderMoves

\* A table that is scanned gives its entries in the range, and none below it.
LEMMA ScannedGives ==
    ASSUME NEW d \in Table, NEW lo, NEW hi
    PROVE  /\ Scanned(d, lo, hi) \in Table
           /\ \A k \in Key : InRange(k, lo, hi) => Scanned(d, lo, hi)[k] = d[k]
           /\ \A k \in Key : ~AboveLower(k, lo) => Scanned(d, lo, hi)[k] = 0
<1>1. \A k \in Key : Scanned(d, lo, hi)[k]
                        = IF Overlaps(d, lo, hi) /\ AboveLower(k, lo) THEN d[k] ELSE 0
  BY DEF Scanned
<1>2. Scanned(d, lo, hi) \in Table
  BY DEF Scanned, Table
<1>3. ASSUME NEW k \in Key, InRange(k, lo, hi) PROVE Scanned(d, lo, hi)[k] = d[k]
  <2>1. AboveLower(k, lo) /\ BelowUpper(k, hi)
    BY <1>3 DEF InRange
  <2>2. d[k] # 0 => Overlaps(d, lo, hi)
    BY <2>1 DEF Overlaps
  <2> QED BY <1>1, <2>1, <2>2
<1> QED BY <1>1, <1>2, <1>3

\* What is behind the memtable reads, within the range, as the clone does.
LEMMA ScanTablesOf ==
    ASSUME NEW c, Backed(mt, sst, loc[c].snap)
    PROVE  /\ ScanTables(c) \in Seq(Table)
           /\ \A k \in Key : InRange(k, loc[c].lo, loc[c].hi) =>
                 Newest(ScanTables(c), k) = Behind(mt, sst, loc[c].snap, k)
           /\ \A k \in Key : ~AboveLower(k, loc[c].lo) => Newest(ScanTables(c), k) = 0
<1> DEFINE s  == loc[c].snap
           lo == loc[c].lo
           hi == loc[c].hi
           A == [i \in 1..Len(s.imm) |-> [k \in Key |-> IF InRange(k, lo, hi) THEN mt[s.imm[i]].data[k] ELSE 0]]
           Files(ids) == [i \in 1..Len(ids) |-> Scanned(sst[ids[i]], lo, hi)]
           B == Files(s.l0)
           C == [i \in 1..Len(s.levels) |-> [k \in Key |-> Newest(Files(s.levels[i]), k)]]
<1>1. ScanTables(c) = A \o B \o C
  BY DEF ScanTables
<1>2. A \in Seq(Table) /\ Len(A) = Len(s.imm)
      /\ \A k \in Key, i \in 1..Len(s.imm) :
            A[i][k] = IF InRange(k, lo, hi) THEN ImmOf(mt, s.imm)[i][k] ELSE 0
  <2>1. Len(s.imm) \in Nat /\ \A i \in 1..Len(s.imm) : mt[s.imm[i]].data \in Table
    BY DEF Backed, FrozenAtHand, Ids
  <2>2. \A i \in 1..Len(s.imm) :
           [k \in Key |-> IF InRange(k, lo, hi) THEN mt[s.imm[i]].data[k] ELSE 0] \in Table
    BY <2>1 DEF Table
  <2>3. \A k \in Key, i \in 1..Len(s.imm) :
           A[i][k] = IF InRange(k, lo, hi) THEN ImmOf(mt, s.imm)[i][k] ELSE 0
    BY DEF ImmOf
  <2>4. A \in Seq(Table) /\ Len(A) = Len(s.imm)
    <3>1. A \in [1..Len(s.imm) -> Table]
      BY <2>2
    <3> HIDE DEF A
    <3> QED BY ONLY <2>1, <3>1
  <2> QED BY <2>3, <2>4
<1>3. ASSUME NEW ids, AtHand(sst, ids)
      PROVE  /\ Files(ids) \in Seq(Table) /\ Len(Files(ids)) = Len(ids)
             /\ \A k \in Key : InRange(k, lo, hi) => Newest(Files(ids), k) = Lookup(sst, ids, k)
             /\ \A k \in Key : ~AboveLower(k, lo) => Newest(Files(ids), k) = 0
  <2> DEFINE T == [i \in 1..Len(ids) |-> sst[ids[i]]]
  <2>1. Len(ids) \in Nat /\ \A i \in 1..Len(ids) : sst[ids[i]] \in Table
    BY <1>3 DEF AtHand, Ids
  <2>2. \A i \in 1..Len(ids) :
           /\ Scanned(sst[ids[i]], lo, hi) \in Table
           /\ \A k \in Key : InRange(k, lo, hi) => Scanned(sst[ids[i]], lo, hi)[k] = sst[ids[i]][k]
           /\ \A k \in Key : ~AboveLower(k, lo) => Scanned(sst[ids[i]], lo, hi)[k] = 0
    BY <2>1, ScannedGives
  <2>3. Files(ids) \in Seq(Table) /\ Len(Files(ids)) = Len(ids)
        /\ \A i \in 1..Len(ids) : Files(ids)[i] = Scanned(sst[ids[i]], lo, hi)
    BY <2>1, <2>2
  <2>4. T \in Seq(Table) /\ Len(T) = Len(ids) /\ \A i \in 1..Len(ids) : T[i] = sst[ids[i]]
    BY <2>1
  <2> DEFINE F == Files(ids)
  <2> HIDE DEF F, T
  <2>5. F \in Seq(Table) /\ Len(F) = Len(ids) /\ \A i \in 1..Len(ids) : F[i] = Scanned(sst[ids[i]], lo, hi)
    BY <2>3 DEF F
  <2>6. ASSUME NEW k \in Key, InRange(k, lo, hi) PROVE Newest(F, k) = Newest(T, k)
    <3>1. \A i \in 1..Len(F) : F[i][k] = T[i][k]
      BY <2>2, <2>4, <2>5, <2>6
    <3> QED BY <2>4, <2>5, <3>1, NewestSame
  <2>7. ASSUME NEW k \in Key, ~AboveLower(k, lo) PROVE Newest(F, k) = 0
    <3>1. \A i \in 1..Len(F) : F[i][k] = 0
      BY <2>2, <2>5, <2>7
    <3> QED BY <2>5, <3>1, NewestOf
  <2> QED BY <2>3, <2>6, <2>7 DEF F, T, Lookup
<1>4. /\ B \in Seq(Table)
      /\ \A k \in Key : InRange(k, lo, hi) => Newest(B, k) = Lookup(sst, s.l0, k)
      /\ \A k \in Key : ~AboveLower(k, lo) => Newest(B, k) = 0
  BY <1>3 DEF Backed
<1>5. /\ C \in Seq(Table)
      /\ \A k \in Key : InRange(k, lo, hi) => Newest(C, k) = LevelEntry(sst, s.levels, k)
      /\ \A k \in Key : ~AboveLower(k, lo) => Newest(C, k) = 0
  <2>1. LevelsAtHand(sst, s.levels) /\ Len(s.levels) \in Nat
    BY DEF Backed, LevelsAtHand
  <2>2. \A i \in 1..Len(s.levels) :
           /\ Files(s.levels[i]) \in Seq(Table)
           /\ \A k \in Key : InRange(k, lo, hi) => Newest(Files(s.levels[i]), k) = Lookup(sst, s.levels[i], k)
           /\ \A k \in Key : ~AboveLower(k, lo) => Newest(Files(s.levels[i]), k) = 0
    <3> HIDE DEF Files
    <3> QED BY <1>3, <2>1 DEF LevelsAtHand
  <2> HIDE DEF Files
  <2>3. \A i \in 1..Len(s.levels) : [k \in Key |-> Newest(Files(s.levels[i]), k)] \in Table
    <3>1. \A i \in 1..Len(s.levels), k \in Key : Newest(Files(s.levels[i]), k) \in Int
      BY <2>2, NewestOf
    <3> QED BY <3>1 DEF Table
  <2>4. C \in Seq(Table) /\ Len(C) = Len(s.levels)
        /\ \A i \in 1..Len(s.levels), k \in Key : C[i][k] = Newest(Files(s.levels[i]), k)
    BY <2>1, <2>3
  <2> DEFINE L == LevelsOf(sst, s.levels)
  <2>5. L \in Seq(Table) /\ Len(L) = Len(s.levels)
        /\ \A i \in 1..Len(s.levels), k \in Key : L[i][k] = Lookup(sst, s.levels[i], k)
    BY <2>1, LevelsOfType
  <2> HIDE DEF C, L
  <2>6. ASSUME NEW k \in Key, InRange(k, lo, hi) PROVE Newest(C, k) = Newest(L, k)
    <3>1. \A i \in 1..Len(C) : C[i][k] = L[i][k]
      BY <2>2, <2>4, <2>5, <2>6
    <3> QED BY <2>4, <2>5, <3>1, NewestSame
  <2>7. ASSUME NEW k \in Key, ~AboveLower(k, lo) PROVE Newest(C, k) = 0
    <3>1. \A i \in 1..Len(C) : C[i][k] = 0
      BY <2>2, <2>4, <2>7
    <3> QED BY <2>4, <3>1, NewestOf
  <2> QED BY <2>4, <2>6, <2>7 DEF L, LevelEntry
<1>6. \A k \in Key : InRange(k, lo, hi) => Newest(A, k) = Newest(ImmOf(mt, s.imm), k)
  <2> DEFINE I == ImmOf(mt, s.imm)
  <2>1. I \in Seq(Table) /\ Len(I) = Len(s.imm)
    BY ImmOfType DEF Backed
  <2> HIDE DEF A, I
  <2>2. ASSUME NEW k \in Key, InRange(k, lo, hi) PROVE Newest(A, k) = Newest(I, k)
    <3>1. \A i \in 1..Len(A) : A[i][k] = I[i][k]
      BY <1>2, <2>2 DEF I
    <3> QED BY <1>2, <2>1, <3>1, NewestSame
  <2> QED BY <2>2 DEF I
<1>7. \A k \in Key : ~AboveLower(k, lo) => Newest(A, k) = 0
  <2> HIDE DEF A
  <2>1. ASSUME NEW k \in Key, ~AboveLower(k, lo) PROVE Newest(A, k) = 0
    <3>1. \A i \in 1..Len(A) : A[i][k] = 0
      BY <1>2, <2>1 DEF InRange
    <3> QED BY <1>2, <3>1, NewestOf
  <2> QED BY <2>1
<1> HIDE DEF A, B, C
<1>8. A \o B \in Seq(Table) /\ A \o B \o C \in Seq(Table)
  BY <1>2, <1>4, <1>5
<1>9. ASSUME NEW k \in Key
      PROVE  Newest(A \o B \o C, k) = Or(Newest(A, k), Or(Newest(B, k), Newest(C, k)))
  <2>1. Newest(A \o B, k) = Or(Newest(A, k), Newest(B, k))
    BY <1>2, <1>4, NewestJoined
  <2>2. Newest((A \o B) \o C, k) = Or(Newest(A \o B, k), Newest(C, k))
    BY <1>5, <1>8, NewestJoined
  <2> QED BY <2>1, <2>2 DEF Or
<1>10. \A k \in Key : InRange(k, lo, hi) => Newest(A \o B \o C, k) = Behind(mt, sst, s, k)
  BY <1>4, <1>5, <1>6, <1>9 DEF Behind, StoredIn
<1>11. \A k \in Key : ~AboveLower(k, lo) => Newest(A \o B \o C, k) = 0
  BY <1>4, <1>5, <1>7, <1>9 DEF Or
<1> QED BY <1>1, <1>8, <1>10, <1>11

\* A non-empty set of keys has a least one.
LEMMA LeastKey ==
    ASSUME NEW K \in SUBSET Key, K # {}
    PROVE  Least(K) \in K /\ \A k \in K : Least(K) <= k
<1>1. K \in SUBSET Nat
  BY DEF Key
<1>2. \E m \in K : \A x \in K : m <= x
  BY <1>1, LeastOf
<1> QED BY <1>2 DEF Least

\* The least of some keys, with its entry.
LEMMA LeastItem ==
    ASSUME NEW d \in Table, NEW K \in SUBSET Key, K # {}, NEW i,
           i = [k |-> Least(K), e |-> d[Least(K)]]
    PROVE  i \in Item /\ i.k \in K /\ i.k \in Key /\ i.e = d[i.k] /\ \A k \in K : i.k <= k
<1> DEFINE m == Least(K)
<1>1. m \in K /\ \A k \in K : m <= k
  BY LeastKey
<1> HIDE DEF m
<1>2. m \in Key /\ d[m] \in Int
  BY <1>1 DEF Table
<1>3. i.k = m /\ i.e = d[m] /\ i = [k |-> m, e |-> d[m]]
  BY DEF m
<1>4. m \in 1..MaxKey + 1
  BY <1>2, Week2Assumption DEF Key
<1>5. [k |-> m, e |-> d[m]] \in Item
  BY ONLY <1>2, <1>4 DEF Item
<1> QED BY <1>1, <1>2, <1>3, <1>5

\* Key k has an entry behind the last one that the memtable iterator of c may give.
Wanted(c, last, k) ==
    k > last /\ InRange(k, loc[c].lo, loc[c].hi) /\ mt[loc[c].snap.mem].data[k] # 0

\* What the memtable iterator holds is the first entry behind the last one, or none.
LEMMA NextItemOf ==
    ASSUME NEW c, mt[loc[c].snap.mem].data \in Table, NEW last, NEW i, i = NextItem(c, last)
    PROVE  /\ i \in Item
           /\ \/ i = NoItem /\ \A k \in Key : ~Wanted(c, last, k)
              \/ /\ i.k \in Key /\ i.e = mt[loc[c].snap.mem].data[i.k] /\ Wanted(c, last, i.k)
                 /\ \A k \in Key : Wanted(c, last, k) => i.k <= k
<1> DEFINE d == mt[loc[c].snap.mem].data
           K == {k \in Key : Wanted(c, last, k)}
<1>1. i = IF K = {} THEN NoItem ELSE [k |-> Least(K), e |-> d[Least(K)]]
  BY DEF NextItem, Wanted
<1>2. d \in Table
  OBVIOUS
<1> HIDE DEF d
<1>3. CASE K = {}
  <2>1. NoItem \in Item
    BY Week2Assumption DEF NoItem, Item
  <2>2. \A k \in Key : ~Wanted(c, last, k)
    BY <1>3
  <2> HIDE DEF K
  <2> QED BY <1>1, <1>3, <2>1, <2>2
<1>4. CASE K # {}
  <2>1. K \in SUBSET Key /\ \A k \in Key : k \in K <=> Wanted(c, last, k)
    OBVIOUS
  <2> HIDE DEF K
  <2>2. i = [k |-> Least(K), e |-> d[Least(K)]]
    BY <1>1, <1>4
  <2>3. i \in Item /\ i.k \in K /\ i.k \in Key /\ i.e = d[i.k] /\ \A k \in K : i.k <= k
    BY <1>2, <1>4, <2>1, <2>2, LeastItem
  <2> QED BY <2>1, <2>3 DEF d
<1> QED BY <1>3, <1>4

\* The head of the merged iterator is the item or the first entry of what is behind.
LEMMA HeadOfIs ==
    ASSUME NEW c, ScanTables(c) \in Seq(Table), NEW item \in Item, NEW last
    PROVE  LET h == HeadOf(c, item, last)
               old(k) == Newest(ScanTables(c), k)
           IN /\ h \in Item
              /\ \/ h = item /\ \A k \in Key : k > last /\ old(k) # 0 => item.k <= k
                 \/ /\ h.k \in Key /\ h.k > last /\ h.e = old(h.k) /\ h.e # 0 /\ h.k < item.k
                    /\ \A k \in Key : k > last /\ old(k) # 0 => h.k <= k
<1> DEFINE S == ScanTables(c)
           K == {k \in Key : k > last /\ Newest(S, k) # 0}
<1>1. HeadOf(c, item, last) = IF K = {} \/ item.k <= Least(K) THEN item
                              ELSE [k |-> Least(K), e |-> Newest(S, Least(K))]
  BY DEF HeadOf
<1>2. item.k \in Nat /\ \A k \in Key : k \in 1..MaxKey + 1 /\ k \in Nat
  BY Week2Assumption DEF Item, Key
<1>3. CASE K = {}
  BY <1>1, <1>3
<1>4. CASE K # {}
  <2> DEFINE m == Least(K)
  <2>1. m \in K /\ \A k \in K : m <= k
    BY <1>4, LeastKey
  <2>2. Newest(S, m) \in Int /\ m \in Key /\ m \in Nat
    BY <1>2, <2>1, NewestOf
  <2>3. HeadOf(c, item, last) = IF item.k <= m THEN item ELSE [k |-> m, e |-> Newest(S, m)]
    BY <1>1, <1>4
  <2> HIDE DEF m, S
  <2>4. [k |-> m, e |-> Newest(S, m)] \in Item
    BY <1>2, <2>2 DEF Item
  <2>5. \A k \in Key : k > last /\ Newest(S, k) # 0 => m <= k
    BY <2>1
  <2>6. CASE item.k <= m
    BY <1>2, <2>2, <2>3, <2>5, <2>6 DEF S
  <2>7. CASE ~(item.k <= m)
    <3>1. m < item.k /\ m > last /\ Newest(S, m) # 0
      BY <1>2, <2>1, <2>2, <2>7
    <3> QED BY <2>2, <2>3, <2>4, <2>5, <2>7, <3>1 DEF S
  <2> QED BY <2>6, <2>7
<1> QED BY <1>3, <1>4

\* Creating the iterators keeps who does what.
LEMMA ScanOpenMoves ==
    ASSUME Control, StoreTyped, TablesHeld, Clones, NEW c \in Client, ScanOpen(c)
    PROVE  Control'
<1> DEFINE item == NextItem(c, 0)
           head == HeadOf(c, item, 0)
           l == [op |-> "scan", snap |-> loc[c].snap, lo |-> loc[c].lo, hi |-> loc[c].hi,
                 item |-> item, head |-> head, valid |-> head # NoItem, out |-> Nothing]
<1>1. /\ at[c] = "scan.open" /\ UNCHANGED <<setting, controlVars, writes, done, lock, left>>
      /\ Goto(c, "scan.next", l)
  BY DEF ScanOpen, historyVars
<1>2. c \in Readers /\ c \in Thread
  BY <1>1, ThreadsApart DEF Readers
<1>3. loc[c] \in [op : {"scan"}, snap : State, lo : Bound, hi : Bound]
  BY <1>1, <1>2, LocalsOf
<1>4. Backed(mt, sst, loc[c].snap) /\ mt[loc[c].snap.mem].data \in Table
  BY <1>2, CloneBacked
<1>5. item \in Item
  BY <1>4, NextItemOf
<1> HIDE DEF item
<1>6. head \in Item
  BY <1>4, <1>5, ScanTablesOf, HeadOfIs
<1> HIDE DEF head
<1>7. Nothing \in Table
  BY DEF Nothing, Table
<1>8. l \in [op : {"scan"}, snap : State, lo : Bound, hi : Bound, item : Item,
             head : Item, valid : BOOLEAN, out : Table] /\ l.op = "scan"
  BY <1>3, <1>5, <1>6, <1>7
<1> HIDE DEF l
<1>9. LocalsFit("scan.next", l)
  BY <1>8 DEF LocalsFit
<1> QED BY <1>1, <1>8, <1>9, ReaderMoves DEF ReadPlaces

\* So does a step of the iterator.
LEMMA ScanNextMoves ==
    ASSUME Control, StoreTyped, TablesHeld, Clones, NEW c \in Client, ScanNext(c)
    PROVE  Control'
<1> DEFINE m    == loc[c]
           out  == [m.out EXCEPT ![m.head.k] = Visible(m.head.e)]
           item == IF m.item.k = m.head.k THEN NextItem(c, m.head.k) ELSE m.item
           head == HeadOf(c, item, m.head.k)
           ok   == head # NoItem /\ BelowUpper(head.k, m.hi)
           l == [m EXCEPT !.out = out, !.item = item, !.head = head, !.valid = ok]
<1>1. /\ at[c] = "scan.next" /\ UNCHANGED <<setting, controlVars, writes, done, lock, left>>
      /\ Goto(c, "scan.next", l)
  BY DEF ScanNext, historyVars
<1>2. c \in Readers /\ c \in Thread
  BY <1>1, ThreadsApart DEF Readers
<1>3. m \in [op : {"scan"}, snap : State, lo : Bound, hi : Bound, item : Item,
             head : Item, valid : BOOLEAN, out : Table]
  BY <1>1, <1>2, LocalsOf
<1>4. Backed(mt, sst, loc[c].snap) /\ mt[loc[c].snap.mem].data \in Table
  BY <1>2, CloneBacked
<1>5. item \in Item
  BY <1>3, <1>4, NextItemOf
<1>6. out \in Table
  <2>1. Visible(m.head.e) \in Int /\ m.out \in Table
    BY <1>3 DEF Visible, Item
  <2> QED BY <2>1 DEF Table
<1> HIDE DEF item, out
<1>7. head \in Item
  BY <1>4, <1>5, ScanTablesOf, HeadOfIs
<1> HIDE DEF head
<1>8. ok \in BOOLEAN
  BY DEF BelowUpper
<1> HIDE DEF ok
<1>9. l \in [op : {"scan"}, snap : State, lo : Bound, hi : Bound, item : Item,
             head : Item, valid : BOOLEAN, out : Table] /\ l.op = "scan"
  BY <1>3, <1>5, <1>6, <1>7, <1>8
<1> HIDE DEF l
<1>10. LocalsFit("scan.next", l)
  BY <1>9 DEF LocalsFit
<1> QED BY <1>1, <1>9, <1>10, ReaderMoves DEF ReadPlaces

\* So does the end of a scan.
LEMMA ScanEndMoves ==
    ASSUME Control, NEW c \in Client, ScanEnd(c)
    PROVE  Control'
<1> DEFINE l == [op |-> "scan", lo |-> loc[c].lo, hi |-> loc[c].hi, out |-> loc[c].out]
<1>1. /\ at[c] = "scan.next" /\ UNCHANGED <<setting, controlVars, writes, done, lock, left>>
      /\ Goto(c, "scanned", l)
  BY DEF ScanEnd, historyVars
<1>2. loc[c] \in [op : {"scan"}, snap : State, lo : Bound, hi : Bound, item : Item,
                  head : Item, valid : BOOLEAN, out : Table]
  BY <1>1, ThreadsApart, LocalsOf
<1>3. l \in [op : {"scan"}, lo : Bound, hi : Bound, out : Table] /\ l.op = "scan"
  BY <1>2
<1> HIDE DEF l
<1>4. LocalsFit("scanned", l)
  BY <1>3 DEF LocalsFit
<1> QED BY <1>1, <1>3, <1>4, ReaderMoves DEF ReadPlaces

-----------------------------------------------------------------------------
(* Closing.                                                                *)

\* A client that closes is the only one, and the engine is no longer open.
LEMMA ClosedBy ==
    ASSUME Control, NEW c \in Client, at[c] \in ClosePlaces
    PROVE  /\ loc[c].op = "close" /\ mode = "closing" /\ c \in Thread
           /\ \A u \in Thread : u # c => loc[u].op # "close"
           /\ at[c] # "close.join_compactor" => at[Compactor] = "stopped"
           /\ at[c] \in PastJoins => at[Flusher] = "stopped"
           /\ stop = {Flusher, Compactor}
<1>1. c \in Thread /\ loc[c].op = "close"
  BY ThreadsApart, LocalsOf
<1>2. mode = "closing"
  BY <1>1, PlaceOf DEF ModeFits
<1>3. ASSUME NEW u \in Thread, u # c PROVE loc[u].op # "close"
  <2>1. CASE u \in Client
    BY <1>1, <1>3, <2>1 DEF Control, OneCloses
  <2>2. CASE u = Flusher
    BY <2>2, PlaceOf DEF ThreadFits
  <2>3. CASE u = Compactor
    <3>1. ThreadFits(u, at[u], loc[u])
      BY PlaceOf
    <3>2. at[u] \in {"idle", "merge", "apply", "install", "remove", "stopped", "panicked"}
      BY <2>3, <3>1 DEF ThreadFits
    <3> QED BY <3>2, LocalsOf
  <2> QED BY <2>1, <2>2, <2>3, ThreadsApart
<1>4. stop = {Flusher, Compactor}
  BY <1>2 DEF Control, OneCloses
<1> QED BY <1>1, <1>2, <1>3, <1>4, PlaceOf

\* A call of close keeps who does what.
LEMMA CloseMoves ==
    ASSUME Control, NEW c \in Client, Close(c)
    PROVE  Control'
<1> DEFINE l == [op |-> "close"]
<1>1. /\ mode = "open" /\ at[c] = "idle" /\ \A d \in Client : ~Writing(d)
      /\ mode' = "closing" /\ stop' = {Flusher, Compactor} /\ Goto(c, "close.join_compactor", l)
      /\ UNCHANGED <<setting, closed, writes, done, lock, left>>
  BY DEF Close, Idle, historyVars
<1>2. c \in Thread /\ c # Flusher /\ c # Compactor /\ l.op = "close"
  BY ThreadsApart
<1> HIDE DEF l
<1>3. /\ DOMAIN at' = Thread /\ DOMAIN loc' = Thread
      /\ at'[c] = "close.join_compactor" /\ loc'[c] = l
      /\ \A u \in Thread : u # c => at'[u] = at[u] /\ loc'[u] = loc[u]
  BY <1>1, <1>2, Moved
<1>4. Typed'
  BY <1>1, <1>3 DEF Control, Typed
<1>5. \A u \in Thread : loc[u].op # "close"
  BY <1>1, PlaceOf DEF ModeFits
<1>6. OneCloses'
  BY <1>1, <1>2, <1>3, <1>5, ThreadsApart DEF OneCloses, PastJoins
<1>7. ASSUME NEW u \in Thread PROVE ThreadOK(u)'
  <2>1. ThreadOK(u)
    BY DEF Control
  <2>2. CASE u = c
    <3>1. LocalsFit(at[u], loc[u])'
      BY <1>2, <1>3, <2>2 DEF LocalsFit
    <3>2. ThreadFits(u, at[u], loc[u])' /\ ModeFits(mode, u, at[u], loc[u])'
      BY <1>1, <1>2, <1>3, <2>2 DEF ThreadFits, ModeFits
    <3>3. (lock = u <=> at[u] \in Holding)'
      BY <1>1, <1>3, <2>1, <2>2 DEF ThreadOK, Holding
    <3> QED BY <3>1, <3>2, <3>3 DEF ThreadOK
  <2>3. CASE u # c
    <3>1. LocalsFit(at[u], loc[u])' /\ ThreadFits(u, at[u], loc[u])'
      BY <1>1, <1>3, <2>1, <2>3 DEF ThreadOK, LocalsFit, ThreadFits
    <3>2. u \in Client => loc[u].op \notin {"write", "force_flush", "compact"}
      BY <1>1 DEF Writing, WritingOps
    <3>3. ModeFits(mode, u, at[u], loc[u])'
      BY <1>1, <1>3, <2>3, <3>2 DEF ModeFits
    <3>4. (lock = u <=> at[u] \in Holding)'
      BY <1>1, <1>3, <2>1, <2>3 DEF ThreadOK
    <3> QED BY <3>1, <3>3, <3>4 DEF ThreadOK
  <2> QED BY <2>2, <2>3
<1> QED BY <1>4, <1>6, <1>7 DEF Control

\* So does a thread that takes its notification.
LEMMA StopThreadMoves ==
    ASSUME Control, NEW t \in Thread, StopThread(t)
    PROVE  Control'
<1>1. /\ t \in stop /\ at[t] = "idle" /\ Goto(t, "stopped", NoOp)
      /\ UNCHANGED <<setting, controlVars, writes, done, lock, left>>
  BY DEF StopThread, Idle, historyVars
<1>2. mode # "open" /\ t \notin Client /\ left \in [Calls -> Nat]
  BY <1>1, ThreadsApart, PlaceOf DEF Control, OneCloses
<1>3. LocalsFit("stopped", NoOp) /\ ThreadFits(t, "stopped", NoOp) /\ ModeFits(mode, t, "stopped", NoOp)
      /\ CloseGoes(t, "stopped", NoOp)
  BY <1>1, <1>2 DEF LocalsFit, ThreadFits, ModeFits, CloseGoes, NoOp
<1>4. PlainMove(t, "stopped", NoOp)
  BY <1>1, <1>3 DEF PlainMove, LockMoves, Holding
<1> QED BY <1>1, <1>2, <1>4, PlainMoveKeeps

\* At the end of close nobody closes any more.
LEMMA CloseGivesMoves ==
    ASSUME Control, NEW c \in Client, at[c] \in ClosePlaces, NEW result \in {"ok", "err"},
           CloseGives(c, result), UNCHANGED <<setting, stop, writes, done, lock, left>>
    PROVE  Control'
<1>1. mode' = "closed" /\ closed' = result /\ Goto(c, "idle", NoOp)
  BY DEF CloseGives
<1>2. /\ loc[c].op = "close" /\ mode = "closing" /\ c \in Thread
      /\ \A u \in Thread : u # c => loc[u].op # "close"
      /\ stop = {Flusher, Compactor}
  BY ClosedBy
<1>3. /\ DOMAIN at' = Thread /\ DOMAIN loc' = Thread /\ at'[c] = "idle" /\ loc'[c] = NoOp
      /\ \A u \in Thread : u # c => at'[u] = at[u] /\ loc'[u] = loc[u]
  BY <1>1, <1>2, Moved
<1>4. c # Flusher /\ c # Compactor
  BY ThreadsApart
<1>5. Typed'
  BY <1>1, <1>2, <1>3 DEF Control, Typed
<1>6. \A u \in Thread : loc'[u].op # "close"
  BY <1>2, <1>3 DEF NoOp
<1>7. OneCloses'
  BY <1>1, <1>2, <1>6, ThreadsApart DEF OneCloses
<1>8. ASSUME NEW u \in Thread PROVE ThreadOK(u)'
  <2>1. ThreadOK(u)
    BY DEF Control
  <2>2. CASE u = c
    <3>1. LocalsFit(at[u], loc[u])'
      BY <1>3, <2>2 DEF LocalsFit, NoOp
    <3>2. ThreadFits(c, at[c], loc[c])
      BY <1>2, PlaceOf
    <3>3. ThreadFits(u, at[u], loc[u])' /\ ModeFits(mode, u, at[u], loc[u])'
      BY <1>1, <1>3, <1>4, <2>2 DEF ThreadFits, ModeFits, NoOp
    <3>4. (lock = u <=> at[u] \in Holding)'
      BY <1>3, <2>1, <2>2 DEF ThreadOK, Holding, ClosePlaces
    <3> QED BY <3>1, <3>3, <3>4 DEF ThreadOK
  <2>3. CASE u # c
    <3>1. LocalsFit(at[u], loc[u])' /\ ThreadFits(u, at[u], loc[u])'
      BY <1>1, <1>3, <2>1, <2>3 DEF ThreadOK, LocalsFit, ThreadFits
    <3>2. ModeFits(mode, u, at[u], loc[u])'
      BY <1>1, <1>2, <1>3, <2>1, <2>3 DEF ThreadOK, ModeFits
    <3>3. (lock = u <=> at[u] \in Holding)'
      BY <1>1, <1>3, <2>1, <2>3 DEF ThreadOK
    <3> QED BY <3>1, <3>2, <3>3 DEF ThreadOK
  <2> QED BY <2>2, <2>3
<1> QED BY <1>5, <1>7, <1>8 DEF Control

\* The client that closes goes to the next place of close.
LEMMA CloserMoves ==
    ASSUME Control, NEW c \in Client, at[c] \in ClosePlaces,
           NEW p \in {"close.join_flusher", "close.memtable", "close.synced", "close.drain", "flush"},
           Goto(c, p, [op |-> "close"]), at[Compactor] = "stopped",
           p # "close.join_flusher" => at[Flusher] = "stopped",
           UNCHANGED <<setting, controlVars, writes, done, lock, left>>
    PROVE  Control'
<1> DEFINE l == [op |-> "close"]
<1>1. loc[c].op = "close" /\ mode = "closing" /\ c \in Thread /\ left \in [Calls -> Nat]
  BY ClosedBy, PlaceOf
<1>2. l.op = "close" /\ c # Flusher /\ c # Compactor /\ ThreadFits(c, at[c], loc[c])
  BY <1>1, PlaceOf, ThreadsApart
<1>3. Goto(c, p, l)
  OBVIOUS
<1> HIDE DEF l
<1>4. LocalsFit(p, l)
  BY <1>2 DEF LocalsFit, FlushOps
<1>5. ThreadFits(c, p, l) /\ ModeFits(mode, c, p, l)
  BY <1>1, <1>2 DEF ThreadFits, ModeFits
<1>6. CloseGoes(c, p, l)
  BY <1>1 DEF CloseGoes, PastJoins
<1>7. LockMoves(c, p) /\ at[c] # "stopped"
  BY DEF LockMoves, Holding, ClosePlaces
<1>8. PlainMove(c, p, l)
  BY <1>3, <1>4, <1>5, <1>6, <1>7 DEF PlainMove
<1> QED BY <1>1, <1>8, PlainMoveKeeps

\* So does a join.
LEMMA CloseJoinMoves ==
    ASSUME Control, NEW c \in Client, CloseJoin(c)
    PROVE  Control'
<1> DEFINE t == IF at[c] = "close.join_compactor" THEN Compactor ELSE Flusher
<1>1. /\ at[c] \in {"close.join_compactor", "close.join_flusher"}
      /\ UNCHANGED <<setting, stop, writes, done, lock, left>>
      /\ \/ CloseGives(c, "err")
         \/ /\ at[t] = "stopped" /\ UNCHANGED <<mode, closed>>
            /\ Goto(c, IF t = Compactor THEN "close.join_flusher" ELSE "close.memtable",
                    [op |-> "close"])
  BY DEF CloseJoin, historyVars
<1>2. at[c] \in ClosePlaces
  BY <1>1 DEF ClosePlaces
<1>3. CASE CloseGives(c, "err")
  BY <1>1, <1>2, <1>3, CloseGivesMoves
<1>4. CASE /\ at[t] = "stopped" /\ UNCHANGED <<mode, closed>>
           /\ Goto(c, IF t = Compactor THEN "close.join_flusher" ELSE "close.memtable",
                   [op |-> "close"])
  <2>1. UNCHANGED <<setting, controlVars, writes, done, lock, left>>
    BY <1>1, <1>4 DEF controlVars
  <2>2. CASE at[c] = "close.join_compactor"
    <3>1. at[Compactor] = "stopped" /\ Goto(c, "close.join_flusher", [op |-> "close"])
      BY <1>4, <2>2
    <3> QED BY <1>2, <2>1, <3>1, CloserMoves
  <2>3. CASE at[c] = "close.join_flusher"
    <3>1. at[Flusher] = "stopped" /\ Goto(c, "close.memtable", [op |-> "close"])
      BY <1>4, <2>3, ThreadsApart
    <3>2. at[Compactor] = "stopped"
      BY <1>2, <2>3, ClosedBy
    <3> QED BY <1>2, <2>1, <3>1, <3>2, CloserMoves
  <2> QED BY <1>1, <2>2, <2>3
<1> QED BY <1>1, <1>3, <1>4

\* So does what close does with the memtables.
LEMMA CloseMemtableMoves ==
    ASSUME Control, NEW c \in Client, CloseMemtable(c) \/ CloseDrain(c)
    PROVE  Control'
<1>1. /\ at[c] \in {"close.memtable", "close.drain"}
      /\ UNCHANGED <<setting, controlVars, writes, done, lock, left>>
      /\ \E p \in {"close.synced", "close.drain", "flush"} : Goto(c, p, [op |-> "close"])
  BY DEF CloseMemtable, CloseDrain, historyVars
<1>2. at[c] \in ClosePlaces /\ at[Compactor] = "stopped" /\ at[Flusher] = "stopped"
  BY <1>1, ClosedBy DEF ClosePlaces, PastJoins
<1> QED BY <1>1, <1>2, CloserMoves

\* So does the end of close.
LEMMA CloseEndMoves ==
    ASSUME Control, NEW c \in Client, CloseEnd(c)
    PROVE  Control'
<1>1. /\ at[c] \in ClosePlaces /\ CloseGives(c, "ok")
      /\ UNCHANGED <<setting, stop, writes, done, lock, left>>
  BY DEF CloseEnd, historyVars, ClosePlaces
<1> QED BY <1>1, CloseGivesMoves

-----------------------------------------------------------------------------
(* Opening.                                                                *)

\* A non-empty set of numbers up to a bound has a greatest element.
LEMMA GreatestOf ==
    ASSUME NEW N \in Nat, NEW S \in SUBSET (0..N), S # {}
    PROVE  \E m \in S : \A x \in S : x <= m
<1> DEFINE T == {N - x : x \in S}
<1>1. T \in SUBSET Nat /\ T # {}
  <2>1. \A x \in S : N - x \in Nat
    OBVIOUS
  <2> QED BY <2>1
<1> HIDE DEF T
<1>2. PICK n \in T : \A y \in T : n <= y
  BY <1>1, LeastOf
<1>3. PICK m \in S : n = N - m
  BY <1>2 DEF T
<1>4. ASSUME NEW x \in S PROVE x <= m
  <2>1. N - x \in T
    BY DEF T
  <2>2. n <= N - x
    BY <1>2, <2>1
  <2> QED BY <1>3, <2>2
<1> QED BY <1>3, <1>4

\* A record of a log.
LogRecord == [k : Key, e : Int]

\* What is recovered from a log is the last record of each key.
LEMMA RecoveredOf ==
    ASSUME NEW log \in Seq(LogRecord)
    PROVE  /\ Recovered(log) \in Table
           /\ \A k \in Key : (\A n \in 1..Len(log) : log[n].k # k) => Recovered(log)[k] = 0
           /\ \A k \in Key, n \in 1..Len(log) :
                 log[n].k = k /\ (\A m \in 1..Len(log) : log[m].k = k => m <= n)
                    => Recovered(log)[k] = log[n].e
           /\ \A k \in Key : (\E n \in 1..Len(log) : log[n].k = k) =>
                 \E n \in 1..Len(log) : /\ log[n].k = k /\ Recovered(log)[k] = log[n].e
                                        /\ \A m \in 1..Len(log) : log[m].k = k => m <= n
<1> DEFINE R(k) == {n \in DOMAIN log : log[n].k = k}
           top(k) == CHOOSE n \in R(k) : \A m \in R(k) : m <= n
<1>1. DOMAIN log = 1..Len(log) /\ Len(log) \in Nat /\ \A n \in 1..Len(log) : log[n] \in LogRecord
  OBVIOUS
<1>2. \A k \in Key : Recovered(log)[k] = IF R(k) = {} THEN 0 ELSE log[top(k)].e
  BY DEF Recovered
<1>3. ASSUME NEW k \in Key, R(k) # {}
      PROVE  top(k) \in R(k) /\ \A m \in R(k) : m <= top(k)
  <2>1. R(k) \in SUBSET (0..Len(log))
    BY <1>1
  <2>2. \E n \in R(k) : \A m \in R(k) : m <= n
    <3> HIDE DEF R
    <3> QED BY <1>1, <1>3, <2>1, GreatestOf
  <2> QED BY <2>2
<1> HIDE DEF R, top
<1>4. ASSUME NEW k \in Key PROVE Recovered(log)[k] \in Int
  <2>1. CASE R(k) = {}
    BY <1>2, <2>1
  <2>2. CASE R(k) # {}
    <3>1. top(k) \in 1..Len(log)
      BY <1>1, <1>3, <2>2 DEF R
    <3>2. log[top(k)].e \in Int
      BY <1>1, <3>1 DEF LogRecord
    <3> QED BY <1>2, <2>2, <3>2
  <2> QED BY <2>1, <2>2
<1>5. Recovered(log) \in Table
  <2>1. Recovered(log) = [k \in Key |-> Recovered(log)[k]]
    BY DEF Recovered
  <2> QED BY <1>4, <2>1 DEF Table
<1>6. ASSUME NEW k \in Key, \A n \in 1..Len(log) : log[n].k # k PROVE Recovered(log)[k] = 0
  <2>1. R(k) = {}
    BY <1>1, <1>6 DEF R
  <2> QED BY <1>2, <2>1
<1>7. ASSUME NEW k \in Key, NEW n \in 1..Len(log), log[n].k = k,
             \A m \in 1..Len(log) : log[m].k = k => m <= n
      PROVE  Recovered(log)[k] = log[n].e
  <2>1. n \in R(k)
    BY <1>1, <1>7 DEF R
  <2>2. top(k) \in 1..Len(log) /\ log[top(k)].k = k /\ n <= top(k)
    BY <1>1, <1>3, <2>1 DEF R
  <2>3. top(k) <= n
    BY <1>7, <2>2
  <2>4. top(k) = n
    BY <1>1, <2>2, <2>3
  <2> QED BY <1>2, <2>1, <2>4
<1>8. ASSUME NEW k \in Key, \E n \in 1..Len(log) : log[n].k = k
      PROVE  \E n \in 1..Len(log) : /\ log[n].k = k /\ Recovered(log)[k] = log[n].e
                                    /\ \A m \in 1..Len(log) : log[m].k = k => m <= n
  <2>1. R(k) # {}
    BY <1>1, <1>8 DEF R
  <2>2. top(k) \in R(k) /\ \A m \in R(k) : m <= top(k)
    BY <1>3, <2>1
  <2>3. Recovered(log)[k] = log[top(k)].e
    BY <1>2, <2>1
  <2>4. top(k) \in 1..Len(log) /\ log[top(k)].k = k /\ \A m \in 1..Len(log) : log[m].k = k => m <= top(k)
    BY <1>1, <2>2 DEF R
  <2> QED BY <2>3, <2>4
<1> QED BY <1>5, <1>6, <1>7, <1>8

\* An empty log gives an empty memtable, one more record changes one entry.
LEMMA RecoveredNext ==
    /\ Recovered(<<>>) = Nothing
    /\ \A log \in Seq(LogRecord), r \in LogRecord :
          \A k \in Key : Recovered(Append(log, r))[k] = IF k = r.k THEN r.e ELSE Recovered(log)[k]
<1>1. Recovered(<<>>) = Nothing
  <2>1. \A k \in Key : {n \in DOMAIN <<>> : <<>>[n].k = k} = {}
    OBVIOUS
  <2> QED BY <2>1 DEF Recovered, Nothing
<1>2. ASSUME NEW log \in Seq(LogRecord), NEW r \in LogRecord, NEW k \in Key
      PROVE  Recovered(Append(log, r))[k] = IF k = r.k THEN r.e ELSE Recovered(log)[k]
  <2> DEFINE a == Append(log, r)
  <2> SUFFICES Recovered(a)[k] = IF k = r.k THEN r.e ELSE Recovered(log)[k]
    OBVIOUS
  <2>1. /\ a \in Seq(LogRecord) /\ Len(log) \in Nat /\ Len(a) = Len(log) + 1 /\ a[Len(a)] = r
        /\ Len(a) \in 1..Len(a)
        /\ \A n \in 1..Len(log) : a[n] = log[n] /\ n \in 1..Len(a)
        /\ \A n \in 1..Len(a) : n <= Len(a) /\ (n = Len(a) \/ n \in 1..Len(log))
    OBVIOUS
  <2> HIDE DEF a
  <2>2. CASE k = r.k
    <3>1. a[Len(a)].k = k /\ \A m \in 1..Len(a) : a[m].k = k => m <= Len(a)
      BY <2>1, <2>2
    <3>2. Recovered(a)[k] = a[Len(a)].e
      BY <2>1, <3>1, RecoveredOf
    <3> QED BY <2>1, <2>2, <3>2
  <2>3. CASE k # r.k /\ \A n \in 1..Len(log) : log[n].k # k
    <3>1. \A n \in 1..Len(a) : a[n].k # k
      BY <2>1, <2>3
    <3>2. Recovered(a)[k] = 0 /\ Recovered(log)[k] = 0
      BY <2>1, <2>3, <3>1, RecoveredOf
    <3> QED BY <2>3, <3>2
  <2>4. CASE k # r.k /\ \E n \in 1..Len(log) : log[n].k = k
    <3>1. PICK n \in 1..Len(log) : /\ log[n].k = k /\ Recovered(log)[k] = log[n].e
                                   /\ \A m \in 1..Len(log) : log[m].k = k => m <= n
      BY <2>4, RecoveredOf
    <3>2. n \in 1..Len(a) /\ a[n] = log[n] /\ a[n].k = k
      BY <2>1, <3>1
    <3>3. \A m \in 1..Len(a) : a[m].k = k => m <= n
      BY <2>1, <2>4, <3>1
    <3>4. Recovered(a)[k] = a[n].e
      BY <2>1, <3>2, <3>3, RecoveredOf
    <3> QED BY <2>4, <3>1, <3>2, <3>4
  <2> QED BY <2>2, <2>3, <2>4
<1> QED BY <1>1, <1>2

\* The logs are logs.
LEMMA LogOf ==
    ASSUME StoreTyped, NEW i \in DOMAIN wal
    PROVE  wal[i] \in Seq(LogRecord) /\ Recovered(wal[i]) \in Table
BY RecoveredOf DEF StoreTyped, LogRecord

\* The memtables that are recovered, and what open makes of them.
Kept == {i \in Replay.mems : i \in DOMAIN wal /\ ~IsEmptyTable(Recovered(wal[i]))}

\* The memtables that open makes of the logs.
OpenedMt(o) == [i \in Ids(o.s.imm) \cup {o.mem} |->
                   IF i = o.mem THEN EmptyMemtable ELSE [data |-> Recovered(wal[i]), size |-> 0]]

\* What Opened holds when open gets that far.
LEMMA OpenedIs ==
    ASSUME Control, StoreTyped, Replays, Opened.ok
    PROVE  LET o == Opened IN
           /\ NoFull /\ o.s \in State
           /\ o.s.mem = o.mem /\ o.s.l0 = st.l0 /\ o.s.levels = st.levels
           /\ o.mem \in Nat /\ o.mem - 1 \in Replay.ids /\ (\A i \in Replay.ids : i < o.mem)
           /\ Ids(o.s.imm) = IF setting.wal THEN Kept ELSE {}
           /\ \A p, q \in DOMAIN o.s.imm : p < q => o.s.imm[p] > o.s.imm[q]
           /\ TableIds(st) \subseteq files
           /\ setting.wal => Replay.mems \subseteq DOMAIN wal /\ o.mem \notin DOMAIN wal
<1> DEFINE o == Opened
           r == Replay
           top == CHOOSE i \in r.ids : \A j \in r.ids : j <= i
           imm == IF setting.wal THEN Descending(Kept) ELSE <<>>
<1>1. /\ o.ok = /\ r.ok
                /\ TableIds(r.s) \subseteq files
                /\ setting.wal => r.mems \subseteq DOMAIN wal /\ top + 1 \notin DOMAIN wal
      /\ o.mem = top + 1
      /\ o.s = [r.s EXCEPT !.mem = top + 1, !.imm = imm]
  BY DEF Opened, Kept
<1>2. /\ NoFull
      /\ r.s = [mem |-> 0, imm |-> <<>>, l0 |-> st.l0, levels |-> st.levels]
      /\ r.mems \subseteq r.ids /\ 1 \in r.ids /\ r.ids \subseteq 0..nextId
  BY <1>1 DEF Replays
<1>3. st \in State /\ nextId \in Nat
  BY DEF StoreTyped
<1>4. top \in r.ids /\ \A j \in r.ids : j <= top
  <2>1. \E i \in r.ids : \A j \in r.ids : j <= i
    <3> HIDE DEF r
    <3> QED BY <1>2, <1>3, GreatestOf
  <2> HIDE DEF r
  <2> QED BY <2>1
<1> HIDE DEF top
<1>5. top \in Nat /\ \A j \in r.ids : j \in Nat
  BY <1>2, <1>3, <1>4
<1>6. Kept \in SUBSET Nat /\ IsFiniteSet(Kept)
  <2>1. Kept \subseteq 0..nextId
    BY <1>2 DEF Kept
  <2>2. IsFiniteSet(0..nextId)
    BY <1>3, FS_Interval
  <2>3. IsFiniteSet(Kept)
    BY <2>1, <2>2, FS_Subset
  <2> QED BY <1>3, <2>1, <2>3
<1>7. /\ imm \in Seq(Nat) /\ Ids(imm) = IF setting.wal THEN Kept ELSE {}
      /\ \A p, q \in DOMAIN imm : p < q => imm[p] > imm[q]
  <2>1. CASE setting.wal
    BY <1>6, <2>1, DescendingLists
  <2>2. CASE ~setting.wal
    BY <2>2, IdsOf
  <2> QED BY <2>1, <2>2
<1> HIDE DEF imm, r
<1> HIDE DEF o
<1>9. o.s \in State /\ o.s.mem = top + 1 /\ o.s.imm = imm /\ o.s.l0 = st.l0 /\ o.s.levels = st.levels
  <2> DEFINE q == [mem |-> 0, imm |-> <<>>, l0 |-> st.l0, levels |-> st.levels]
  <2>1. q \in State /\ q.l0 = st.l0 /\ q.levels = st.levels
    BY <1>3 DEF State
  <2>2. o.s = [q EXCEPT !.mem = top + 1, !.imm = imm]
    BY <1>1, <1>2
  <2> HIDE DEF q
  <2>3. top + 1 \in Nat
    BY <1>5
  <2> QED BY <1>7, <2>1, <2>2, <2>3 DEF State
<1>10. TableIds(r.s) = TableIds(st)
  BY <1>2 DEF TableIds
<1>11. (\A i \in r.ids : i < top + 1) /\ top + 1 - 1 = top
  BY <1>4, <1>5
<1>12. o.ok
  BY DEF o
<1>13. /\ NoFull /\ o.s \in State
       /\ o.s.mem = o.mem /\ o.s.l0 = st.l0 /\ o.s.levels = st.levels
  BY <1>1, <1>2, <1>9
<1>14. o.mem \in Nat /\ o.mem - 1 \in r.ids /\ (\A i \in r.ids : i < o.mem)
  BY <1>1, <1>4, <1>5, <1>11
<1>15. /\ Ids(o.s.imm) = IF setting.wal THEN Kept ELSE {}
       /\ \A p, q \in DOMAIN o.s.imm : p < q => o.s.imm[p] > o.s.imm[q]
  BY <1>7, <1>9
<1>16. /\ TableIds(st) \subseteq files
       /\ setting.wal => r.mems \subseteq DOMAIN wal /\ o.mem \notin DOMAIN wal
  BY <1>1, <1>10, <1>12
<1> QED BY <1>13, <1>14, <1>15, <1>16 DEF o, r

\* What the opened engine reads is what is behind its empty memtable.
LEMMA OpenedReads ==
    ASSUME Control, StoreTyped, TablesHeld, Replays, Opened.ok
    PROVE  /\ Backed(OpenedMt(Opened), sst, Opened.s)
           /\ Opened.mem \notin Ids(Opened.s.imm)
           /\ \A i \in Ids(Opened.s.imm) : /\ i \in DOMAIN wal /\ i \in Replay.mems
                                           /\ OpenedMt(Opened)[i] = [data |-> Recovered(wal[i]), size |-> 0]
           /\ \A k \in Key : /\ OpenedEntry(Opened, k) = Behind(OpenedMt(Opened), sst, Opened.s, k)
                             /\ OpenedEntry(Opened, k) \in Int
<1> DEFINE o == Opened
           m == OpenedMt(o)
<1>1. /\ o.s \in State /\ o.s.mem = o.mem /\ o.s.l0 = st.l0 /\ o.s.levels = st.levels
      /\ o.mem \in Nat /\ (\A i \in Replay.ids : i < o.mem)
      /\ Ids(o.s.imm) = (IF setting.wal THEN Kept ELSE {}) /\ NoFull
  BY OpenedIs
<1>2. Replay.mems \subseteq Replay.ids
  BY <1>1 DEF Replays
<1> HIDE DEF o
<1>3. \A i \in Ids(o.s.imm) : i \in DOMAIN wal /\ i \in Replay.mems /\ i # o.mem
  BY <1>1, <1>2 DEF Kept
<1>4. \A i \in Ids(o.s.imm) : m[i] = [data |-> Recovered(wal[i]), size |-> 0]
  BY <1>3 DEF OpenedMt
<1> HIDE DEF m
<1>5. \A i \in Ids(o.s.imm) : m[i].data = Recovered(wal[i]) /\ m[i].data \in Table
  <2>1. \A i \in Ids(o.s.imm) : Recovered(wal[i]) \in Table
    BY <1>3, LogOf
  <2>2. ASSUME NEW i \in Ids(o.s.imm) PROVE m[i].data = Recovered(wal[i])
    <3>1. m[i] = [data |-> Recovered(wal[i]), size |-> 0]
      BY <1>4
    <3> QED BY <3>1
  <2> QED BY <2>1, <2>2
<1>6. \A i \in TableIds(o.s) : i \in DOMAIN sst /\ sst[i] \in Table
  <2>1. TableIds(o.s) = TableIds(st)
    BY <1>1 DEF TableIds
  <2>2. TableIds(st) \subseteq Held
    BY HeldHas
  <2> QED BY <2>1, <2>2 DEF TablesHeld, StoreTyped
<1>7. Backed(m, sst, o.s)
  BY <1>1, <1>5, <1>6, BackedBy
<1>8. [i \in 1..Len(o.s.imm) |-> Recovered(wal[o.s.imm[i]])] = ImmOf(m, o.s.imm)
  BY <1>5 DEF ImmOf, Ids
<1>9. ASSUME NEW k \in Key
      PROVE  OpenedEntry(o, k) = Behind(m, sst, o.s, k) /\ OpenedEntry(o, k) \in Int
  <2>1. OpenedEntry(o, k) = Newest(ImmOf(m, o.s.imm) \o [i \in 1..Len(o.s.l0) |-> sst[o.s.l0[i]]]
                                      \o LevelsOf(sst, o.s.levels), k)
    BY <1>8, OldTablesAre DEF OpenedEntry
  <2>2. OpenedEntry(o, k) = Behind(m, sst, o.s, k)
    BY <1>7, <2>1, BehindOf
  <2> QED BY <1>7, <2>2, BehindType
<1> QED BY <1>3, <1>4, <1>7, <1>9 DEF o, m

\* open keeps who does what.
LEMMA OpenMoves ==
    ASSUME Control, StoreTyped, TablesHeld, Replays, NEW c \in Client, Open(c)
    PROVE  Control'
<1>1. /\ Quiet /\ mode = "closed" /\ {at[Flusher], at[Compactor]} \subseteq {"stopped", "panicked"}
      /\ Call("open") /\ setting' = setting
  BY DEF Open, Stopped
<1>2. left' \in [Calls -> Nat]
  BY <1>1, CallLeaves DEF Calls
<1>3. \A u \in Thread : /\ at[u] \in {"idle", "stopped", "panicked"} /\ loc[u].op = "none"
                        /\ u \in Client => at[u] # "stopped"
                        /\ lock # u
  <2>1. ASSUME NEW u \in Thread
        PROVE  /\ at[u] \in {"idle", "stopped", "panicked"} /\ loc[u].op = "none"
               /\ u \in Client => at[u] # "stopped"
               /\ lock # u
    <3>1. at[u] \in {"idle", "stopped", "panicked"}
      BY <1>1 DEF Quiet
    <3>2. ThreadFits(u, at[u], loc[u])
      BY PlaceOf
    <3> QED BY <3>1, <3>2, LocalsOf, LockOf DEF ThreadFits, Holding
  <2> QED BY <2>1
<1>4. CASE ~Opened.ok
  <2>1. mode' = "failed" /\ UNCHANGED <<lock, at, loc, stop, closed, writes, done>>
    BY <1>4 DEF Open, threadVars, historyVars
  <2>2. Typed'
    BY <1>1, <1>2, <2>1 DEF Control, Typed
  <2>3. OneCloses'
    BY <1>1, <1>3, <2>1, ThreadsApart DEF Control, OneCloses
  <2>4. ASSUME NEW u \in Thread PROVE ThreadOK(u)'
    <3>1. ThreadOK(u)
      BY DEF Control
    <3>2. LocalsFit(at[u], loc[u])' /\ ThreadFits(u, at[u], loc[u])' /\ (lock = u <=> at[u] \in Holding)'
      BY <1>1, <2>1, <3>1 DEF ThreadOK, LocalsFit, ThreadFits
    <3>3. ModeFits(mode, u, at[u], loc[u])'
      BY <1>1, <1>3, <2>1, ThreadsApart DEF ModeFits
    <3> QED BY <3>2, <3>3 DEF ThreadOK
  <2> QED BY <2>2, <2>3, <2>4 DEF Control
<1>5. CASE Opened.ok
  <2>1. /\ mode' = "open" /\ closed' = "none" /\ stop' = {}
        /\ at' = [t \in Thread |-> Start(t)] /\ loc' = [t \in Thread |-> NoOp]
        /\ done' = [k \in Key |-> {OpenedEntry(Opened, k)} \ {0}]
        /\ UNCHANGED <<lock, writes>>
    BY <1>5 DEF Open
  <2>2. done' \in [Key -> SUBSET Int]
    <3>1. \A k \in Key : OpenedEntry(Opened, k) \in Int
      BY <1>5, OpenedReads
    <3> QED BY <2>1, <3>1
  <2>3. \A t \in Thread : /\ at'[t] = (IF t = Compactor /\ ~setting.simple THEN "stopped" ELSE "idle")
                          /\ loc'[t].op = "none"
    BY <2>1 DEF Start, NoOp
  <2>4. Typed'
    BY <1>1, <1>2, <2>1, <2>2 DEF Control, Typed
  <2>5. OneCloses'
    BY <2>1, <2>3, ThreadsApart DEF OneCloses
  <2>6. ASSUME NEW u \in Thread PROVE ThreadOK(u)'
    <3>1. LocalsFit(at[u], loc[u])'
      BY <2>3 DEF LocalsFit
    <3>2. ThreadFits(u, at[u], loc[u])'
      BY <1>1, <2>3, ThreadsApart DEF ThreadFits
    <3>3. ModeFits(mode, u, at[u], loc[u])'
      BY <1>1, <2>1, <2>3 DEF ModeFits
    <3>4. (lock = u <=> at[u] \in Holding)'
      BY <1>3, <2>1, <2>3 DEF Holding
    <3> QED BY <3>1, <3>2, <3>3, <3>4 DEF ThreadOK
  <2> QED BY <2>4, <2>5, <2>6 DEF Control
<1> QED BY <1>4, <1>5

\* Initially every thread is idle, but for a compaction thread that is not spawned.
LEMMA ControlInit ==
    ASSUME Init
    PROVE  Control
<1>1. /\ setting \in Setting /\ left = setting.calls /\ writes = 0
      /\ done = [k \in Key |-> {}] /\ lock = Nobody
      /\ stop = {} /\ mode = "open" /\ closed = "none"
      /\ DOMAIN at = Thread /\ DOMAIN loc = Thread
  BY Week2Assumption DEF Init
<1>2. \A t \in Thread : /\ at[t] = (IF t = Compactor /\ ~setting.simple THEN "stopped" ELSE "idle")
                        /\ loc[t].op = "none"
  BY DEF Init, Start, NoOp
<1>3. Typed
  BY <1>1 DEF Typed, Setting
<1>4. OneCloses
  BY <1>1, <1>2, ThreadsApart DEF OneCloses
<1>5. ASSUME NEW u \in Thread PROVE ThreadOK(u)
  BY <1>1, <1>2, ThreadsApart DEF ThreadOK, LocalsFit, ThreadFits, ModeFits, Holding
<1> QED BY <1>3, <1>4, <1>5 DEF Control

\* Every step keeps the threads in their places.
LEMMA ControlStep ==
    ASSUME Control, Store, [Next]_vars
    PROVE  Control'
<1>1. StoreTyped /\ TablesHeld /\ TablesApart /\ InputsLast /\ Clones /\ Replays
  BY DEF Store
<1>2. CASE UNCHANGED vars
  BY <1>2 DEF vars, engineVars, diskVars, threadVars, controlVars, historyVars, Control, Typed,
      OneCloses, ThreadOK, LocalsFit, ThreadFits, ModeFits
<1>3. ASSUME NEW c \in Client,
             \/ WriteBatch(c) \/ NextRecord(c) \/ AppendRecord(c) \/ TryFreeze(c)
             \/ ForceFlush(c) \/ FullCompaction(c)
      PROVE  Control'
  BY <1>1, <1>3, WriteBatchMoves, NextRecordMoves, AppendMoves, TryFreezeMoves, ForceFlushMoves,
     FullCompactionMoves
<1>4. ASSUME NEW c \in Client,
             \/ Get(c) \/ GetMemtable(c) \/ GetOld(c) \/ ReadReturns(c)
             \/ Scan(c) \/ ScanOpen(c) \/ ScanNext(c) \/ ScanEnd(c)
      PROVE  Control'
  BY <1>1, <1>4, GetMoves, GetMemtableMoves, GetOldMoves, ReadReturnsMoves, ScanOpenMoves,
     ScanNextMoves, ScanEndMoves
<1>5. ASSUME NEW c \in Client,
             \/ Close(c) \/ CloseJoin(c) \/ CloseMemtable(c) \/ CloseDrain(c) \/ CloseEnd(c)
             \/ Open(c)
      PROVE  Control'
  BY <1>1, <1>5, CloseMoves, CloseJoinMoves, CloseMemtableMoves, CloseEndMoves, OpenMoves
<1>6. ASSUME NEW t \in Thread,
             \/ ForceFreeze(t) \/ Swap(t) \/ ForceCheck(t) \/ FlushBuild(t) \/ FlushInstall(t)
             \/ Merge(t) \/ Apply(t) \/ Install(t) \/ RemoveInputs(t) \/ StopThread(t)
      PROVE  Control'
  BY <1>1, <1>6, ForceFreezeMoves, SwapMoves, ForceCheckMoves, FlushBuildMoves, FlushInstallMoves,
     MergeMoves, ApplyMoves, InstallMoves, RemoveInputsMoves, StopThreadMoves
<1>7. FlushTick \/ CompactTick => Control'
  BY <1>1, FlushTickMoves, CompactTickMoves
<1> QED BY <1>2, <1>3, <1>4, <1>5, <1>6, <1>7, NextCases

-----------------------------------------------------------------------------
(* What a step leaves of the threads' tables.                              *)

\* The places with a task, and those with a clone.
Working == {"merge", "apply", "install", "remove"}
ClonePlaces == {"get.mem", "get.old", "scan.open", "scan.next"}

\* Only the thread that moves enters or leaves a set of threads.
LEMMA SetsAfter ==
    ASSUME Control, NEW t \in Thread, NEW p, NEW l, Goto(t, p, l)
    PROVE  /\ at'[t] = p /\ loc'[t] = l
           /\ \A u \in Thread : u # t => at'[u] = at[u] /\ loc'[u] = loc[u]
           /\ \A u \in Thread : u \in Compacting' <=> IF u = t THEN p \in Working ELSE u \in Compacting
           /\ \A u \in Thread : u \in Builders' <=> IF u = t THEN p \in {"apply", "install"} ELSE u \in Builders
           /\ \A u \in Thread : u \in Readers' <=>
                 IF u = t THEN t \in Client /\ p \in ClonePlaces ELSE u \in Readers
           /\ Compacting' \subseteq Thread /\ Builders' \subseteq Compacting' /\ Readers' \subseteq Thread
           /\ Compacting \subseteq Thread /\ Builders \subseteq Compacting /\ Readers \subseteq Client
           /\ Readers' \subseteq Client
           /\ \A u \in Thread : u # t => Taken(u)' = Taken(u) /\ Outputs(u)' = Outputs(u)
           /\ Taken(t)' = Ids(Inputs(l.task)) /\ Outputs(t)' = Ids(l.ids)
<1>1. /\ at'[t] = p /\ loc'[t] = l
      /\ \A u \in Thread : u # t => at'[u] = at[u] /\ loc'[u] = loc[u]
  BY Moved
<1>2. \A u \in Thread : u \in Compacting' <=> IF u = t THEN p \in Working ELSE u \in Compacting
  BY <1>1 DEF Compacting, Working
<1>3. \A u \in Thread : u \in Builders' <=> IF u = t THEN p \in {"apply", "install"} ELSE u \in Builders
  BY <1>1 DEF Builders
<1>4. \A u \in Thread : u \in Readers' <=>
         IF u = t THEN t \in Client /\ p \in ClonePlaces ELSE u \in Readers
  BY <1>1, ThreadsApart DEF Readers, ClonePlaces
<1>5. /\ Compacting' \subseteq Thread /\ Builders' \subseteq Compacting' /\ Readers' \subseteq Thread
      /\ Compacting \subseteq Thread /\ Builders \subseteq Compacting /\ Readers \subseteq Client
      /\ Readers' \subseteq Client
  BY ThreadsApart DEF Compacting, Builders, Readers
<1>6. \A u \in Thread : u # t => Taken(u)' = Taken(u) /\ Outputs(u)' = Outputs(u)
  BY <1>1 DEF Taken, Outputs
<1>7. Taken(t)' = Ids(Inputs(l.task)) /\ Outputs(t)' = Ids(l.ids)
  BY <1>1 DEF Taken, Outputs
<1> QED BY <1>1, <1>2, <1>3, <1>4, <1>5, <1>6, <1>7

\* The same, after a step.
LEMMA HeldHasNext ==
    \A i : i \in Held' <=> \/ i \in TableIds(st')
                           \/ \E c \in Readers' : i \in TableIds(loc'[c].snap)
                           \/ \E t \in Compacting' : i \in Taken(t)'
                           \/ \E t \in Builders' : i \in Outputs(t)'
<1>1. (\A i : i \in Held <=> \/ i \in TableIds(st)
                             \/ \E c \in Readers : i \in TableIds(loc[c].snap)
                             \/ \E t \in Compacting : i \in Taken(t)
                             \/ \E t \in Builders : i \in Outputs(t))'
  BY HeldHas, PTL
<1> QED BY <1>1

\* A task as it is made: of tables of the state, all of L0 if it takes any of it.
TaskMade(task) ==
    /\ task.lower = task.upper + 1 /\ task.lower <= Len(st.levels)
    /\ task.bottom => task.lower = Len(st.levels)
    /\ Ids(Inputs(task)) \subseteq TableIds(st)
    /\ task.upper = 0 => task.us = st.l0

\* Where a thread goes it takes its task or its clone along, or makes one.
Lands(t, p, l) ==
    /\ p \in Working =>
          \/ t \in Compacting /\ l.task = loc[t].task /\ (p # "remove" => at[t] # "remove")
          \/ p = "merge" /\ TaskMade(l.task)
    /\ t \in Client /\ p \in ClonePlaces => l.snap = st \/ (t \in Readers /\ l.snap = loc[t].snap)

\* Nothing new is referred to, but what the state or a thread's output got.
LEMMA HeldAfter ==
    ASSUME Control, NEW t \in Thread, NEW p, NEW l, Goto(t, p, l), Lands(t, p, l),
           NEW X, TableIds(st)' \subseteq Held \cup X,
           p \in {"apply", "install"} => Ids(l.ids) \subseteq Held \cup X
    PROVE  Held' \subseteq Held \cup X
<1> SUFFICES ASSUME NEW i \in Held' PROVE i \in Held \cup X
  OBVIOUS
<1>1. \/ i \in TableIds(st)'
      \/ \E c \in Readers' : i \in TableIds(loc'[c].snap)
      \/ \E u \in Compacting' : i \in Taken(u)'
      \/ \E u \in Builders' : i \in Outputs(u)'
  BY HeldHasNext
<1>2. CASE i \in TableIds(st)'
  BY <1>2
<1>3. ASSUME NEW c \in Readers', i \in TableIds(loc'[c].snap) PROVE i \in Held \cup X
  <2>1. CASE c = t
    <3>1. t \in Client /\ p \in ClonePlaces /\ loc'[c] = l
      BY <1>3, <2>1, SetsAfter
    <3>2. l.snap = st \/ (t \in Readers /\ l.snap = loc[t].snap)
      BY <3>1 DEF Lands
    <3> QED BY <1>3, <3>1, <3>2, HeldHas
  <2>2. CASE c # t
    <3>1. c \in Readers /\ loc'[c] = loc[c]
      BY <1>3, <2>2, SetsAfter
    <3> QED BY <1>3, <3>1, HeldHas
  <2> QED BY <2>1, <2>2
<1>4. ASSUME NEW u \in Compacting', i \in Taken(u)' PROVE i \in Held \cup X
  <2>1. CASE u = t
    <3>1. p \in Working /\ i \in Ids(Inputs(l.task))
      BY <1>4, <2>1, SetsAfter
    <3>2. (t \in Compacting /\ l.task = loc[t].task) \/ Ids(Inputs(l.task)) \subseteq TableIds(st)
      BY <3>1 DEF Lands, TaskMade
    <3> QED BY <3>1, <3>2, HeldHas DEF Taken
  <2>2. CASE u # t
    <3>1. u \in Compacting /\ i \in Taken(u)
      BY <1>4, <2>2, SetsAfter
    <3> QED BY <3>1, HeldHas
  <2> QED BY <2>1, <2>2
<1>5. ASSUME NEW u \in Builders', i \in Outputs(u)' PROVE i \in Held \cup X
  <2>1. CASE u = t
    <3>1. p \in {"apply", "install"} /\ i \in Ids(l.ids)
      BY <1>5, <2>1, SetsAfter
    <3> QED BY <3>1
  <2>2. CASE u # t
    <3>1. u \in Builders /\ i \in Outputs(u)
      BY <1>5, <2>2, SetsAfter
    <3> QED BY <3>1, HeldHas
  <2> QED BY <2>1, <2>2
<1> QED BY <1>1, <1>2, <1>3, <1>4, <1>5

\* The tasks fit, as long as the levels are as many.
LEMMA TasksKept ==
    ASSUME Control, TasksFit, NEW t \in Thread, NEW p, NEW l, Goto(t, p, l), Lands(t, p, l),
           Len(st'.levels) = Len(st.levels)
    PROVE  TasksFit'
<1> SUFFICES ASSUME NEW u \in Compacting'
             PROVE  /\ loc'[u].task.lower = loc'[u].task.upper + 1 /\ loc'[u].task.lower <= Len(st.levels)
                    /\ loc'[u].task.bottom => loc'[u].task.lower = Len(st.levels)
  BY DEF TasksFit
<1>1. CASE u = t
  <2>1. loc'[u] = l /\ p \in Working
    BY <1>1, SetsAfter
  <2>2. CASE t \in Compacting /\ l.task = loc[t].task
    BY <2>1, <2>2 DEF TasksFit
  <2>3. CASE TaskMade(l.task)
    BY <2>1, <2>3 DEF TaskMade
  <2> QED BY <2>1, <2>2, <2>3 DEF Lands
<1>2. CASE u # t
  <2>1. u \in Compacting /\ loc'[u] = loc[u]
    BY <1>2, SetsAfter
  <2> QED BY <2>1 DEF TasksFit
<1> QED BY <1>1, <1>2

\* A sequence may be put together from either end.
LEMMA Associates ==
    ASSUME NEW i \in Nat, NEW v \in Seq(Nat), NEW w \in Seq(Nat)
    PROVE  <<i>> \o v \in Seq(Nat) /\ <<i>> \o (v \o w) = (<<i>> \o v) \o w
<1> DEFINE q == <<i>>
<1>1. q \in Seq(Nat)
  OBVIOUS
<1> HIDE DEF q
<1>2. q \o v \in Seq(Nat)
  BY <1>1
<1>3. (q \o v) \o w = q \o (v \o w)
  <2>1. q \in Seq(Nat) /\ v \in Seq(Nat) /\ w \in Seq(Nat)
    BY <1>1
  <2> QED BY ONLY <2>1, ConcatAssociative, SMTT(30)
<1> QED BY <1>2, <1>3 DEF q

\* What a task took of L0 stays the oldest part while tables enter at the front.
LEMMA InputsKept ==
    ASSUME Control, StoreTyped, InputsLast, NEW t \in Thread, NEW p, NEW l, Goto(t, p, l), Lands(t, p, l),
           \/ st'.l0 = st.l0
           \/ /\ p \notin Working
              /\ \E i \in Nat : /\ st'.l0 = <<i>> \o st.l0
                                /\ \A u \in Compacting : i \notin Taken(u)
    PROVE  InputsLast'
<1> SUFFICES ASSUME NEW u \in Thread, at'[u] \in {"merge", "apply", "install"}, loc'[u].task.upper = 0,
                    Ids(loc'[u].task.us) \subseteq Ids(st'.l0)
             PROVE  \E v \in Seq(Nat) : st'.l0 = v \o loc'[u].task.us
  BY DEF InputsLast, Ids
<1>1. st.l0 \in Seq(Nat) /\ <<>> \in Seq(Nat) /\ st.l0 = <<>> \o st.l0
  BY DEF StoreTyped, State
<1>2. CASE u = t
  <2>1. p \in {"merge", "apply", "install"} /\ loc'[u] = l /\ p \in Working
    BY <1>2, SetsAfter DEF Working
  <2>2. st'.l0 = st.l0
    BY <2>1
  <2>3. CASE TaskMade(l.task)
    BY <1>1, <2>1, <2>2, <2>3 DEF TaskMade
  <2>4. CASE at[t] \in {"merge", "apply", "install"} /\ l.task = loc[t].task
    BY <2>1, <2>2, <2>4 DEF InputsLast
  <2> QED BY <2>1, <2>3, <2>4 DEF Lands, Compacting
<1>3. CASE u # t
  <2>1. at[u] \in {"merge", "apply", "install"} /\ loc'[u] = loc[u]
    BY <1>3, SetsAfter
  <2>2. CASE st'.l0 = st.l0
    BY <2>1, <2>2 DEF InputsLast
  <2>3. CASE \E i \in Nat : /\ st'.l0 = <<i>> \o st.l0
                            /\ \A w \in Compacting : i \notin Taken(w)
    <3>1. PICK i \in Nat : /\ st'.l0 = <<i>> \o st.l0
                           /\ \A w \in Compacting : i \notin Taken(w)
      BY <2>3
    <3>2. loc[u].task \in Task /\ u \in Compacting
      BY <2>1, CompactedBy DEF Compacting
    <3>3. i \notin Ids(loc[u].task.us)
      BY <3>1, <3>2, TaskOf DEF Taken
    <3>4. Ids(st'.l0) = {i} \cup Ids(st.l0)
      BY <1>1, <3>1, Prepended
    <3>5. Ids(loc[u].task.us) \subseteq Ids(st.l0)
      BY <2>1, <3>3, <3>4
    <3>6. PICK v \in Seq(Nat) : st.l0 = v \o loc[u].task.us
      BY <2>1, <3>5 DEF InputsLast
    <3>7. loc[u].task.us \in Seq(Nat)
      BY <3>2, TaskOf
    <3>8. <<i>> \o v \in Seq(Nat) /\ <<i>> \o (v \o loc[u].task.us) = (<<i>> \o v) \o loc[u].task.us
      BY <3>7, Associates
    <3>9. st'.l0 = (<<i>> \o v) \o loc'[u].task.us
      BY <2>1, <3>1, <3>6, <3>8
    <3> QED BY <3>8, <3>9
  <2> QED BY <2>2, <2>3
<1> QED BY <1>2, <1>3

\* How a step changes the tables of the state and what jobs of other threads rely on.
StoreGrows(t, X) ==
    /\ TableIds(st') \subseteq TableIds(st) \cup X /\ X \cap Held = {}
    /\ \A u \in Builders : Outputs(u) \subseteq files'
    /\ \A u \in Thread : u # t /\ at[u] = "install" => st' = st
    /\ \A u \in Thread : u # t /\ at[u] = "flush.install" =>
          /\ st'.imm = st.imm /\ loc[u].id \in DOMAIN sst' \cap files'
          /\ sst'[loc[u].id] = sst[loc[u].id] /\ mt'[loc[u].id].data = mt[loc[u].id].data

\* A thread is about to install a table: it is that of the oldest memtable.
FlushReady(i) ==
    /\ st'.imm # <<>> /\ i = Last(st'.imm)
    /\ i \in DOMAIN sst' \cap files' /\ sst'[i] = mt'[i].data

\* The jobs of all threads go on.
LEMMA JobsKept ==
    ASSUME Control, Jobs, NEW t \in Thread, NEW p, NEW l, Goto(t, p, l), Lands(t, p, l),
           NEW X, StoreGrows(t, X), p \notin {"apply", "remove"},
           p = "install" => /\ at[t] = "apply" /\ l = Installing(loc[t]) /\ st' = st
                            /\ InputsInPlace(st, loc[t].task),
           p = "flush.install" => FlushReady(l.id)
    PROVE  Jobs'
<1>1. /\ TableIds(st') \subseteq TableIds(st) \cup X /\ X \cap Held = {}
      /\ \A u \in Builders : Outputs(u) \subseteq files'
      /\ \A u \in Thread : u # t /\ at[u] = "install" => st' = st
  BY DEF StoreGrows
<1>2. \A u \in Builders : Outputs(u) \cap TableIds(st') = {}
  <2>1. ASSUME NEW u \in Builders, NEW i \in Outputs(u), i \in TableIds(st') PROVE FALSE
    <3>1. i \in Held
      BY <2>1, HeldHas
    <3>2. i \in TableIds(st)
      BY <1>1, <2>1, <3>1
    <3> QED BY <2>1, <3>2 DEF Jobs
  <2> QED BY <2>1
<1>3. ASSUME NEW u \in Builders'
      PROVE  u \in Builders /\ Outputs(u)' = Outputs(u) /\ loc'[u].task = loc[u].task
             /\ loc'[u].ids = loc[u].ids /\ Taken(u)' = Taken(u)
  <2>1. CASE u = t
    <3>1. p = "install" /\ loc'[u] = l
      BY <1>3, <2>1, SetsAfter
    <3>2. l.ids = loc[t].ids /\ l.task = loc[t].task /\ at[t] = "apply"
      BY <3>1 DEF Installing
    <3> QED BY <2>1, <3>1, <3>2 DEF Builders, Outputs, Taken
  <2>2. CASE u # t
    <3>1. u \in Thread
      BY SetsAfter
    <3> QED BY <2>2, <3>1, SetsAfter
  <2> QED BY <2>1, <2>2
<1>4. ASSUME NEW u \in Compacting'
      PROVE  (u \in Compacting /\ Taken(u)' = Taken(u)) \/ Taken(u)' \subseteq TableIds(st)
  <2>1. CASE u = t
    <3>1. p \in Working /\ Taken(u)' = Ids(Inputs(l.task))
      BY <1>4, <2>1, SetsAfter
    <3> QED BY <2>1, <3>1 DEF Lands, TaskMade, Taken
  <2>2. CASE u # t
    <3>1. u \in Thread
      BY SetsAfter
    <3> QED BY <1>4, <2>2, <3>1, SetsAfter
  <2> QED BY <2>1, <2>2
<1>5. (\A u \in Builders : Outputs(u) \subseteq files /\ Outputs(u) \cap TableIds(st) = {})'
  <2>1. ASSUME NEW u \in Builders' PROVE Outputs(u)' \subseteq files' /\ Outputs(u)' \cap TableIds(st') = {}
    BY <1>1, <1>2, <1>3
  <2> QED BY <2>1
<1>6. (\A u \in Builders, v \in Compacting : Outputs(u) \cap Taken(v) = {})'
  <2>1. ASSUME NEW u \in Builders', NEW v \in Compacting' PROVE Outputs(u)' \cap Taken(v)' = {}
    <3>1. CASE v \in Compacting /\ Taken(v)' = Taken(v)
      BY <1>3, <3>1 DEF Jobs
    <3>2. CASE Taken(v)' \subseteq TableIds(st)
      BY <1>3, <3>2 DEF Jobs
    <3> QED BY <1>4, <3>1, <3>2
  <2> QED BY <2>1
<1>7. (\A u, v \in Builders : u # v => Outputs(u) \cap Outputs(v) = {})'
  <2>1. ASSUME NEW u \in Builders', NEW v \in Builders', u # v PROVE Outputs(u)' \cap Outputs(v)' = {}
    BY <1>3, <2>1 DEF Jobs
  <2> QED BY <2>1
<1>8. (\A u \in Compacting : at[u] = "remove" => Taken(u) \cap TableIds(st) = {})'
  <2>1. ASSUME NEW u \in Compacting', at'[u] = "remove" PROVE Taken(u)' \cap TableIds(st') = {}
    <3>1. u \in Thread /\ u # t /\ at[u] = "remove"
      BY <2>1, SetsAfter
    <3>2. u \in Compacting /\ Taken(u)' = Taken(u)
      BY <3>1, SetsAfter DEF Compacting
    <3>3. Taken(u) \cap TableIds(st) = {}
      BY <3>1, <3>2 DEF Jobs
    <3>4. Taken(u) \subseteq Held
      BY <3>2, HeldHas
    <3> QED BY <1>1, <3>2, <3>3, <3>4
  <2> QED BY <2>1
<1>9. (\A u \in Builders : at[u] = "install" =>
          /\ InputsInPlace(st, loc[u].task)
          /\ loc[u].st = Applied(st, loc[u].task, loc[u].ids))'
  <2>1. ASSUME NEW u \in Builders', at'[u] = "install"
        PROVE  /\ InputsInPlace(st', loc'[u].task)
               /\ loc'[u].st = Applied(st', loc'[u].task, loc'[u].ids)
    <3>1. CASE u = t
      <4>1. p = "install" /\ loc'[u] = l
        BY <2>1, <3>1, SetsAfter
      <4>2. l = Installing(loc[t]) /\ st' = st /\ InputsInPlace(st, loc[t].task)
        BY <4>1
      <4> QED BY <3>1, <4>1, <4>2 DEF Installing
    <3>2. CASE u # t
      <4>1. u \in Thread /\ at[u] = "install" /\ loc'[u] = loc[u] /\ u \in Builders
        BY <1>3, <2>1, <3>2, SetsAfter
      <4>2. st' = st
        BY <1>1, <3>2, <4>1
      <4> QED BY <4>1, <4>2 DEF Jobs
    <3> QED BY <3>1, <3>2
  <2>2. \A u \in Builders' : at'[u] = "install" =>
          /\ InputsInPlace(st', loc'[u].task)
          /\ loc'[u].st = Applied(st', loc'[u].task, loc'[u].ids)
    BY <2>1
  <2> QED BY <2>2 DEF InputsInPlace, Applied, Without, Ids
<1>10. (\A u \in Thread : at[u] = "flush.install" =>
          /\ st.imm # <<>> /\ loc[u].id = Last(st.imm)
          /\ loc[u].id \in DOMAIN sst \cap files
          /\ sst[loc[u].id] = mt[loc[u].id].data)'
  <2>1. ASSUME NEW u \in Thread, at'[u] = "flush.install"
        PROVE  /\ st'.imm # <<>> /\ loc'[u].id = Last(st'.imm)
               /\ loc'[u].id \in DOMAIN sst' \cap files'
               /\ sst'[loc'[u].id] = mt'[loc'[u].id].data
    <3>1. CASE u = t
      <4>1. p = "flush.install" /\ loc'[u] = l
        BY <2>1, <3>1, SetsAfter
      <4> QED BY <4>1 DEF FlushReady
    <3>2. CASE u # t
      <4>1. at[u] = "flush.install" /\ loc'[u] = loc[u]
        BY <2>1, <3>2, SetsAfter
      <4>2. /\ st.imm # <<>> /\ loc[u].id = Last(st.imm) /\ sst[loc[u].id] = mt[loc[u].id].data
        BY <4>1 DEF Jobs
      <4>3. /\ st'.imm = st.imm /\ loc[u].id \in DOMAIN sst' \cap files'
            /\ sst'[loc[u].id] = sst[loc[u].id] /\ mt'[loc[u].id].data = mt[loc[u].id].data
        BY <3>2, <4>1 DEF StoreGrows
      <4> QED BY <4>1, <4>2, <4>3
    <3> QED BY <3>1, <3>2
  <2> QED BY <2>1
<1> QED BY <1>5, <1>6, <1>7, <1>8, <1>9, <1>10 DEF Jobs

\* Clones refer to memtables that are there, none newer than the current one.
LEMMA ClonesKept ==
    ASSUME Control, StoreTyped, Memtables, Clones, NEW t \in Thread, NEW p, NEW l, Goto(t, p, l), Lands(t, p, l),
           Len(st'.levels) = Len(st.levels), DOMAIN mt \subseteq DOMAIN mt',
           st'.mem \in Nat, st.mem <= st'.mem
    PROVE  Clones'
<1>1. ASSUME NEW c \in Readers'
      PROVE  /\ Len(loc'[c].snap.levels) = Len(st'.levels)
             /\ loc'[c].snap.mem \in DOMAIN mt' /\ Ids(loc'[c].snap.imm) \subseteq DOMAIN mt'
             /\ loc'[c].snap.mem <= st'.mem /\ \A i \in Ids(loc'[c].snap.imm) : i < loc'[c].snap.mem
  <2> DEFINE s == loc'[c].snap
  <2> SUFFICES /\ Len(s.levels) = Len(st'.levels)
               /\ s.mem \in DOMAIN mt' /\ Ids(s.imm) \subseteq DOMAIN mt'
               /\ s.mem <= st'.mem /\ \A i \in Ids(s.imm) : i < s.mem
    OBVIOUS
  <2>1. s = st \/ \E d \in Readers : s = loc[d].snap
    <3>1. CASE c = t
      <4>1. t \in Client /\ p \in ClonePlaces /\ loc'[c] = l
        BY <1>1, <3>1, SetsAfter
      <4> QED BY <4>1 DEF Lands
    <3>2. CASE c # t
      <4>1. c \in Readers /\ loc'[c] = loc[c]
        BY <1>1, <3>2, SetsAfter
      <4> QED BY <4>1
    <3> QED BY <3>1, <3>2
  <2> HIDE DEF s
  <2>2. st.mem \in Nat
    BY DEF StoreTyped, State
  <2>3. CASE s = st
    <3>1. st.mem \in DOMAIN mt /\ Ids(st.imm) \subseteq DOMAIN mt /\ \A i \in Ids(st.imm) : i < st.mem
      BY DEF Memtables, MemIds
    <3> QED BY <2>3, <3>1
  <2>4. CASE \E d \in Readers : s = loc[d].snap
    <3> PICK d \in Readers : s = loc[d].snap
      BY <2>4
    <3>1. /\ Len(s.levels) = Len(st.levels)
          /\ s.mem \in DOMAIN mt /\ Ids(s.imm) \subseteq DOMAIN mt
          /\ s.mem <= st.mem /\ \A i \in Ids(s.imm) : i < s.mem
      <4>1. d \in Client
        BY SetsAfter
      <4> QED BY <4>1 DEF Clones
    <3>2. s.mem \in Nat
      BY <3>1 DEF StoreTyped
    <3> QED BY <2>2, <3>1, <3>2
  <2> QED BY <2>1, <2>3, <2>4
<1> QED BY <1>1 DEF Clones, Ids

-----------------------------------------------------------------------------
(* Steps that leave the engine alone.                                      *)

\* A move that leaves memory and directory alone.
QuietMove(t, p, l) ==
    /\ Goto(t, p, l) /\ Lands(t, p, l) /\ UNCHANGED <<engineVars, setting, writes>>
    /\ at[t] # "swap" /\ p \notin {"append", "swap", "flush.install", "apply", "remove"}
    /\ p = "install" => at[t] = "apply" /\ l = Installing(loc[t]) /\ InputsInPlace(st, loc[t].task)
    /\ Recording' => Recording

\* The memtables that are about to become current are those of the threads at that place.
LEMMA ComingOf ==
    ASSUME Control, NEW t \in Thread, NEW p, NEW l, Goto(t, p, l)
    PROVE  /\ at[t] # "swap" /\ p # "swap" => Coming' = Coming
           /\ at[t] # "swap" /\ p = "swap" /\ t \in Client => Coming' = Coming \cup {l.new}
           /\ at[t] = "swap" /\ t \in Client => Coming \subseteq Coming' \cup {loc[t].new}
           /\ p # "swap" => Coming' \subseteq Coming
<1>1. /\ at'[t] = p /\ loc'[t] = l
      /\ \A c \in Client : c # t => at'[c] = at[c] /\ loc'[c] = loc[c]
  BY Moved, ThreadsApart
<1>2. \A i : i \in Coming <=> \E c \in Client : at[c] = "swap" /\ loc[c].new = i
  BY DEF Coming
<1>3. \A i : i \in Coming' <=> \E c \in Client : at'[c] = "swap" /\ loc'[c].new = i
  BY DEF Coming
<1>4. p # "swap" => Coming' \subseteq Coming
  BY <1>1, <1>2, <1>3
<1>5. at[t] # "swap" => Coming \subseteq Coming'
  BY <1>1, <1>2, <1>3
<1>6. at[t] # "swap" /\ p = "swap" /\ t \in Client => Coming' = Coming \cup {l.new}
  <2>1. ASSUME p = "swap", t \in Client, at[t] # "swap"
        PROVE  \A i : i \in Coming' <=> i \in Coming \/ i = l.new
    BY <1>1, <1>2, <1>3, <2>1
  <2> QED BY <2>1
<1>7. at[t] = "swap" /\ t \in Client => Coming \subseteq Coming' \cup {loc[t].new}
  BY <1>1, <1>2, <1>3
<1> QED BY <1>4, <1>5, <1>6, <1>7

\* Such a step keeps the store as it is.
LEMMA QuietKeeps ==
    ASSUME Control, Store, NEW t \in Thread, NEW p, NEW l, QuietMove(t, p, l)
    PROVE  Store'
<1>1. /\ Goto(t, p, l) /\ Lands(t, p, l)
      /\ st' = st /\ mt' = mt /\ wal' = wal /\ sst' = sst /\ files' = files /\ manifest' = manifest
      /\ nextId' = nextId /\ setting' = setting /\ writes' = writes
      /\ at[t] # "swap" /\ p \notin {"append", "swap", "flush.install", "apply", "remove"}
      /\ p = "install" => at[t] = "apply" /\ l = Installing(loc[t]) /\ InputsInPlace(st, loc[t].task)
      /\ Recording' => Recording
  BY DEF QuietMove, engineVars, diskVars
<1>2. /\ at'[t] = p /\ \A u \in Thread : u # t => at'[u] = at[u] /\ loc'[u] = loc[u]
  BY <1>1, SetsAfter
<1>3. /\ StoreTyped /\ Memtables /\ TablesApart /\ TablesHeld /\ Jobs /\ TasksFit /\ InputsLast
      /\ Clones /\ LogsKept /\ Replays
  BY DEF Store
<1>4. Client \subseteq Thread
  BY ThreadsApart
<1>5. Held' \subseteq Held
  <2>1. TableIds(st)' \subseteq Held \cup {}
    BY <1>1, HeldHas DEF TableIds, Ids
  <2>2. p \in {"apply", "install"} => Ids(l.ids) \subseteq Held \cup {}
    <3>1. ASSUME p = "install" PROVE Ids(l.ids) \subseteq Held
      <4>1. l.ids = loc[t].ids /\ t \in Builders
        BY <1>1, <3>1 DEF Installing, Builders
      <4> QED BY <4>1, HeldHas DEF Outputs
    <3> QED BY <1>1, <3>1
  <2>3. Held' \subseteq Held \cup {}
    BY <1>1, <2>1, <2>2, HeldAfter
  <2> QED BY <2>3
<1>6. StoreTyped'
  BY <1>1, <1>2, <1>3, <1>4 DEF StoreTyped, Entry
<1>7. Memtables'
  BY <1>1, <1>2, <1>3, <1>4, <1>5 DEF Memtables, MemIds, Ids
<1>8. TablesApart'
  <2>1. st' = st /\ TablesApart
    BY <1>1, <1>3
  <2> QED BY <2>1 DEF TablesApart
<1>9. TablesHeld'
  BY <1>1, <1>3, <1>5 DEF TablesHeld, MemIds, TableIds, Ids
<1>10. Jobs'
  <2>1. StoreGrows(t, {})
    <3>1. TableIds(st') \subseteq TableIds(st) \cup {} /\ {} \cap Held = {}
      BY <1>1
    <3>2. \A u \in Builders : Outputs(u) \subseteq files'
      BY <1>1, <1>3 DEF Jobs
    <3>3. \A u \in Thread : at[u] = "flush.install" => loc[u].id \in DOMAIN sst \cap files
      BY <1>3 DEF Jobs
    <3> QED BY <1>1, <3>1, <3>2, <3>3 DEF StoreGrows
  <2> QED BY <1>1, <1>3, <2>1, JobsKept
<1>11. TasksFit' /\ InputsLast'
  BY <1>1, <1>3, TasksKept, InputsKept
<1>12. Clones'
  <2>1. st'.mem \in Nat /\ st.mem <= st'.mem
    BY <1>1, <1>3 DEF StoreTyped, State
  <2> QED BY <1>1, <1>3, <2>1, ClonesKept
<1>13. LogsKept'
  BY <1>1, <1>2, <1>3, <1>4 DEF LogsKept, MemIds, Ids
<1>14. Replays'
  <2>1. Coming' = Coming
    BY <1>1, ComingOf
  <2>2. Replay' = Replay /\ NoFull' = NoFull
    BY <1>1 DEF Replay, ReplayOf, Replayed, EmptyLevels, InputsInPlace, Applied, Without, Ids, NoFull
  <2>3. TableIds(st)' = TableIds(st) /\ MemIds' = MemIds /\ Ids(st.imm)' = Ids(st.imm)
    BY <1>1 DEF TableIds, MemIds, Ids
  <2> HIDE DEF Replay
  <2> QED BY <1>1, <1>3, <2>1, <2>2, <2>3 DEF Replays, ManifestRecord
<1> QED BY <1>6, <1>7, <1>8, <1>9, <1>10, <1>11, <1>12, <1>13, <1>14 DEF Store

\* A step to a place without a task, a clone or a new table.
LEMMA PlainQuiet ==
    ASSUME Control, NEW t \in Thread, NEW p, NEW l, Goto(t, p, l),
           UNCHANGED <<engineVars, setting, writes>>, at[t] # "swap",
           p \notin Working \cup ClonePlaces \cup {"append", "swap", "flush.install"},
           \/ Recording
           \/ /\ mode' = "open" => mode = "open"
              /\ p \notin {"close.join_compactor", "close.join_flusher", "close.memtable"}
    PROVE  QuietMove(t, p, l)
<1>1. Lands(t, p, l)
  BY DEF Lands
<1>2. Recording' => Recording
  <2>1. at'[t] = p /\ \A c \in Client : c # t => at'[c] = at[c]
    BY Moved, ThreadsApart
  <2> QED BY <2>1 DEF Recording
<1> QED BY <1>1, <1>2 DEF QuietMove, Working

\* try_freeze that finds a small memtable keeps Store.
LEMMA TryFreezeQuiet ==
    ASSUME Control, Store, NEW c \in Client, TryFreeze(c), ~(mt[st.mem].size >= setting.limit)
    PROVE  Store'
<1>1. /\ at[c] = "freeze" /\ UNCHANGED <<engineVars, setting, writes>> /\ mode' = mode
      /\ Goto(c, "idle", NoOp) \/ Goto(c, "insert", loc[c])
  BY DEF TryFreeze, AfterRecord, engineVars, diskVars, historyVars, controlVars
<1>2. c \in Thread
  BY ThreadsApart
<1>3. QuietMove(c, "idle", NoOp) \/ QuietMove(c, "insert", loc[c])
  BY <1>1, <1>2, PlainQuiet DEF Working, ClonePlaces
<1> QED BY <1>2, <1>3, QuietKeeps

\* So do the steps of force_flush and of flushing that change no table.
LEMMA FlushQuiet ==
    ASSUME Control, Store, NEW t \in Thread,
           \/ t \in Client /\ ForceFlush(t)
           \/ ForceCheck(t)
           \/ t = Flusher /\ FlushTick
           \/ FlushBuild(t) /\ (st.imm = <<>> \/ IsEmptyTable(mt[Last(st.imm)].data))
           \/ FlushInstall(t) /\ Last(st.imm) # loc[t].id
    PROVE  Store'
<1>1. /\ at[t] \in {"idle", "ff.check", "flush", "flush.install"}
      /\ UNCHANGED <<engineVars, setting, writes>> /\ mode' = mode
  BY DEF ForceFlush, ForceCheck, FlushTick, FlushBuild, FlushInstall, Idle, engineVars, diskVars,
      historyVars, controlVars
<1>2. \E p \in {"idle", "ff.check", "ff.lock", "flush", "panicked"} : \E l : Goto(t, p, l)
  <2>1. CASE t \in Client /\ ForceFlush(t)
    BY <2>1 DEF ForceFlush
  <2>2. CASE ForceCheck(t)
    BY <2>2 DEF ForceCheck
  <2>3. CASE t = Flusher /\ FlushTick
    BY <2>3 DEF FlushTick
  <2>4. CASE FlushBuild(t) /\ (st.imm = <<>> \/ IsEmptyTable(mt[Last(st.imm)].data))
    BY <2>4 DEF FlushBuild, Panic
  <2>5. CASE FlushInstall(t) /\ Last(st.imm) # loc[t].id
    BY <2>5 DEF FlushInstall, Panic
  <2> QED BY <2>1, <2>2, <2>3, <2>4, <2>5
<1>3. PICK p \in {"idle", "ff.check", "ff.lock", "flush", "panicked"} : \E l : Goto(t, p, l)
  BY <1>2
<1>4. PICK l : Goto(t, p, l)
  BY <1>3
<1>5. QuietMove(t, p, l)
  BY <1>1, <1>4, PlainQuiet DEF Working, ClonePlaces
<1> QED BY <1>5, QuietKeeps

\* So does making a task.
LEMMA CompactQuiet ==
    ASSUME Control, Store, NEW t \in Thread,
           \/ t = Compactor /\ CompactTick
           \/ t \in Client /\ FullCompaction(t)
    PROVE  Store'
<1> DEFINE task == IF setting.simple THEN SimpleTask(st) ELSE FullTask(st)
           l == [op |-> "compact", task |-> task]
<1>1. /\ at[t] = "idle" /\ Goto(t, "merge", l)
      /\ UNCHANGED <<engineVars, setting, writes>> /\ mode' = mode
      /\ setting.simple => task # NoTask
  BY DEF CompactTick, FullCompaction, Idle, historyVars, controlVars
<1>2. TaskMade(task)
  <2>1. /\ task.us = IF task.upper = 0 THEN st.l0 ELSE st.levels[task.upper]
        /\ task.lower = task.upper + 1 /\ task.lower \in 1..Len(st.levels)
        /\ task.bottom => task.lower = Len(st.levels)
        /\ Ids(Inputs(task)) \subseteq TableIds(st)
    <3>1. \/ task = FullTask(st) /\ ~setting.simple
          \/ task = SimpleTask(st) /\ task # NoTask /\ setting.simple
      BY <1>1
    <3>2. StoreTyped
      BY DEF Store
    <3> HIDE DEF task
    <3> QED BY <3>1, <3>2, TasksAre
  <2> HIDE DEF task
  <2>2. task.lower <= Len(st.levels)
    BY <2>1
  <2> QED BY <2>1, <2>2 DEF TaskMade
<1>3. l.task = task
  OBVIOUS
<1> HIDE DEF task, l
<1>4. Lands(t, "merge", l)
  BY <1>2, <1>3 DEF Lands, ClonePlaces
<1>5. Recording' => Recording
  <2>1. at'[t] = "merge" /\ \A c \in Client : c # t => at'[c] = at[c]
    BY <1>1, Moved, ThreadsApart
  <2> QED BY <1>1, <2>1 DEF Recording
<1>6. QuietMove(t, "merge", l)
  BY <1>1, <1>4, <1>5 DEF QuietMove
<1> QED BY <1>6, QuietKeeps

\* So does applying it to a clone.
LEMMA ApplyQuiet ==
    ASSUME Control, Store, NEW t \in Thread, Apply(t)
    PROVE  Store'
<1>1. /\ at[t] = "apply" /\ UNCHANGED <<engineVars, setting, writes>> /\ mode' = mode
      /\ \/ \E l : Goto(t, "panicked", l)
         \/ InputsInPlace(st, loc[t].task) /\ Goto(t, "install", Installing(loc[t]))
  BY DEF Apply, Panic, historyVars, controlVars
<1>2. ASSUME NEW l, Goto(t, "panicked", l) PROVE Store'
  <2>1. QuietMove(t, "panicked", l)
    BY <1>1, <1>2, PlainQuiet DEF Working, ClonePlaces
  <2> QED BY <2>1, QuietKeeps
<1>3. CASE InputsInPlace(st, loc[t].task) /\ Goto(t, "install", Installing(loc[t]))
  <2> DEFINE l == Installing(loc[t])
  <2>1. l.task = loc[t].task
    BY DEF Installing
  <2> HIDE DEF l
  <2>2. Lands(t, "install", l)
    BY <1>1, <2>1 DEF Lands, ClonePlaces, Working, Compacting
  <2>3. Goto(t, "install", l)
    BY <1>3 DEF l
  <2>4. Recording' => Recording
    <3>1. at'[t] = "install" /\ \A c \in Client : c # t => at'[c] = at[c]
      BY <2>3, Moved, ThreadsApart
    <3> QED BY <1>1, <3>1 DEF Recording
  <2>5. QuietMove(t, "install", l)
    BY <1>1, <1>3, <2>2, <2>3, <2>4 DEF QuietMove, l
  <2> QED BY <2>5, QuietKeeps
<1> QED BY <1>1, <1>2, <1>3

\* So do the steps of get and scan.
LEMMA ReadQuiet ==
    ASSUME Control, Store, NEW c \in Client,
           \/ Get(c) \/ GetMemtable(c) \/ GetOld(c) \/ ReadReturns(c)
           \/ Scan(c) \/ ScanOpen(c) \/ ScanNext(c) \/ ScanEnd(c)
    PROVE  Store'
<1>1. /\ at[c] \in {"idle", "got", "scanned"} \cup ClonePlaces
      /\ UNCHANGED <<engineVars, setting, writes>> /\ mode' = mode
  BY DEF Get, GetMemtable, GetOld, ReadReturns, Scan, ScanOpen, ScanNext, ScanEnd, Idle,
     ClonePlaces, historyVars, controlVars
<1>2. c \in Thread
  BY ThreadsApart
<1>3. \E p, l : /\ Goto(c, p, l) /\ p \in {"idle", "got", "scanned"} \cup ClonePlaces
                /\ p \in ClonePlaces => l.snap = st \/ (at[c] \in ClonePlaces /\ l.snap = loc[c].snap)
  <2>1. CASE Get(c)
    <3>1. PICK k \in setting.keys : Goto(c, "get.mem", [op |-> "get", k |-> k, snap |-> st])
      BY <2>1 DEF Get
    <3>2. [op |-> "get", k |-> k, snap |-> st].snap = st
      OBVIOUS
    <3> QED BY <3>1, <3>2 DEF ClonePlaces
  <2>2. CASE Scan(c)
    <3>1. PICK r \in Ranges :
             Goto(c, "scan.open", [op |-> "scan", snap |-> st, lo |-> r[1], hi |-> r[2]])
      BY <2>2 DEF Scan
    <3>2. [op |-> "scan", snap |-> st, lo |-> r[1], hi |-> r[2]].snap = st
      OBVIOUS
    <3> QED BY <3>1, <3>2 DEF ClonePlaces
  <2>3. CASE GetMemtable(c)
    <3>1. at[c] = "get.mem" /\ (Goto(c, "get.old", loc[c]) \/ \E l : Goto(c, "got", l))
      BY <2>3 DEF GetMemtable
    <3> QED BY <3>1 DEF ClonePlaces
  <2>4. CASE GetOld(c) \/ ReadReturns(c) \/ ScanEnd(c)
    <3>1. \E l : Goto(c, "got", l) \/ Goto(c, "idle", l) \/ Goto(c, "scanned", l)
      BY <2>4 DEF GetOld, ReadReturns, ScanEnd
    <3> QED BY <3>1 DEF ClonePlaces
  <2>5. CASE ScanOpen(c)
    <3>1. PICK i, h, b, n : Goto(c, "scan.next", [op |-> "scan", snap |-> loc[c].snap, lo |-> loc[c].lo,
                                hi |-> loc[c].hi, item |-> i, head |-> h,
                                valid |-> b, out |-> n])
      BY <2>5 DEF ScanOpen
    <3> DEFINE l == [op |-> "scan", snap |-> loc[c].snap, lo |-> loc[c].lo,
                     hi |-> loc[c].hi, item |-> i, head |-> h, valid |-> b, out |-> n]
    <3>2. l.snap = loc[c].snap /\ at[c] = "scan.open" /\ Goto(c, "scan.next", l)
      BY <2>5, <3>1 DEF ScanOpen
    <3> HIDE DEF l
    <3> QED BY <3>2 DEF ClonePlaces
  <2>6. CASE ScanNext(c)
    <3>1. PICK o, i, h, b : /\ at[c] = "scan.next"
                            /\ Goto(c, "scan.next", [loc[c] EXCEPT !.out = o, !.item = i, !.head = h, !.valid = b])
      BY <2>6 DEF ScanNext
    <3> DEFINE l == [loc[c] EXCEPT !.out = o, !.item = i, !.head = h, !.valid = b]
    <3>2. loc[c] \in [op : {"scan"}, snap : State, lo : Bound, hi : Bound, item : Item,
                      head : Item, valid : BOOLEAN, out : Table]
      BY <1>2, <3>1, LocalsOf
    <3>3. l.snap = loc[c].snap /\ Goto(c, "scan.next", l)
      BY <3>1, <3>2
    <3> HIDE DEF l
    <3> QED BY <3>1, <3>3 DEF ClonePlaces
  <2> QED BY <2>1, <2>2, <2>3, <2>4, <2>5, <2>6
<1>4. PICK p, l : /\ Goto(c, p, l) /\ p \in {"idle", "got", "scanned"} \cup ClonePlaces
                  /\ p \in ClonePlaces => l.snap = st \/ (at[c] \in ClonePlaces /\ l.snap = loc[c].snap)
  BY <1>3
<1>5. Lands(c, p, l)
  BY <1>4 DEF Lands, Readers, ClonePlaces, Working
<1>6. Recording' => Recording
  <2>1. at'[c] = p /\ \A d \in Client : d # c => at'[d] = at[d]
    BY <1>2, <1>4, Moved, ThreadsApart
  <2> QED BY <1>1, <1>4, <2>1 DEF Recording, ClonePlaces
<1>7. QuietMove(c, p, l)
  BY <1>1, <1>4, <1>5, <1>6 DEF QuietMove, ClonePlaces
<1> QED BY <1>2, <1>7, QuietKeeps

\* So do the steps of close that leave the memtable alone.
LEMMA CloseQuiet ==
    ASSUME Control, Store, NEW t \in Thread,
           \/ t \in Client /\ (Close(t) \/ CloseJoin(t) \/ CloseDrain(t) \/ CloseEnd(t))
           \/ t \in Client /\ CloseMemtable(t) /\ (setting.wal \/ IsEmptyTable(mt[st.mem].data))
           \/ StopThread(t)
    PROVE  Store'
<1>1. /\ at[t] \in {"idle"} \cup ClosePlaces /\ UNCHANGED <<engineVars, setting, writes>>
  BY DEF Close, CloseJoin, CloseDrain, CloseEnd, CloseMemtable, StopThread, Idle, engineVars, diskVars,
      historyVars, ClosePlaces
<1>2. \E p, l : /\ Goto(t, p, l)
                /\ p \in {"close.join_compactor", "close.join_flusher", "close.memtable", "close.synced",
                          "close.drain", "flush", "idle", "stopped"}
                /\ \/ mode = "open" \/ (t \in Client /\ at[t] \in {"close.join_compactor", "close.join_flusher"})
                   \/ /\ p \in {"close.synced", "close.drain", "flush", "idle", "stopped"}
                      /\ mode' = mode \/ mode' = "closed"
  <2>1. CASE t \in Client /\ (Close(t) \/ CloseDrain(t))
    BY <2>1 DEF Close, CloseDrain, controlVars
  <2>2. CASE t \in Client /\ CloseJoin(t)
    BY <2>2 DEF CloseJoin, CloseGives
  <2>3. CASE t \in Client /\ CloseEnd(t)
    BY <2>3 DEF CloseEnd, CloseGives
  <2>4. CASE t \in Client /\ CloseMemtable(t) /\ (setting.wal \/ IsEmptyTable(mt[st.mem].data))
    BY <2>4 DEF CloseMemtable, controlVars
  <2>5. CASE StopThread(t)
    BY <2>5 DEF StopThread, controlVars
  <2> QED BY <2>1, <2>2, <2>3, <2>4, <2>5
<1>3. PICK p, l : /\ Goto(t, p, l)
                /\ p \in {"close.join_compactor", "close.join_flusher", "close.memtable", "close.synced",
                          "close.drain", "flush", "idle", "stopped"}
                /\ \/ mode = "open" \/ (t \in Client /\ at[t] \in {"close.join_compactor", "close.join_flusher"})
                   \/ /\ p \in {"close.synced", "close.drain", "flush", "idle", "stopped"}
                      /\ mode' = mode \/ mode' = "closed"
  BY <1>2
<1>4. \/ Recording
      \/ /\ mode' = "open" => mode = "open"
         /\ p \notin {"close.join_compactor", "close.join_flusher", "close.memtable"}
  BY <1>3 DEF Recording
<1>5. at[t] # "swap" /\ p \notin Working \cup ClonePlaces \cup {"append", "swap", "flush.install"}
  BY <1>1, <1>3 DEF ClosePlaces, Working, ClonePlaces
<1>6. QuietMove(t, p, l)
  BY <1>1, <1>3, <1>4, <1>5, PlainQuiet
<1> QED BY <1>6, QuietKeeps

\* A step that changes neither the engine nor a thread.
LEMMA StillKeeps ==
    ASSUME Store, UNCHANGED <<engineVars, at, loc, setting, writes>>, Recording' => Recording
    PROVE  Store'
<1>1. /\ st' = st /\ mt' = mt /\ wal' = wal /\ sst' = sst /\ files' = files /\ manifest' = manifest
      /\ nextId' = nextId /\ setting' = setting /\ writes' = writes /\ at' = at /\ loc' = loc
  BY DEF engineVars, diskVars
<1>2. /\ StoreTyped /\ Memtables /\ TablesApart /\ TablesHeld /\ Jobs /\ TasksFit /\ InputsLast
      /\ Clones /\ LogsKept /\ Replays
  BY DEF Store
<1>3. /\ Compacting' = Compacting /\ Builders' = Builders /\ Readers' = Readers /\ Coming' = Coming
      /\ MemIds' = MemIds /\ Thread' = Thread
  BY <1>1 DEF Compacting, Builders, Readers, Coming, MemIds, Ids
<1>4. \A t : Taken(t)' = Taken(t) /\ Outputs(t)' = Outputs(t)
  BY <1>1 DEF Taken, Outputs
<1>5. \A i : i \in Held' <=> i \in Held
  BY <1>1, <1>3, <1>4, HeldHas, HeldHasNext
<1>6. Held' = Held
  BY <1>5
<1>7. StoreTyped' /\ Memtables'
  BY <1>1, <1>2, <1>3, <1>6 DEF StoreTyped, Memtables, Entry, Ids
<1>8. TablesApart' /\ TablesHeld'
  <2>1. TablesApart'
    BY <1>1, <1>2 DEF TablesApart
  <2>2. TablesHeld'
    BY <1>1, <1>2, <1>3, <1>6 DEF TablesHeld
  <2> QED BY <2>1, <2>2
<1>9. Jobs'
  <2>1. /\ (\A t \in Builders : Outputs(t) \subseteq files /\ Outputs(t) \cap TableIds(st) = {})'
        /\ (\A t \in Builders, u \in Compacting : Outputs(t) \cap Taken(u) = {})'
        /\ (\A t, u \in Builders : t # u => Outputs(t) \cap Outputs(u) = {})'
        /\ (\A t \in Compacting : at[t] = "remove" => Taken(t) \cap TableIds(st) = {})'
    BY <1>1, <1>2, <1>3, <1>4 DEF Jobs
  <2>2. (\A t \in Builders : at[t] = "install" =>
          /\ InputsInPlace(st, loc[t].task)
          /\ loc[t].st = Applied(st, loc[t].task, loc[t].ids))'
    BY <1>1, <1>2, <1>3 DEF Jobs
  <2>3. (\A t \in Thread : at[t] = "flush.install" =>
          /\ st.imm # <<>> /\ loc[t].id = Last(st.imm)
          /\ loc[t].id \in DOMAIN sst \cap files
          /\ sst[loc[t].id] = mt[loc[t].id].data)'
    BY <1>1, <1>2 DEF Jobs
  <2> QED BY <2>1, <2>2, <2>3 DEF Jobs
<1>10. TasksFit' /\ Clones' /\ LogsKept'
  BY <1>1, <1>2, <1>3 DEF TasksFit, Clones, LogsKept
<1>11. InputsLast'
  BY <1>1, <1>2 DEF InputsLast
<1>12. Replays'
  <2>2. Replay' = Replay /\ NoFull' = NoFull
    BY <1>1 DEF Replay, ReplayOf, Replayed, EmptyLevels, InputsInPlace, Applied, Without, Ids, NoFull
  <2>3. TableIds(st)' = TableIds(st) /\ Ids(st.imm)' = Ids(st.imm)
    BY <1>1 DEF TableIds, Ids
  <2> HIDE DEF Replay
  <2> QED BY <1>1, <1>2, <1>3, <2>2, <2>3 DEF Replays, ManifestRecord
<1> QED BY <1>7, <1>8, <1>9, <1>10, <1>11, <1>12 DEF Store

\* So does an open that gives up.
LEMMA OpenQuiet ==
    ASSUME Control, Store, NEW c \in Client, Open(c), ~Opened.ok
    PROVE  Store'
<1>1. UNCHANGED <<engineVars, at, loc, setting, writes>> /\ mode' = "failed" /\ mode = "closed"
  BY DEF Open, Stopped, threadVars, historyVars
<1>2. Recording' => Recording
  BY <1>1 DEF Recording
<1> QED BY <1>1, <1>2, StillKeeps

-----------------------------------------------------------------------------
(* Steps that change memtables, logs or files.                             *)

\* The tables of the state stay, and so does what others refer to.
TablesStay(t, p, l) ==
    /\ Goto(t, p, l) /\ Lands(t, p, l)
    /\ st' \in State /\ st'.l0 = st.l0 /\ st'.levels = st.levels /\ st.mem <= st'.mem
    /\ StoreGrows(t, {}) /\ Held \subseteq DOMAIN sst' /\ TableIds(st) \subseteq files'
    /\ Held \cap MemIds' = {} /\ DOMAIN mt \subseteq DOMAIN mt'
    /\ nextId' \in Nat /\ nextId <= nextId'
    /\ p \notin {"apply", "install", "remove"}
    /\ p = "flush.install" => FlushReady(l.id)

\* What such a step keeps of the tables.
LEMMA TablesStill ==
    ASSUME Control, Store, NEW t \in Thread, NEW p, NEW l, TablesStay(t, p, l)
    PROVE  Held' \subseteq Held /\ TablesApart' /\ TablesHeld' /\ Jobs' /\ TasksFit' /\ InputsLast' /\ Clones'
<1>1. /\ Goto(t, p, l) /\ Lands(t, p, l)
      /\ st' \in State /\ st'.l0 = st.l0 /\ st'.levels = st.levels /\ st.mem <= st'.mem
      /\ StoreGrows(t, {}) /\ Held \subseteq DOMAIN sst' /\ TableIds(st) \subseteq files'
      /\ Held \cap MemIds' = {} /\ DOMAIN mt \subseteq DOMAIN mt'
      /\ nextId' \in Nat /\ nextId <= nextId'
      /\ p \notin {"apply", "install", "remove"}
      /\ p = "flush.install" => FlushReady(l.id)
  BY DEF TablesStay
<1>2. /\ StoreTyped /\ Memtables /\ TablesApart /\ TablesHeld /\ Jobs /\ TasksFit /\ InputsLast
      /\ Clones
  BY DEF Store
<1>3. TableIds(st') = TableIds(st)
  BY <1>1 DEF TableIds, Ids
<1>4. Held' \subseteq Held
  <2>1. TableIds(st)' \subseteq Held \cup {}
    BY <1>3, HeldHas DEF TableIds, Ids
  <2>2. p \in {"apply", "install"} => Ids(l.ids) \subseteq Held \cup {}
    BY <1>1
  <2>3. Held' \subseteq Held \cup {}
    BY <1>1, <2>1, <2>2, HeldAfter
  <2> QED BY <2>3
<1>5. TablesApart'
  <2>1. Apart(st)
    BY <1>2 DEF TablesApart
  <2>2. Apart(st')
    BY <1>1, <2>1 DEF Apart
  <2> QED BY <2>2 DEF TablesApart, Apart, Distinct, Ids
<1>6. TablesHeld'
  <2>1. Held \subseteq 0..(nextId' - 1)
    <3>1. nextId \in Nat /\ Held \subseteq 0..(nextId - 1)
      BY <1>2 DEF StoreTyped, TablesHeld
    <3> QED BY <1>1, <3>1
  <2> QED BY <1>1, <1>3, <1>4, <2>1 DEF TablesHeld
<1>7. Jobs'
  BY <1>1, <1>2, JobsKept
<1>8. TasksFit' /\ InputsLast'
  <2>1. Len(st'.levels) = Len(st.levels)
    BY <1>1
  <2> QED BY <1>1, <1>2, <2>1, TasksKept, InputsKept
<1>9. Clones'
  <2>1. Len(st'.levels) = Len(st.levels) /\ st'.mem \in Nat
    BY <1>1 DEF State
  <2> QED BY <1>1, <1>2, <2>1, ClonesKept
<1> QED BY <1>4, <1>5, <1>6, <1>7, <1>8, <1>9

\* Replaying a manifest that stays finds what it found.
LEMMA ReplaySame ==
    ASSUME manifest' = manifest, setting' = setting
    PROVE  Replay' = Replay /\ NoFull' = NoFull
BY DEF Replay, ReplayOf, Replayed, EmptyLevels, InputsInPlace, Applied, Without, Ids, NoFull

\* The logs follow the records of the manifest, which stays as it is.
LEMMA ReplaysStill ==
    ASSUME Replays, UNCHANGED <<manifest, setting, st>>, nextId \in Nat, nextId' \in Nat, nextId <= nextId',
           Recording' => Recording,
           setting.wal /\ DOMAIN wal = Replay.mems \cup Coming => DOMAIN wal' = Replay.mems \cup Coming',
           \A i \in DOMAIN wal \ MemIds : wal'[i] = wal[i]
    PROVE  Replays'
<1>1. Replay' = Replay /\ NoFull' = NoFull
  <2>1. manifest' = manifest /\ setting' = setting
    OBVIOUS
  <2> QED BY <2>1, ReplaySame
<1>2. TableIds(st)' = TableIds(st) /\ MemIds' = MemIds /\ Ids(st.imm)' = Ids(st.imm) /\ st' = st
  BY DEF TableIds, MemIds, Ids
<1>3. (0..nextId) \subseteq 0..nextId'
  OBVIOUS
<1> HIDE DEF Replay
<1>4. CASE NoFull
  <2>1. /\ Replay.ok
        /\ Replay.s = [mem |-> 0, imm |-> <<>>, l0 |-> st.l0, levels |-> st.levels]
        /\ Replay.mems \subseteq Replay.ids
        /\ Ids(st.imm) \subseteq Replay.mems
        /\ TableIds(st) \subseteq Replay.ids
        /\ 1 \in Replay.ids /\ Replay.ids \subseteq 0..nextId
        /\ setting.wal =>
                  /\ st.mem \in Replay.mems
                  /\ DOMAIN wal = Replay.mems \cup Coming
                  /\ \A i \in Replay.mems \ MemIds : Recovered(wal[i]) = Nothing
        /\ Recording => st.mem \in Replay.mems
    BY <1>4 DEF Replays
  <2>2. Replay.ids \subseteq 0..nextId'
    BY <1>3, <2>1
  <2>3. setting.wal =>
                  /\ st.mem \in Replay.mems
                  /\ DOMAIN wal' = Replay.mems \cup Coming'
                  /\ \A i \in Replay.mems \ MemIds : Recovered(wal'[i]) = Nothing
    BY <2>1
  <2>4. manifest \in Seq(ManifestRecord)
    BY DEF Replays
  <2> QED BY <1>1, <1>2, <1>4, <2>1, <2>2, <2>3, <2>4 DEF Replays, ManifestRecord
<1>5. CASE ~NoFull
  BY <1>1, <1>5 DEF Replays, ManifestRecord
<1> QED BY <1>4, <1>5

\* What was an entry is one.
LEMMA EntriesGrow ==
    ASSUME writes \in Nat, writes' \in Nat, writes <= writes'
    PROVE  Entry \subseteq Entry'
<1> SUFFICES ASSUME NEW x \in Entry PROVE x \in Entry'
  OBVIOUS
<1>1. x \in Int /\ -writes <= x /\ x <= writes
  BY DEF Entry
<1> DEFINE n == writes'
<1>2. n \in Nat /\ writes <= n
  OBVIOUS
<1> HIDE DEF n
<1>3. x \in -n..n
  BY <1>1, <1>2
<1> QED BY <1>3 DEF n, Entry

\* The thread at a flush's end owns the oldest memtable.
LEMMA FlushOf ==
    ASSUME Control, Store, NEW u \in Thread, at[u] = "flush.install"
    PROVE  /\ st.imm \in Seq(Nat) /\ st.imm # <<>> /\ loc[u].id = Last(st.imm)
           /\ loc[u].id \in Ids(st.imm) /\ loc[u].id \in MemIds /\ loc[u].id < st.mem
           /\ loc[u].id \in Nat /\ st.mem \in Nat
           /\ loc[u].id \in DOMAIN sst /\ loc[u].id \in files /\ loc[u].id \in DOMAIN mt
           /\ sst[loc[u].id] = mt[loc[u].id].data
           /\ loc[u].id \notin Held
<1>1. /\ st.imm # <<>> /\ loc[u].id = Last(st.imm) /\ loc[u].id \in DOMAIN sst \cap files
      /\ sst[loc[u].id] = mt[loc[u].id].data
  BY DEF Store, Jobs
<1>2. st.imm \in Seq(Nat) /\ st.mem \in Nat
  BY DEF Store, StoreTyped, State
<1>3. loc[u].id \in Ids(st.imm) /\ loc[u].id \in Nat
  BY <1>1, <1>2, FrontOf
<1>4. loc[u].id \in MemIds
  BY <1>3 DEF MemIds
<1>5. loc[u].id < st.mem /\ loc[u].id \in DOMAIN mt /\ loc[u].id \notin Held
  BY <1>3, <1>4 DEF Store, Memtables, TablesHeld
<1> QED BY <1>1, <1>2, <1>3, <1>4, <1>5

\* A record enters the memtable.
LEMMA InsertStores ==
    ASSUME Control, Store, NEW c \in Client, NEW b \in Seq(Record), b # <<>>, Insert(c, b),
           at[c] \in {"idle", "insert"}, mode = "open"
    PROVE  Store'
<1> DEFINE l == Inserting(b)
<1>1. /\ Goto(c, "append", l) /\ writes' = writes + 1
      /\ st' = st /\ wal' = wal /\ sst' = sst /\ files' = files /\ manifest' = manifest /\ nextId' = nextId
      /\ mode' = mode /\ setting' = setting
      /\ mt' = [mt EXCEPT ![st.mem].data[b[1].k] = IF b[1].del THEN -(writes + 1) ELSE writes + 1,
                          ![st.mem].size = @ + 1]
  BY DEF Insert, Inserting, diskVars, controlVars
<1>2. /\ StoreTyped /\ Memtables /\ TablesApart /\ TablesHeld /\ Jobs /\ TasksFit /\ InputsLast
      /\ Clones /\ LogsKept /\ Replays
  BY DEF Store
<1>3. l.mem = st.mem /\ l.e = IF b[1].del THEN -(writes + 1) ELSE writes + 1
  BY DEF Inserting
<1> HIDE DEF l
<1>4. c \in Thread /\ at[c] # "swap"
  BY ThreadsApart
<1>5. writes \in Nat
  BY DEF Control, Typed
<1>6. b[1].k \in Key /\ b[1].del \in BOOLEAN
  <2>1. b[1] \in Record
    OBVIOUS
  <2> QED BY <2>1 DEF Record
<1> DEFINE e == IF b[1].del THEN -(writes + 1) ELSE writes + 1
           m == [data |-> [mt[st.mem].data EXCEPT ![b[1].k] = e], size |-> mt[st.mem].size + 1]
<1>7. e \in Entry' /\ e \in Int
  BY <1>1, <1>5 DEF Entry
<1>8. st.mem \in DOMAIN mt /\ mt[st.mem] \in Memtable
  BY <1>2 DEF Memtables, MemIds, StoreTyped
<1>9. /\ DOMAIN mt' = DOMAIN mt /\ mt'[st.mem] = m
      /\ \A i \in DOMAIN mt : i # st.mem => mt'[i] = mt[i]
      /\ mt' = [i \in DOMAIN mt |-> IF i = st.mem THEN m ELSE mt[i]]
  <2>1. DOMAIN mt[st.mem] = {"data", "size"}
    BY <1>8 DEF Memtable
  <2>2. mt = [i \in DOMAIN mt |-> mt[i]]
    BY <1>2 DEF StoreTyped
  <2>3. mt[st.mem] = [data |-> mt[st.mem].data, size |-> mt[st.mem].size]
    BY <1>8 DEF Memtable
  <2> DEFINE q == mt[st.mem]
  <2>4. mt' = [mt EXCEPT ![st.mem] = [[q EXCEPT !.data[b[1].k] = e] EXCEPT !.size = q.size + 1]]
    BY <1>1, <2>2, <1>8
  <2>5. [[q EXCEPT !.data[b[1].k] = e] EXCEPT !.size = q.size + 1] = m
    <3>1. q \in [data : Table, size : Nat] /\ m = [data |-> [q.data EXCEPT ![b[1].k] = e], size |-> q.size + 1]
      BY <1>8 DEF Memtable
    <3> HIDE DEF q, m, e
    <3> DEFINE y == [q.data EXCEPT ![b[1].k] = e]
               n == q.size + 1
               r == [[q EXCEPT !.data = y] EXCEPT !.size = n]
    <3>2. [q EXCEPT !.data[b[1].k] = e] = [q EXCEPT !.data = y]
      BY <3>1
    <3>3. y \in Table
      BY <1>6, <1>7, <3>1 DEF Table
    <3>4. r \in [data : Table, size : Nat] /\ r.data = y /\ r.size = n
      <4>1. n \in Nat
        BY <3>1
      <4> HIDE DEF y, n
      <4> QED BY <3>1, <3>3, <4>1
    <3>5. r = [data |-> r.data, size |-> r.size]
      <4> HIDE DEF r
      <4> QED BY <3>4
    <3>6. r = m
      <4> HIDE DEF r
      <4> QED BY <3>1, <3>4, <3>5
    <3> QED BY <3>2, <3>6
  <2> QED BY <1>8, <2>2, <2>4, <2>5
<1>10. m \in Memtable
  BY <1>6, <1>7, <1>8 DEF Memtable, Table
<1>11. Entry \subseteq Entry'
  BY <1>1, <1>5, EntriesGrow
<1>12. \A k \in Key : m.data[k] \in Entry'
  <2>1. \A k \in Key : mt[st.mem].data[k] \in Entry
    BY <1>2, <1>8 DEF StoreTyped
  <2>2. DOMAIN mt[st.mem].data = Key
    BY <1>8 DEF Memtable, Table
  <2>3. \A k \in Key : m.data[k] = IF k = b[1].k THEN e ELSE mt[st.mem].data[k]
    BY <1>6, <2>2
  <2> HIDE DEF e
  <2> QED BY <1>7, <1>11, <2>1, <2>3
<1> HIDE DEF m, e
<1>13. /\ at'[c] = "append" /\ loc'[c] = l
       /\ \A d \in Client : d # c => at'[d] = at[d] /\ loc'[d] = loc[d]
  BY <1>1, <1>4, Moved, ThreadsApart
<1>14. StoreTyped'
  <2>1. mt' \in [DOMAIN mt' -> Memtable]
    BY <1>2, <1>9, <1>10 DEF StoreTyped
  <2>2. (\A i \in DOMAIN mt, k \in Key : mt[i].data[k] \in Entry)'
    <3>1. ASSUME NEW i \in DOMAIN mt, NEW k \in Key PROVE mt'[i].data[k] \in Entry'
      <4>1. CASE i = st.mem
        BY <1>9, <1>12, <4>1
      <4>2. CASE i # st.mem
        <5>1. mt[i].data[k] \in Entry
          BY <1>2 DEF StoreTyped
        <5> QED BY <1>9, <1>11, <4>2, <5>1
      <4> QED BY <4>1, <4>2
    <3> QED BY <1>9, <3>1
  <2>3. (\A i \in DOMAIN sst, k \in Key : sst[i][k] \in Entry)'
    <3>1. ASSUME NEW i \in DOMAIN sst, NEW k \in Key PROVE sst[i][k] \in Entry'
      BY <1>2, <1>11 DEF StoreTyped
    <3> QED BY <1>1, <3>1
  <2>4. (\A i \in DOMAIN wal : \A n \in DOMAIN wal[i] : wal[i][n].e \in Entry)'
    <3>1. ASSUME NEW i \in DOMAIN wal, NEW n \in DOMAIN wal[i] PROVE wal[i][n].e \in Entry'
      BY <1>2, <1>11 DEF StoreTyped
    <3> QED BY <1>1, <3>1
  <2>5. (\A d \in Client : at[d] = "append" => loc[d].e \in Entry)'
    <3>1. ASSUME NEW d \in Client, at'[d] = "append" PROVE loc'[d].e \in Entry'
      <4>1. CASE d = c
        BY <1>3, <1>7, <1>13, <4>1 DEF e
      <4>2. CASE d # c
        <5>1. loc[d].e \in Entry
          BY <1>2, <1>13, <3>1, <4>2 DEF StoreTyped
        <5> QED BY <1>11, <1>13, <4>2, <5>1
      <4> QED BY <4>1, <4>2
    <3> QED BY <3>1
  <2>6. /\ (st \in State)' /\ (Len(st.levels) = IF setting.simple THEN MaxLevels ELSE 1)'
        /\ (nextId \in Nat)' /\ (DOMAIN mt \subseteq 0..(nextId - 1))' /\ (sst \in [DOMAIN sst -> Table])'
        /\ (wal \in [DOMAIN wal -> Seq([k : Key, e : Int])])' /\ (DOMAIN wal \subseteq 0..(nextId - 1))'
    BY <1>1, <1>2, <1>9 DEF StoreTyped
  <2> QED BY <2>1, <2>2, <2>3, <2>4, <2>5, <2>6 DEF StoreTyped
<1>15. MemIds' = MemIds
  BY <1>1 DEF MemIds, Ids
<1>16. TablesStay(c, "append", l)
  <2>1. Lands(c, "append", l)
    BY DEF Lands, Working, ClonePlaces
  <2>2. StoreGrows(c, {})
    <3>1. TableIds(st') \subseteq TableIds(st) \cup {} /\ {} \cap Held = {}
      BY <1>1
    <3>2. \A u \in Builders : Outputs(u) \subseteq files'
      BY <1>1, <1>2 DEF Jobs
    <3>3. \A u \in Thread : at[u] = "flush.install" =>
             /\ loc[u].id \in DOMAIN sst \cap files /\ mt'[loc[u].id].data = mt[loc[u].id].data
      <4>1. ASSUME NEW u \in Thread, at[u] = "flush.install"
            PROVE  loc[u].id \in DOMAIN sst \cap files /\ mt'[loc[u].id].data = mt[loc[u].id].data
        <5>1. /\ loc[u].id \in DOMAIN sst /\ loc[u].id \in files /\ loc[u].id \in DOMAIN mt
              /\ loc[u].id < st.mem /\ loc[u].id \in Nat /\ st.mem \in Nat
          BY <4>1, FlushOf
        <5> QED BY <1>9, <5>1
      <4> QED BY <4>1
    <3> QED BY <1>1, <3>1, <3>2, <3>3 DEF StoreGrows
  <2>3. st \in State /\ st.mem <= st.mem /\ nextId \in Nat
    BY <1>2 DEF StoreTyped, State
  <2>4. Held \subseteq DOMAIN sst /\ TableIds(st) \subseteq files /\ Held \cap MemIds = {}
    BY <1>2 DEF TablesHeld
  <2> QED BY <1>1, <1>9, <1>15, <2>1, <2>2, <2>3, <2>4 DEF TablesStay
<1>17. Held' \subseteq Held /\ TablesApart' /\ TablesHeld' /\ Jobs' /\ TasksFit' /\ InputsLast' /\ Clones'
  BY <1>4, <1>16, TablesStill
<1>18. Memtables'
  <2>1. \A p, q \in DOMAIN st.imm : p < q => st.imm[p] > st.imm[q]
    BY <1>2 DEF Memtables
  <2>2. (\A d \in Client : at[d] = "append" => loc[d].mem = st.mem)'
    BY <1>1, <1>2, <1>3, <1>13 DEF Memtables
  <2>3. ASSUME NEW d \in Client, at'[d] = "swap"
        PROVE  /\ loc'[d].new \in DOMAIN mt' /\ mt'[loc'[d].new] = EmptyMemtable
               /\ loc'[d].new > st'.mem /\ loc'[d].new \notin Held'
    <3>1. at[d] = "swap" /\ loc'[d] = loc[d]
      BY <1>13, <2>3
    <3>2. /\ loc[d].new \in DOMAIN mt /\ mt[loc[d].new] = EmptyMemtable
          /\ loc[d].new > st.mem /\ loc[d].new \notin Held
      BY <1>2, <3>1 DEF Memtables
    <3>3. loc[d].new # st.mem
      <4>1. st.mem \in Nat
        BY <1>2 DEF StoreTyped, State
      <4> QED BY <3>2, <4>1
    <3> QED BY <1>1, <1>9, <1>17, <3>1, <3>2, <3>3
  <2>4. MemIds \subseteq DOMAIN mt /\ \A i \in Ids(st.imm) : i < st.mem
    BY <1>2 DEF Memtables
  <2> QED BY <1>1, <1>9, <1>15, <2>1, <2>2, <2>3, <2>4 DEF Memtables, Ids
<1>19. LogsKept'
  BY <1>1, <1>2, <1>13, <1>15 DEF LogsKept
<1>20. Replays'
  <2>1. Coming' = Coming
    BY <1>1, <1>4, ComingOf
  <2>2. Recording
    BY DEF Recording
  <2>3. nextId \in Nat /\ nextId' \in Nat /\ nextId <= nextId'
    BY <1>1, <1>2 DEF StoreTyped
  <2>4. UNCHANGED <<manifest, setting, st>>
    BY <1>1
  <2> QED BY <1>1, <1>2, <2>1, <2>2, <2>3, <2>4, ReplaysStill
<1> QED BY <1>14, <1>17, <1>18, <1>19, <1>20 DEF Store

\* A record enters the log.
LEMMA AppendStores ==
    ASSUME Control, Store, NEW c \in Client, AppendRecord(c)
    PROVE  Store'
<1>1. /\ at[c] = "append" /\ writes' = writes
      /\ st' = st /\ mt' = mt /\ sst' = sst /\ files' = files /\ manifest' = manifest /\ nextId' = nextId
      /\ mode' = mode /\ setting' = setting
      /\ wal' = IF setting.wal
                THEN [wal EXCEPT ![loc[c].mem] = Append(@, [k |-> loc[c].k, e |-> loc[c].e])]
                ELSE wal
      /\ \/ Goto(c, "freeze", loc[c]) \/ Goto(c, "idle", NoOp) \/ Goto(c, "insert", loc[c])
  BY DEF AppendRecord, AfterRecord, controlVars
<1>2. /\ StoreTyped /\ Memtables /\ TablesApart /\ TablesHeld /\ Jobs /\ TasksFit /\ InputsLast
      /\ Clones /\ LogsKept /\ Replays
  BY DEF Store
<1>3. PICK p \in {"freeze", "idle", "insert"} : \E l : Goto(c, p, l)
  BY <1>1
<1>4. PICK l : Goto(c, p, l)
  BY <1>3
<1>5. c \in Thread
  BY ThreadsApart
<1>6. /\ at'[c] = p /\ \A d \in Client : d # c => at'[d] = at[d] /\ loc'[d] = loc[d]
  BY <1>4, <1>5, Moved, ThreadsApart
<1>7. loc[c].mem = st.mem /\ loc[c].k \in Key /\ loc[c].e \in Entry /\ loc[c].e \in Int
  <2>1. loc[c] \in WriteLocals
    BY <1>1, <1>5, LocalsOf
  <2>2. loc[c].k \in Key /\ loc[c].e \in Int
    BY <2>1 DEF WriteLocals
  <2> QED BY <1>1, <1>2, <2>2 DEF Memtables, StoreTyped
<1> DEFINE r == [k |-> loc[c].k, e |-> loc[c].e]
           log == Append(wal[st.mem], r)
<1>8. /\ DOMAIN wal' = DOMAIN wal
      /\ \A i \in DOMAIN wal : i # st.mem => wal'[i] = wal[i]
      /\ setting.wal => st.mem \in DOMAIN wal /\ wal'[st.mem] = log
      /\ ~setting.wal => wal' = wal
  <2>1. setting.wal => st.mem \in DOMAIN wal
    BY <1>2 DEF LogsKept, MemIds
  <2>2. setting.wal => wal' = [wal EXCEPT ![st.mem] = log]
    BY <1>1, <1>7
  <2> QED BY <1>1, <2>1, <2>2
<1>9. setting.wal => wal[st.mem] \in Seq([k : Key, e : Int])
  BY <1>2, <1>8 DEF StoreTyped
<1>10. r \in [k : Key, e : Int] /\ r.e \in Entry
  BY <1>7
<1> HIDE DEF r
<1>11. StoreTyped'
  <2>1. setting.wal => log \in Seq([k : Key, e : Int]) /\ \A n \in DOMAIN log : log[n].e \in Entry
    <3>1. setting.wal => \A n \in DOMAIN wal[st.mem] : wal[st.mem][n].e \in Entry
      BY <1>2, <1>8 DEF StoreTyped
    <3> QED BY <1>9, <1>10, <3>1
  <2> HIDE DEF log
  <2>2. (wal \in [DOMAIN wal -> Seq([k : Key, e : Int])])'
    <3>1. wal' = [i \in DOMAIN wal' |-> wal'[i]]
      <4>1. wal = [i \in DOMAIN wal |-> wal[i]]
        BY <1>2 DEF StoreTyped
      <4> QED BY <1>1, <4>1
    <3>2. \A i \in DOMAIN wal' : wal'[i] \in Seq([k : Key, e : Int])
      BY <1>2, <1>8, <2>1 DEF StoreTyped
    <3> QED BY <3>1, <3>2
  <2>3. (\A i \in DOMAIN wal : \A n \in DOMAIN wal[i] : wal[i][n].e \in Entry)'
    <3>1. ASSUME NEW i \in DOMAIN wal, NEW n \in DOMAIN wal'[i] PROVE wal'[i][n].e \in Entry
      <4>1. CASE i = st.mem /\ setting.wal
        BY <1>8, <2>1, <3>1, <4>1
      <4>2. CASE wal'[i] = wal[i]
        BY <1>2, <3>1, <4>2 DEF StoreTyped
      <4> QED BY <1>1, <1>8, <4>1, <4>2
    <3>2. Entry' = Entry
      BY <1>1 DEF Entry
    <3> QED BY <1>8, <3>1, <3>2
  <2>4. (\A d \in Client : at[d] = "append" => loc[d].e \in Entry)'
    <3>1. Entry' = Entry
      BY <1>1 DEF Entry
    <3> QED BY <1>2, <1>3, <1>6, <3>1 DEF StoreTyped
  <2>5. (\A i \in DOMAIN mt, k \in Key : mt[i].data[k] \in Entry)' /\ (\A i \in DOMAIN sst, k \in Key : sst[i][k] \in Entry)'
    BY <1>1, <1>2 DEF StoreTyped, Entry
  <2>6. /\ (st \in State)' /\ (Len(st.levels) = IF setting.simple THEN MaxLevels ELSE 1)'
        /\ (nextId \in Nat)' /\ (DOMAIN mt \subseteq 0..(nextId - 1))' /\ (sst \in [DOMAIN sst -> Table])'
        /\ (mt \in [DOMAIN mt -> Memtable])' /\ (DOMAIN wal \subseteq 0..(nextId - 1))'
    BY <1>1, <1>2, <1>8 DEF StoreTyped
  <2> QED BY <2>2, <2>3, <2>4, <2>5, <2>6 DEF StoreTyped
<1>12. MemIds' = MemIds
  BY <1>1 DEF MemIds, Ids
<1>13. TablesStay(c, p, l)
  <2>1. Lands(c, p, l)
    BY <1>3 DEF Lands, Working, ClonePlaces
  <2>2. StoreGrows(c, {})
    <3>1. TableIds(st') \subseteq TableIds(st) \cup {} /\ {} \cap Held = {}
      BY <1>1
    <3>2. \A u \in Builders : Outputs(u) \subseteq files'
      BY <1>1, <1>2 DEF Jobs
    <3>3. \A u \in Thread : at[u] = "flush.install" => loc[u].id \in DOMAIN sst \cap files
      BY <1>2 DEF Jobs
    <3> QED BY <1>1, <3>1, <3>2, <3>3 DEF StoreGrows
  <2>3. st \in State /\ st.mem <= st.mem /\ nextId \in Nat
    BY <1>2 DEF StoreTyped, State
  <2>4. Held \subseteq DOMAIN sst /\ TableIds(st) \subseteq files /\ Held \cap MemIds = {}
    BY <1>2 DEF TablesHeld
  <2> QED BY <1>1, <1>3, <1>4, <1>12, <2>1, <2>2, <2>3, <2>4 DEF TablesStay
<1>14. Held' \subseteq Held /\ TablesApart' /\ TablesHeld' /\ Jobs' /\ TasksFit' /\ InputsLast' /\ Clones'
  BY <1>5, <1>13, TablesStill
<1>15. Memtables'
  BY <1>1, <1>2, <1>3, <1>6, <1>12, <1>14 DEF Memtables, Ids
<1>16. LogsKept'
  <2>1. ASSUME setting.wal, NEW d \in Client, at'[d] = "swap" PROVE loc'[d].new \in DOMAIN wal' /\ wal'[loc'[d].new] = <<>>
    <3>1. at[d] = "swap" /\ loc'[d] = loc[d]
      BY <1>3, <1>6, <2>1
    <3>2. loc[d].new \in DOMAIN wal /\ wal[loc[d].new] = <<>> /\ loc[d].new > st.mem /\ st.mem \in Nat
      BY <1>2, <2>1, <3>1 DEF LogsKept, Memtables, StoreTyped, State
    <3> QED BY <1>8, <3>1, <3>2
  <2> QED BY <1>1, <1>2, <1>8, <1>12, <2>1 DEF LogsKept
<1>17. Replays'
  <2>1. Coming' = Coming
    BY <1>1, <1>3, <1>4, <1>5, ComingOf
  <2>2. Recording' => Recording
    <3>1. at'[c] = p /\ \A d \in Client : d # c => at'[d] = at[d]
      BY <1>6
    <3> QED BY <1>1, <1>3, <3>1 DEF Recording
  <2>3. nextId \in Nat /\ nextId' \in Nat /\ nextId <= nextId'
    BY <1>1, <1>2 DEF StoreTyped
  <2>4. UNCHANGED <<manifest, setting, st>>
    BY <1>1
  <2>5. \A i \in DOMAIN wal \ MemIds : wal'[i] = wal[i]
    BY <1>8 DEF MemIds
  <2>6. setting.wal /\ DOMAIN wal = Replay.mems \cup Coming => DOMAIN wal' = Replay.mems \cup Coming'
    BY <1>8, <2>1
  <2> QED BY <1>2, <2>2, <2>3, <2>4, <2>5, <2>6, ReplaysStill
<1> QED BY <1>11, <1>14, <1>15, <1>16, <1>17 DEF Store

\* A new memtable and its log are typed like the others.
LEMMA CreatedTyped ==
    ASSUME Control, Store, CreateMemtable, writes' = writes, setting' = setting, sst' = sst, st' \in State,
           Len(st'.levels) = Len(st.levels), \A c \in Client : at'[c] = "append" => at[c] = "append" /\ loc'[c] = loc[c]
    PROVE  /\ StoreTyped'
           /\ nextId \in Nat /\ nextId \notin DOMAIN mt /\ nextId' = nextId + 1
           /\ DOMAIN mt' = DOMAIN mt \cup {nextId} /\ mt'[nextId] = EmptyMemtable
           /\ \A i \in DOMAIN mt : mt'[i] = mt[i]
           /\ nextId \notin DOMAIN wal
           /\ setting.wal => DOMAIN wal' = DOMAIN wal \cup {nextId} /\ wal'[nextId] = <<>>
           /\ ~setting.wal => wal' = wal
           /\ \A i \in DOMAIN wal : wal'[i] = wal[i]
           /\ nextId \notin Held
<1>1. StoreTyped /\ TablesHeld
  BY DEF Store
<1>2. /\ nextId \in Nat /\ nextId \notin DOMAIN mt /\ nextId \notin DOMAIN wal /\ nextId \notin Held
      /\ DOMAIN mt \subseteq 0..nextId /\ DOMAIN wal \subseteq 0..nextId
  <2>1. nextId \in Nat /\ DOMAIN mt \subseteq 0..(nextId - 1) /\ DOMAIN wal \subseteq 0..(nextId - 1)
        /\ Held \subseteq 0..(nextId - 1)
    BY <1>1 DEF StoreTyped, TablesHeld
  <2> QED BY <2>1
<1>3. nextId' = nextId + 1
  BY DEF CreateMemtable
<1>4. /\ DOMAIN mt' = DOMAIN mt \cup {nextId} /\ mt'[nextId] = EmptyMemtable
      /\ \A i \in DOMAIN mt : mt'[i] = mt[i]
      /\ mt' = [i \in DOMAIN mt' |-> mt'[i]]
  BY <1>2 DEF CreateMemtable, With
<1>5. /\ setting.wal => DOMAIN wal' = DOMAIN wal \cup {nextId} /\ wal'[nextId] = <<>>
      /\ ~setting.wal => wal' = wal
      /\ \A i \in DOMAIN wal : wal'[i] = wal[i]
      /\ wal' = [i \in DOMAIN wal' |-> wal'[i]]
  <2>1. wal = [i \in DOMAIN wal |-> wal[i]]
    BY <1>1 DEF StoreTyped
  <2> QED BY <1>2, <2>1 DEF CreateMemtable, With
<1>6. EmptyMemtable \in Memtable /\ \A k \in Key : EmptyMemtable.data[k] = 0
  BY DEF EmptyMemtable, Memtable, Table, Nothing
<1>7. 0 \in Entry /\ Entry' = Entry
  <2>1. writes \in Nat
    BY DEF Control, Typed
  <2> QED BY <2>1 DEF Entry
<1>8. StoreTyped'
  <2>1. (mt \in [DOMAIN mt -> Memtable])'
    <3>1. \A i \in DOMAIN mt' : mt'[i] \in Memtable
      BY <1>1, <1>4, <1>6 DEF StoreTyped
    <3> QED BY <1>4, <3>1
  <2>2. (DOMAIN mt \subseteq 0..(nextId - 1))' /\ (DOMAIN wal \subseteq 0..(nextId - 1))'
    BY <1>2, <1>3, <1>4, <1>5
  <2>3. (wal \in [DOMAIN wal -> Seq([k : Key, e : Int])])'
    <3>1. ASSUME NEW i \in DOMAIN wal' PROVE wal'[i] \in Seq([k : Key, e : Int])
      <4>1. <<>> \in Seq([k : Key, e : Int])
        OBVIOUS
      <4>2. CASE i \in DOMAIN wal
        BY <1>1, <1>5, <4>2 DEF StoreTyped
      <4>3. CASE i \notin DOMAIN wal
        <5>1. wal'[i] = <<>>
          BY <1>5, <3>1, <4>3
        <5> QED BY <4>1, <5>1
      <4> QED BY <4>2, <4>3
    <3> QED BY <1>5, <3>1
  <2>4. (\A i \in DOMAIN mt, k \in Key : mt[i].data[k] \in Entry)'
    <3>1. \A i \in DOMAIN mt, k \in Key : mt[i].data[k] \in Entry
      BY <1>1 DEF StoreTyped
    <3> QED BY <1>4, <1>6, <1>7, <3>1
  <2>5. (\A i \in DOMAIN wal : \A n \in DOMAIN wal[i] : wal[i][n].e \in Entry)'
    <3>1. \A i \in DOMAIN wal : \A n \in DOMAIN wal[i] : wal[i][n].e \in Entry
      BY <1>1 DEF StoreTyped
    <3>2. DOMAIN <<>> = {}
      OBVIOUS
    <3>3. ASSUME NEW i \in DOMAIN wal', NEW n \in DOMAIN wal'[i] PROVE wal'[i][n].e \in Entry
      <4>1. i \in DOMAIN wal /\ wal'[i] = wal[i]
        BY <1>5, <3>2, <3>3
      <4> QED BY <3>1, <3>3, <4>1
    <3> QED BY <1>7, <3>3
  <2>6. (\A d \in Client : at[d] = "append" => loc[d].e \in Entry)'
    BY <1>1, <1>7 DEF StoreTyped
  <2>7. /\ (st \in State)' /\ (Len(st.levels) = IF setting.simple THEN MaxLevels ELSE 1)'
        /\ (nextId \in Nat)' /\ (sst \in [DOMAIN sst -> Table])'
        /\ (\A i \in DOMAIN sst, k \in Key : sst[i][k] \in Entry)'
    <3>1. (\A i \in DOMAIN sst, k \in Key : sst[i][k] \in Entry)'
      BY <1>1, <1>7 DEF StoreTyped
    <3> QED BY <1>1, <1>2, <1>3, <3>1 DEF StoreTyped
  <2> QED BY <2>1, <2>2, <2>3, <2>4, <2>5, <2>6, <2>7 DEF StoreTyped
<1> QED BY <1>2, <1>3, <1>4, <1>5, <1>8

\* A memtable is made, and waits until it is current.
LEMMA CreateStores ==
    ASSUME Control, Store, NEW c \in Client,
           \/ TryFreeze(c) /\ mt[st.mem].size >= setting.limit
           \/ ForceFreeze(c)
    PROVE  Store'
<1>1. /\ at[c] \in {"freeze", "ff.lock"} /\ CreateMemtable /\ lock = Nobody
      /\ st' = st /\ sst' = sst /\ files' = files /\ manifest' = manifest
      /\ mode' = mode /\ setting' = setting /\ writes' = writes
  BY DEF TryFreeze, ForceFreeze, controlVars, historyVars
<1>2. c \in Thread
  BY ThreadsApart
<1>3. \E l : Goto(c, "swap", l) /\ l.new = nextId
  <2>1. CASE TryFreeze(c) /\ mt[st.mem].size >= setting.limit
    <3>1. loc[c] \in WriteLocals
      <4>1. at[c] = "freeze"
        BY <2>1 DEF TryFreeze
      <4> QED BY <1>2, <4>1, LocalsOf
    <3>2. DOMAIN loc = Thread
      BY DEF Control, Typed
    <3>3. Goto(c, "swap", [loc[c] EXCEPT !.new = nextId])
      <4>1. at' = [at EXCEPT ![c] = "swap"] /\ loc' = [loc EXCEPT ![c].new = nextId]
        BY <1>1, <2>1 DEF TryFreeze
      <4> QED BY <4>1 DEF Goto
    <3>4. [loc[c] EXCEPT !.new = nextId].new = nextId
      BY <3>1 DEF WriteLocals
    <3> QED BY <3>3, <3>4
  <2>2. CASE ForceFreeze(c)
    <3>1. Goto(c, "swap", [op |-> "force_flush", new |-> nextId])
      BY <2>2 DEF ForceFreeze
    <3>2. [op |-> "force_flush", new |-> nextId].new = nextId
      OBVIOUS
    <3> QED BY <3>1, <3>2
  <2> QED BY <2>1, <2>2
<1>4. PICK l : Goto(c, "swap", l) /\ l.new = nextId
  BY <1>3
<1>5. /\ at'[c] = "swap" /\ loc'[c] = l
      /\ \A d \in Client : d # c => at'[d] = at[d] /\ loc'[d] = loc[d]
  BY <1>2, <1>4, Moved, ThreadsApart
<1>6. /\ StoreTyped /\ Memtables /\ TablesApart /\ TablesHeld /\ Jobs /\ TasksFit /\ InputsLast
      /\ Clones /\ LogsKept /\ Replays
  BY DEF Store
<1>7. st.mem \in Nat /\ st.mem < nextId /\ st.mem \in DOMAIN mt /\ st \in State
  <2>1. st.mem \in DOMAIN mt /\ DOMAIN mt \subseteq 0..(nextId - 1) /\ nextId \in Nat /\ st \in State
    BY <1>6 DEF Memtables, MemIds, StoreTyped
  <2> QED BY <2>1
<1>8. /\ StoreTyped'
      /\ nextId \in Nat /\ nextId \notin DOMAIN mt /\ nextId' = nextId + 1
      /\ DOMAIN mt' = DOMAIN mt \cup {nextId} /\ mt'[nextId] = EmptyMemtable
      /\ \A i \in DOMAIN mt : mt'[i] = mt[i]
      /\ nextId \notin DOMAIN wal
      /\ setting.wal => DOMAIN wal' = DOMAIN wal \cup {nextId} /\ wal'[nextId] = <<>>
      /\ ~setting.wal => wal' = wal
      /\ \A i \in DOMAIN wal : wal'[i] = wal[i]
      /\ nextId \notin Held
  <2>1. Len(st'.levels) = Len(st.levels) /\ st' \in State
    BY <1>1, <1>7
  <2>2. \A d \in Client : at'[d] = "append" => at[d] = "append" /\ loc'[d] = loc[d]
    BY <1>5
  <2> QED BY <1>1, <2>1, <2>2, CreatedTyped
<1>9. MemIds' = MemIds
  BY <1>1 DEF MemIds, Ids
<1>10. TablesStay(c, "swap", l)
  <2>1. Lands(c, "swap", l)
    BY DEF Lands, Working, ClonePlaces
  <2>2. StoreGrows(c, {})
    <3>1. TableIds(st') \subseteq TableIds(st) \cup {} /\ {} \cap Held = {}
      BY <1>1
    <3>2. \A u \in Builders : Outputs(u) \subseteq files'
      BY <1>1, <1>6 DEF Jobs
    <3>3. \A u \in Thread : at[u] = "flush.install" =>
             /\ loc[u].id \in DOMAIN sst \cap files /\ mt'[loc[u].id].data = mt[loc[u].id].data
      <4>1. ASSUME NEW u \in Thread, at[u] = "flush.install"
            PROVE  loc[u].id \in DOMAIN sst \cap files /\ mt'[loc[u].id].data = mt[loc[u].id].data
        <5>1. loc[u].id \in DOMAIN sst /\ loc[u].id \in files /\ loc[u].id \in DOMAIN mt
          BY <4>1, FlushOf
        <5> QED BY <1>8, <5>1
      <4> QED BY <4>1
    <3> QED BY <1>1, <3>1, <3>2, <3>3 DEF StoreGrows
  <2>3. st.mem <= st.mem /\ nextId' \in Nat /\ nextId <= nextId'
    BY <1>7, <1>8
  <2>4. Held \subseteq DOMAIN sst /\ TableIds(st) \subseteq files /\ Held \cap MemIds = {}
    BY <1>6 DEF TablesHeld
  <2> QED BY <1>1, <1>4, <1>7, <1>8, <1>9, <2>1, <2>2, <2>3, <2>4 DEF TablesStay
<1>11. Held' \subseteq Held /\ TablesApart' /\ TablesHeld' /\ Jobs' /\ TasksFit' /\ InputsLast' /\ Clones'
  BY <1>2, <1>10, TablesStill
<1>12. Memtables'
  <2>1. ASSUME NEW d \in Client, at'[d] = "swap"
        PROVE  /\ loc'[d].new \in DOMAIN mt' /\ mt'[loc'[d].new] = EmptyMemtable
               /\ loc'[d].new > st'.mem /\ loc'[d].new \notin Held'
    <3>1. CASE d = c
      BY <1>1, <1>4, <1>5, <1>7, <1>8, <1>11, <3>1
    <3>2. CASE d # c
      <4>1. at[d] = "swap" /\ loc'[d] = loc[d]
        BY <1>5, <2>1, <3>2
      <4> QED BY <1>1, <1>6, <1>8, <1>11, <4>1 DEF Memtables
    <3> QED BY <3>1, <3>2
  <2>2. (\A d \in Client : at[d] = "append" => loc[d].mem = st.mem)'
    BY <1>1, <1>5, <1>6 DEF Memtables
  <2>3. /\ MemIds \subseteq DOMAIN mt /\ \A i \in Ids(st.imm) : i < st.mem
        /\ \A p, q \in DOMAIN st.imm : p < q => st.imm[p] > st.imm[q]
    BY <1>6 DEF Memtables
  <2> QED BY <1>1, <1>8, <1>9, <2>1, <2>2, <2>3 DEF Memtables, Ids
<1>13. LogsKept'
  <2>1. ASSUME setting.wal, NEW d \in Client, at'[d] = "swap" PROVE loc'[d].new \in DOMAIN wal' /\ wal'[loc'[d].new] = <<>>
    <3>1. CASE d = c
      BY <1>4, <1>5, <1>8, <2>1, <3>1
    <3>2. CASE d # c
      <4>1. at[d] = "swap" /\ loc'[d] = loc[d]
        BY <1>5, <2>1, <3>2
      <4> QED BY <1>6, <1>8, <2>1, <4>1 DEF LogsKept
    <3> QED BY <3>1, <3>2
  <2> QED BY <1>1, <1>6, <1>8, <1>9, <2>1 DEF LogsKept
<1>14. Replays'
  <2>1. Coming' = Coming \cup {nextId}
    BY <1>1, <1>2, <1>4, ComingOf
  <2>2. Recording' => Recording
    BY <1>1, <1>5 DEF Recording
  <2>3. nextId \in Nat /\ nextId' \in Nat /\ nextId <= nextId'
    BY <1>8
  <2>4. UNCHANGED <<manifest, setting, st>>
    BY <1>1
  <2>5. \A i \in DOMAIN wal \ MemIds : wal'[i] = wal[i]
    BY <1>8
  <2>6. setting.wal /\ DOMAIN wal = Replay.mems \cup Coming => DOMAIN wal' = Replay.mems \cup Coming'
    BY <1>8, <2>1
  <2> QED BY <1>6, <2>2, <2>3, <2>4, <2>5, <2>6, ReplaysStill
<1> QED BY <1>8, <1>11, <1>12, <1>13, <1>14 DEF Store

\* Replaying finds a record of four fields.
LEMMA ReplayShape ==
    ASSUME NEW R, NEW m \in Seq(R)
    PROVE  DOMAIN ReplayOf(m) = {"ok", "mems", "ids", "s"}
<1>1. PICK f : /\ ReplayOf(m) = f[Len(m)] /\ f[0] = ReplayStart
               /\ \A n \in 1..Len(m) : f[n] = Replayed(f[n - 1], m[n])
  BY ReplayingOf
<1> DEFINE G == {n \in 0..Len(m) : DOMAIN f[n] = {"ok", "mems", "ids", "s"}}
<1>2. Len(m) \in Nat
  OBVIOUS
<1>3. 0 \in G
  BY <1>1, <1>2 DEF ReplayStart
<1>4. ASSUME NEW n \in 0..Len(m), n \in G, n < Len(m) PROVE n + 1 \in G
  <2>1. n + 1 \in 1..Len(m) /\ (n + 1) - 1 = n
    BY <1>2, <1>4
  <2>2. f[n + 1] = Replayed(f[n], m[n + 1])
    BY <1>1, <2>1
  <2>3. \A r, rec : DOMAIN Replayed(r, rec) = DOMAIN r
    BY DEF Replayed
  <2> QED BY <1>4, <2>1, <2>2, <2>3
<1>5. Len(m) \in G
  <2> HIDE DEF G
  <2>1. \A n \in 0..Len(m) : n \in G
    BY <1>2, <1>3, <1>4, UpTo
  <2> QED BY <1>2, <2>1
<1> QED BY <1>1, <1>5

\* One more record in the manifest.
LEMMA Recorded ==
    ASSUME Replays, NEW rec \in ManifestRecord, manifest' = Append(manifest, rec), setting' = setting
    PROVE  /\ manifest' \in Seq(ManifestRecord) /\ ManifestRecord' = ManifestRecord
           /\ NoFull' <=> NoFull /\ rec.kind # "full"
           /\ Replay' = Replayed(Replay, rec)
           /\ DOMAIN Replay = {"ok", "mems", "ids", "s"}
           /\ ~NoFull => ~Replay.ok
<1>1. manifest \in Seq(ManifestRecord)
  BY DEF Replays
<1>2. ManifestRecord' = ManifestRecord
  BY DEF ManifestRecord
<1>3. manifest' \in Seq(ManifestRecord)
  BY <1>1
<1>4. NoFull' <=> NoFull /\ rec.kind # "full"
  <2>1. Len(manifest') = Len(manifest) + 1 /\ Len(manifest) \in Nat
    BY <1>1
  <2>2. manifest'[Len(manifest) + 1] = rec
    BY <1>1
  <2>3. \A n \in DOMAIN manifest : manifest'[n] = manifest[n]
    BY <1>1
  <2>4. DOMAIN manifest' = DOMAIN manifest \cup {Len(manifest) + 1}
    BY <1>1, <1>3, <2>1
  <2> QED BY <2>2, <2>3, <2>4 DEF NoFull
<1>5. Replay' = Replayed(Replay, rec)
  <2>1. ReplayOf(Append(manifest, rec)) = Replayed(ReplayOf(manifest), rec)
    BY <1>1, ReplayNext
  <2>2. Replay' = ReplayOf(Append(manifest, rec))
    <3>1. manifest' = Append(manifest, rec) /\ setting' = setting
      OBVIOUS
    <3> QED BY <3>1 DEF Replay, ReplayOf, Replayed, EmptyLevels, InputsInPlace, Applied, Without, Ids
  <2> QED BY <2>1, <2>2 DEF Replay
<1>6. DOMAIN Replay = {"ok", "mems", "ids", "s"}
  BY <1>1, ReplayShape DEF Replay
<1>7. ~NoFull => ~Replay.ok
  BY DEF Replays
<1> QED BY <1>2, <1>3, <1>4, <1>5, <1>6, <1>7

\* What replaying one record of a memtable or of a flush does.
LEMMA ReplayedIs ==
    ASSUME NEW r, DOMAIN r = {"ok", "mems", "ids", "s"}, NEW i
    PROVE  /\ LET q == Replayed(r, [kind |-> "new", id |-> i]) IN
              /\ q.ok = r.ok /\ q.mems = r.mems \cup {i} /\ q.ids = r.ids \cup {i} /\ q.s = r.s
           /\ LET q == Replayed(r, [kind |-> "flush", id |-> i]) IN
              /\ q.ok <=> r.ok /\ i \in r.mems
              /\ q.mems = r.mems \ {i} /\ q.ids = r.ids \cup {i}
              /\ q.s = [r.s EXCEPT !.l0 = <<i>> \o @]
<1>1. Replayed(r, [kind |-> "new", id |-> i]) = [r EXCEPT !.mems = @ \cup {i}, !.ids = @ \cup {i}]
  BY DEF Replayed
<1>2. Replayed(r, [kind |-> "flush", id |-> i]) =
         [r EXCEPT !.ok = @ /\ i \in r.mems, !.mems = @ \ {i}, !.ids = @ \cup {i}, !.s.l0 = <<i>> \o @]
  BY DEF Replayed
<1>3. /\ [r EXCEPT !.mems = @ \cup {i}, !.ids = @ \cup {i}].ok = r.ok
      /\ [r EXCEPT !.mems = @ \cup {i}, !.ids = @ \cup {i}].mems = r.mems \cup {i}
      /\ [r EXCEPT !.mems = @ \cup {i}, !.ids = @ \cup {i}].ids = r.ids \cup {i}
      /\ [r EXCEPT !.mems = @ \cup {i}, !.ids = @ \cup {i}].s = r.s
  OBVIOUS
<1> DEFINE q == [r EXCEPT !.ok = @ /\ i \in r.mems, !.mems = @ \ {i}, !.ids = @ \cup {i}, !.s.l0 = <<i>> \o @]
<1>4. q.ok <=> r.ok /\ i \in r.mems
  OBVIOUS
<1>5. q.mems = r.mems \ {i} /\ q.ids = r.ids \cup {i} /\ q.s = [r.s EXCEPT !.l0 = <<i>> \o @]
  OBVIOUS
<1> QED BY <1>1, <1>2, <1>3, <1>4, <1>5

\* Whoever owns state_lock is alone at the places behind it.
LEMMA Alone ==
    ASSUME Control, NEW t \in Thread, at[t] \in Holding
    PROVE  \A u \in Thread : u # t => at[u] \notin Holding
<1>1. lock = t
  BY LockOf
<1>2. \A u \in Thread : lock = u <=> at[u] \in Holding
  BY LockOf
<1> QED BY <1>1, <1>2

\* The current memtable becomes the newest of the frozen ones.
LEMMA FrozenIs ==
    ASSUME Store, NEW i \in Nat, i > st.mem, st' = Frozen(st, i)
    PROVE  /\ st' \in State /\ st'.mem = i /\ st'.l0 = st.l0 /\ st'.levels = st.levels
           /\ st'.imm = <<st.mem>> \o st.imm
           /\ st.mem <= st'.mem /\ st.mem \in Nat
           /\ Ids(st'.imm) = MemIds /\ MemIds' = MemIds \cup {i}
           /\ \A p, q \in DOMAIN st'.imm : p < q => st'.imm[p] > st'.imm[q]
           /\ \A j \in Ids(st'.imm) : j < st'.mem
<1>1. st \in State /\ st.imm \in Seq(Nat) /\ st.mem \in Nat
  BY DEF Store, StoreTyped, State
<1>2. st'.mem = i /\ st'.l0 = st.l0 /\ st'.levels = st.levels /\ st'.imm = <<st.mem>> \o st.imm
  BY <1>1 DEF Frozen, State
<1>3. /\ <<st.mem>> \o st.imm \in Seq(Nat) /\ Len(<<st.mem>> \o st.imm) = Len(st.imm) + 1
      /\ (<<st.mem>> \o st.imm)[1] = st.mem
      /\ \A p \in 2..Len(st.imm) + 1 : (<<st.mem>> \o st.imm)[p] = st.imm[p - 1]
      /\ Ids(<<st.mem>> \o st.imm) = {st.mem} \cup Ids(st.imm)
  BY <1>1, Prepended
<1>4. st' \in State
  <2>1. Frozen(st, i) = [st EXCEPT !.mem = i, !.imm = <<st.mem>> \o st.imm]
    BY <1>1 DEF Frozen, State
  <2> DEFINE q == <<st.mem>> \o st.imm
  <2>2. q \in Seq(Nat) /\ Frozen(st, i) = [st EXCEPT !.mem = i, !.imm = q]
    BY <1>3, <2>1
  <2> HIDE DEF q
  <2> QED BY <1>1, <2>2 DEF State
<1>5. Ids(st'.imm) = MemIds /\ MemIds' = MemIds \cup {i}
  <2>1. Ids(st'.imm) = MemIds
    BY <1>2, <1>3 DEF MemIds
  <2>2. MemIds' = Ids(st'.imm) \cup {st'.mem}
    BY DEF MemIds, Ids
  <2> QED BY <1>2, <2>1, <2>2
<1>6. /\ \A p, q \in DOMAIN st.imm : p < q => st.imm[p] > st.imm[q]
      /\ \A j \in Ids(st.imm) : j < st.mem
  BY DEF Store, Memtables
<1>7. ASSUME NEW p \in DOMAIN st'.imm, NEW q \in DOMAIN st'.imm, p < q PROVE st'.imm[p] > st'.imm[q]
  <2>1. Len(st.imm) \in Nat /\ DOMAIN st.imm = 1..Len(st.imm) /\ \A n \in 1..Len(st.imm) : st.imm[n] \in Nat
    BY <1>1
  <2>2. p \in 1..Len(st.imm) + 1 /\ q \in 2..Len(st.imm) + 1
    BY <1>2, <1>3, <1>7, <2>1
  <2>3. st'.imm[q] = st.imm[q - 1] /\ q - 1 \in 1..Len(st.imm)
    BY <1>2, <1>3, <2>1, <2>2
  <2>4. CASE p = 1
    <3>1. st.imm[q - 1] \in Ids(st.imm)
      BY <2>3 DEF Ids
    <3>2. st.imm[q - 1] < st.mem /\ st'.imm[1] = st.mem
      BY <1>2, <1>3, <1>6, <3>1
    <3> QED BY <1>1, <2>1, <2>3, <2>4, <3>2
  <2>5. CASE p # 1
    <3>1. st'.imm[p] = st.imm[p - 1] /\ p - 1 \in 1..Len(st.imm) /\ p - 1 < q - 1
      <4>1. p \in 2..Len(st.imm) + 1
        BY <2>1, <2>2, <2>5
      <4>2. st'.imm[p] = st.imm[p - 1]
        BY <1>2, <1>3, <4>1
      <4>3. p - 1 \in 1..Len(st.imm) /\ p - 1 < q - 1
        BY <1>7, <2>1, <2>2, <4>1
      <4> QED BY <4>2, <4>3
    <3> QED BY <1>6, <2>1, <2>3, <3>1
  <2> QED BY <2>4, <2>5
<1>8. \A j \in Ids(st'.imm) : j < st'.mem
  <2>1. \A j \in Ids(st.imm) : j \in Nat
    BY <1>1, IdsOf
  <2> QED BY <1>1, <1>2, <1>5, <1>6, <2>1 DEF MemIds
<1>9. st.mem <= st'.mem /\ st.mem \in Nat
  BY <1>1, <1>2
<1>10. \A p, q \in DOMAIN st'.imm : p < q => st'.imm[p] > st'.imm[q]
  BY <1>7
<1> QED BY <1>2, <1>4, <1>5, <1>8, <1>9, <1>10

\* The new memtable becomes the current one.
LEMMA SwapStores ==
    ASSUME Control, Store, NEW t \in Thread, Swap(t)
    PROVE  Store'
<1> DEFINE i == loc[t].new
           rec == [kind |-> "new", id |-> i]
<1>1. /\ at[t] = "swap" /\ ~GuardHeld /\ st' = Frozen(st, i) /\ manifest' = Append(manifest, rec)
      /\ mt' = mt /\ wal' = wal /\ sst' = sst /\ files' = files /\ nextId' = nextId
      /\ mode' = mode /\ setting' = setting /\ writes' = writes
      /\ \/ Goto(t, "idle", NoOp) \/ Goto(t, "insert", loc[t]) \/ Goto(t, "ff.check", loc[t])
  BY DEF Swap, AfterRecord, controlVars, historyVars
<1>2. t \in Client /\ mode = "open" /\ i \in Nat
  <2>1. loc[t] \in WriteLocals \cup [op : {"force_flush"}, new : Nat]
    BY <1>1, LocalsOf
  <2>2. i \in Nat /\ loc[t].op \in {"write", "force_flush"}
    BY <2>1 DEF WriteLocals
  <2>3. t # Flusher /\ t # Compactor
    BY <1>1, PlaceOf, ThreadsApart DEF ThreadFits
  <2>4. t \in Client
    BY <2>3, ThreadsApart
  <2> QED BY <2>2, <2>4, PlaceOf DEF ModeFits
<1>3. PICK p \in {"idle", "insert", "ff.check"} : \E l : Goto(t, p, l)
  BY <1>1
<1>4. PICK l : Goto(t, p, l)
  BY <1>3
<1>5. /\ at'[t] = p /\ \A d \in Client : d # t => at'[d] = at[d] /\ loc'[d] = loc[d]
  BY <1>4, Moved, ThreadsApart
<1>6. /\ StoreTyped /\ Memtables /\ TablesApart /\ TablesHeld /\ Jobs /\ TasksFit /\ InputsLast
      /\ Clones /\ LogsKept /\ Replays
  BY DEF Store
<1>7. i \in DOMAIN mt /\ i > st.mem /\ i \notin Held /\ (setting.wal => i \in DOMAIN wal /\ wal[i] = <<>>)
  BY <1>1, <1>2, <1>6 DEF Memtables, LogsKept
<1>8. \A u \in Thread : u # t => at[u] \notin Holding
  BY <1>1, Alone DEF Holding
<1>9. \A d \in Client : at'[d] \notin {"swap", "append"}
  <2>1. \A d \in Client : at[d] # "append"
    BY <1>1 DEF GuardHeld
  <2> QED BY <1>3, <1>5, <1>8, <2>1, ThreadsApart DEF Holding
<1>10. /\ st' \in State /\ st'.mem = i /\ st'.l0 = st.l0 /\ st'.levels = st.levels
       /\ st.mem <= st'.mem
       /\ Ids(st'.imm) = MemIds /\ MemIds' = MemIds \cup {i}
       /\ \A x, y \in DOMAIN st'.imm : x < y => st'.imm[x] > st'.imm[y]
       /\ \A j \in Ids(st'.imm) : j < st'.mem
  BY <1>1, <1>2, <1>7, FrozenIs
<1> HIDE DEF i
<1>11. StoreTyped'
  <2>1. Entry' = Entry /\ Len(st'.levels) = Len(st.levels)
    BY <1>1, <1>10 DEF Entry
  <2> QED BY <1>1, <1>6, <1>9, <1>10, <2>1 DEF StoreTyped
<1>12. TablesStay(t, p, l)
  <2>1. Lands(t, p, l)
    BY <1>3 DEF Lands, Working, ClonePlaces
  <2>2. StoreGrows(t, {})
    <3>1. TableIds(st') \subseteq TableIds(st) \cup {} /\ {} \cap Held = {}
      BY <1>10 DEF TableIds, Ids
    <3>2. \A u \in Builders : Outputs(u) \subseteq files'
      BY <1>1, <1>6 DEF Jobs
    <3>3. \A u \in Thread : u # t => at[u] # "install" /\ at[u] # "flush.install"
      BY <1>8 DEF Holding
    <3> QED BY <3>1, <3>2, <3>3 DEF StoreGrows
  <2>3. nextId \in Nat /\ nextId <= nextId
    BY <1>6 DEF StoreTyped
  <2>4. Held \subseteq DOMAIN sst /\ TableIds(st) \subseteq files /\ Held \cap MemIds = {}
    BY <1>6 DEF TablesHeld
  <2> QED BY <1>1, <1>3, <1>4, <1>7, <1>10, <2>1, <2>2, <2>3, <2>4 DEF TablesStay
<1>13. Held' \subseteq Held /\ TablesApart' /\ TablesHeld' /\ Jobs' /\ TasksFit' /\ InputsLast' /\ Clones'
  BY <1>12, TablesStill
<1>14. Memtables'
  <2>1. MemIds \subseteq DOMAIN mt
    BY <1>6 DEF Memtables
  <2> QED BY <1>1, <1>7, <1>9, <1>10, <2>1 DEF Memtables, Ids
<1>15. LogsKept'
  BY <1>1, <1>6, <1>7, <1>9, <1>10 DEF LogsKept
<1>16. Replays'
  <2>1. rec \in ManifestRecord
    BY <1>2 DEF ManifestRecord, i
  <2>2. rec.kind # "full" /\ rec = [kind |-> "new", id |-> i]
    OBVIOUS
  <2> HIDE DEF rec
  <2>3. /\ manifest' \in Seq(ManifestRecord) /\ ManifestRecord' = ManifestRecord
        /\ NoFull' <=> NoFull
        /\ Replay' = Replayed(Replay, rec)
        /\ DOMAIN Replay = {"ok", "mems", "ids", "s"}
        /\ ~NoFull => ~Replay.ok
    BY <1>1, <1>6, <2>1, <2>2, Recorded
  <2> HIDE DEF Replay
  <2>4. /\ Replay'.ok = Replay.ok /\ Replay'.mems = Replay.mems \cup {i}
        /\ Replay'.ids = Replay.ids \cup {i} /\ Replay'.s = Replay.s
    BY <2>2, <2>3, ReplayedIs
  <2>6. CASE ~NoFull
    BY <2>3, <2>4, <2>6 DEF Replays
  <2>7. CASE NoFull
    <3>1. /\ Replay.ok
          /\ Replay.s = [mem |-> 0, imm |-> <<>>, l0 |-> st.l0, levels |-> st.levels]
          /\ Replay.mems \subseteq Replay.ids
          /\ Ids(st.imm) \subseteq Replay.mems
          /\ TableIds(st) \subseteq Replay.ids
          /\ 1 \in Replay.ids /\ Replay.ids \subseteq 0..nextId
          /\ setting.wal =>
                  /\ st.mem \in Replay.mems
                  /\ DOMAIN wal = Replay.mems \cup Coming
                  /\ \A j \in Replay.mems \ MemIds : Recovered(wal[j]) = Nothing
          /\ Recording => st.mem \in Replay.mems
      BY <1>6, <2>7 DEF Replays
    <3>2. st.mem \in Replay.mems
      BY <1>2, <3>1 DEF Recording
    <3>3. Replay'.mems = Replay.mems \cup {i} /\ Replay'.ids = Replay.ids \cup {i} /\ Replay'.ok = Replay.ok
          /\ Replay'.s = Replay.s
      BY <2>4
    <3>4. Coming' \cup {i} = Coming
      <4>1. i \in Coming
        BY <1>1, <1>2 DEF Coming, i
      <4>2. Coming' \subseteq Coming /\ Coming \subseteq Coming' \cup {i}
        BY <1>1, <1>2, <1>3, <1>4, ComingOf DEF i
      <4> QED BY <4>1, <4>2
    <3>5. i \in 0..nextId /\ TableIds(st') = TableIds(st)
      <4>1. DOMAIN mt \subseteq 0..(nextId - 1) /\ nextId \in Nat
        BY <1>6 DEF StoreTyped
      <4> QED BY <1>7, <1>10, <4>1 DEF TableIds, Ids
    <3>6. Ids(st'.imm) \subseteq Replay'.mems
      BY <1>10, <3>1, <3>2, <3>3 DEF MemIds
    <3>7. setting.wal =>
                  /\ st'.mem \in Replay'.mems
                  /\ DOMAIN wal = Replay'.mems \cup Coming'
                  /\ \A j \in Replay'.mems \ MemIds' : Recovered(wal[j]) = Nothing
      BY <1>10, <3>1, <3>3, <3>4
    <3>8. Replay'.s = [mem |-> 0, imm |-> <<>>, l0 |-> st'.l0, levels |-> st'.levels]
      BY <1>10, <3>1, <3>3
    <3>9. /\ Replay'.ok /\ Replay'.mems \subseteq Replay'.ids /\ TableIds(st') \subseteq Replay'.ids
          /\ 1 \in Replay'.ids /\ Replay'.ids \subseteq 0..nextId' /\ st'.mem \in Replay'.mems
      BY <1>1, <1>10, <3>1, <3>3, <3>5
    <3>10. TableIds(st)' = TableIds(st') /\ Ids(st.imm)' = Ids(st'.imm)
      BY DEF TableIds, Ids
    <3> QED BY <1>1, <2>3, <2>7, <3>6, <3>7, <3>8, <3>9, <3>10 DEF Replays
  <2> QED BY <2>6, <2>7
<1> QED BY <1>11, <1>13, <1>14, <1>15, <1>16 DEF Store

\* Without logs close freezes the memtable, which has a record already.
LEMMA CloseMemtableStores ==
    ASSUME Control, Store, NEW c \in Client, CloseMemtable(c), ~setting.wal, ~IsEmptyTable(mt[st.mem].data)
    PROVE  Store'
<1> DEFINE l == [op |-> "close"]
<1>1. /\ at[c] = "close.memtable" /\ ~GuardHeld /\ CreateMemtable /\ st' = Frozen(st, nextId)
      /\ sst' = sst /\ files' = files /\ manifest' = manifest
      /\ mode' = mode /\ setting' = setting /\ writes' = writes
      /\ Goto(c, "close.drain", l)
  BY DEF CloseMemtable, controlVars, historyVars
<1> HIDE DEF l
<1>2. c \in Thread
  BY ThreadsApart
<1>3. /\ at'[c] = "close.drain" /\ \A d \in Client : d # c => at'[d] = at[d] /\ loc'[d] = loc[d]
  BY <1>1, <1>2, Moved, ThreadsApart
<1>4. /\ StoreTyped /\ Memtables /\ TablesApart /\ TablesHeld /\ Jobs /\ TasksFit /\ InputsLast
      /\ Clones /\ LogsKept /\ Replays
  BY DEF Store
<1>5. nextId \in Nat /\ nextId > st.mem /\ st.mem \in Nat
  <2>1. st.mem \in DOMAIN mt /\ DOMAIN mt \subseteq 0..(nextId - 1) /\ nextId \in Nat
    BY <1>4 DEF Memtables, MemIds, StoreTyped
  <2> QED BY <2>1
<1>6. /\ loc[c].op = "close" /\ mode = "closing"
      /\ \A u \in Thread : u # c => loc[u].op # "close"
      /\ at[Compactor] = "stopped" /\ at[Flusher] = "stopped"
  BY <1>1, ClosedBy DEF ClosePlaces, PastJoins
<1>7. \A u \in Thread : at[u] \notin {"install", "flush.install"} /\ (u \in Client => at[u] \notin {"swap", "append"})
  <2>1. ASSUME NEW u \in Thread PROVE at[u] \notin {"install", "flush.install"} /\ (u \in Client => at[u] \notin {"swap", "append"})
    <3>1. CASE u \in Client
      <4>1. loc[u].op \notin {"write", "force_flush", "compact"}
        BY <1>6, <3>1, PlaceOf DEF ModeFits
      <4>2. at[u] # "install"
        BY <4>1, LocalsOf
      <4>3. at[u] # "flush.install"
        <5>1. ASSUME at[u] = "flush.install" PROVE FALSE
          <6>1. loc[u] \in [op : FlushOps, id : Nat]
            BY <5>1, LocalsOf
          <6>2. loc[u].op \in FlushOps
            BY <6>1
          <6>3. loc[u].op # "tick"
            BY <3>1, PlaceOf DEF ThreadFits
          <6>4. u # c
            BY <1>1, <5>1
          <6> QED BY <1>6, <4>1, <6>2, <6>3, <6>4 DEF FlushOps
        <5> QED BY <5>1
      <4>4. at[u] \notin {"swap", "append"}
        <5>1. at[u] \in {"swap", "append"} => loc[u] \in WriteLocals \cup [op : {"force_flush"}, new : Nat]
          BY LocalsOf
        <5>2. \A x \in WriteLocals \cup [op : {"force_flush"}, new : Nat] : x.op \in {"write", "force_flush"}
          BY DEF WriteLocals
        <5> QED BY <4>1, <5>1, <5>2
      <4> QED BY <4>2, <4>3, <4>4
    <3>2. CASE u \notin Client
      BY <1>6, <3>2, ThreadsApart
    <3> QED BY <3>1, <3>2
  <2> QED BY <2>1
<1>8. \A d \in Client : at'[d] \notin {"swap", "append"}
  BY <1>3, <1>7, ThreadsApart
<1>9. /\ st' \in State /\ st'.mem = nextId /\ st'.l0 = st.l0 /\ st'.levels = st.levels
      /\ st.mem <= st'.mem
      /\ Ids(st'.imm) = MemIds /\ MemIds' = MemIds \cup {nextId}
      /\ \A x, y \in DOMAIN st'.imm : x < y => st'.imm[x] > st'.imm[y]
      /\ \A j \in Ids(st'.imm) : j < st'.mem
  BY <1>1, <1>5, FrozenIs
<1>10. /\ StoreTyped'
       /\ nextId' = nextId + 1
       /\ DOMAIN mt' = DOMAIN mt \cup {nextId} /\ mt'[nextId] = EmptyMemtable
       /\ \A i \in DOMAIN mt : mt'[i] = mt[i]
       /\ wal' = wal
       /\ nextId \notin Held
  <2>1. Len(st'.levels) = Len(st.levels)
    BY <1>9
  <2>2. \A d \in Client : at'[d] = "append" => at[d] = "append" /\ loc'[d] = loc[d]
    BY <1>8
  <2> QED BY <1>1, <1>9, <2>1, <2>2, CreatedTyped
<1>11. TablesStay(c, "close.drain", l)
  <2>1. Lands(c, "close.drain", l)
    BY DEF Lands, Working, ClonePlaces
  <2>2. StoreGrows(c, {})
    <3>1. TableIds(st') \subseteq TableIds(st) \cup {} /\ {} \cap Held = {}
      BY <1>9 DEF TableIds, Ids
    <3>2. \A u \in Builders : Outputs(u) \subseteq files'
      BY <1>1, <1>4 DEF Jobs
    <3> QED BY <1>7, <3>1, <3>2 DEF StoreGrows
  <2>3. nextId' \in Nat /\ nextId <= nextId'
    BY <1>5, <1>10
  <2>4. Held \subseteq DOMAIN sst /\ TableIds(st) \subseteq files /\ Held \cap MemIds = {}
    BY <1>4 DEF TablesHeld
  <2>5. DOMAIN mt \subseteq DOMAIN mt' /\ Held \cap MemIds' = {}
    BY <1>9, <1>10, <2>4
  <2> QED BY <1>1, <1>9, <2>1, <2>2, <2>3, <2>4, <2>5 DEF TablesStay
<1>12. Held' \subseteq Held /\ TablesApart' /\ TablesHeld' /\ Jobs' /\ TasksFit' /\ InputsLast' /\ Clones'
  BY <1>2, <1>11, TablesStill
<1>13. Memtables'
  <2>1. MemIds \subseteq DOMAIN mt
    BY <1>4 DEF Memtables
  <2> QED BY <1>8, <1>9, <1>10, <2>1 DEF Memtables, Ids
<1>14. LogsKept'
  BY <1>1, <1>4, <1>10 DEF LogsKept
<1>15. Replays'
  <2>1. Replay' = Replay /\ NoFull' = NoFull
    BY <1>1, ReplaySame
  <2>2. ManifestRecord' = ManifestRecord
    BY DEF ManifestRecord
  <2>3. TableIds(st)' = TableIds(st) /\ Ids(st.imm)' = MemIds
    <3>1. Ids(st.imm)' = Ids(st'.imm)
      BY DEF Ids
    <3> QED BY <1>9, <3>1 DEF TableIds, Ids
  <2>4. ~Recording'
    <3>1. ASSUME NEW d \in Client PROVE at'[d] \notin {"close.join_compactor", "close.join_flusher", "close.memtable"}
      <4>1. CASE d = c
        BY <1>3, <4>1
      <4>2. CASE d # c
        <5>1. loc[d].op # "close"
          BY <1>6, <4>2, ThreadsApart
        <5>2. at[d] \notin ClosePlaces
          BY <5>1, LocalsOf, ThreadsApart
        <5> QED BY <1>3, <4>2, <5>2 DEF ClosePlaces
      <4> QED BY <4>1, <4>2
    <3> QED BY <1>1, <1>6, <3>1 DEF Recording
  <2> HIDE DEF Replay
  <2>5. CASE ~NoFull
    BY <1>1, <1>4, <2>1, <2>2, <2>5 DEF Replays
  <2>6. CASE NoFull
    <3>1. /\ manifest \in Seq(ManifestRecord)
          /\ Replay.ok
          /\ Replay.s = [mem |-> 0, imm |-> <<>>, l0 |-> st.l0, levels |-> st.levels]
          /\ Replay.mems \subseteq Replay.ids
          /\ Ids(st.imm) \subseteq Replay.mems
          /\ TableIds(st) \subseteq Replay.ids
          /\ 1 \in Replay.ids /\ Replay.ids \subseteq 0..nextId
          /\ Recording => st.mem \in Replay.mems
      BY <1>4, <2>6 DEF Replays
    <3>2. Recording
      BY <1>1 DEF Recording
    <3>3. MemIds \subseteq Replay.mems
      BY <3>1, <3>2 DEF MemIds
    <3>4. Replay.ids \subseteq 0..nextId'
      BY <1>5, <1>10, <3>1
    <3> QED BY <1>1, <1>9, <2>1, <2>2, <2>3, <2>4, <2>6, <3>1, <3>3, <3>4 DEF Replays
  <2> QED BY <2>5, <2>6
<1> QED BY <1>10, <1>12, <1>13, <1>14, <1>15 DEF Store

\* The table of the oldest memtable is written.
LEMMA FlushBuildStores ==
    ASSUME Control, Store, NEW t \in Thread, FlushBuild(t), st.imm # <<>>,
           ~IsEmptyTable(mt[Last(st.imm)].data)
    PROVE  Store'
<1> DEFINE i == Last(st.imm)
           l == [op |-> loc[t].op, id |-> i]
<1>1. /\ at[t] = "flush" /\ lock = Nobody /\ lock' = t
      /\ st' = st /\ mt' = mt /\ wal' = wal /\ manifest' = manifest /\ nextId' = nextId
      /\ sst' = With(sst, i, mt[i].data) /\ files' = files \cup {i}
      /\ mode' = mode /\ setting' = setting /\ writes' = writes
      /\ Goto(t, "flush.install", l)
  BY DEF FlushBuild, controlVars, historyVars
<1>2. l.id = i
  OBVIOUS
<1> HIDE DEF l
<1>3. /\ at'[t] = "flush.install" /\ \A d \in Client : d # t => at'[d] = at[d] /\ loc'[d] = loc[d]
  BY <1>1, Moved, ThreadsApart
<1>4. /\ StoreTyped /\ Memtables /\ TablesApart /\ TablesHeld /\ Jobs /\ TasksFit /\ InputsLast
      /\ Clones /\ LogsKept /\ Replays
  BY DEF Store
<1>5. st.imm \in Seq(Nat) /\ i \in Ids(st.imm) /\ i \in Nat
  <2>1. st.imm \in Seq(Nat)
    BY <1>4 DEF StoreTyped, State
  <2> QED BY <2>1, FrontOf
<1>6. i \in MemIds /\ i \in DOMAIN mt /\ i \notin Held
  BY <1>4, <1>5 DEF MemIds, Memtables, TablesHeld
<1> HIDE DEF i
<1>7. /\ DOMAIN sst' = DOMAIN sst \cup {i} /\ sst'[i] = mt[i].data
      /\ \A j \in DOMAIN sst : j # i => sst'[j] = sst[j]
      /\ sst' = [j \in DOMAIN sst' |-> sst'[j]]
  BY <1>1 DEF With
<1>8. mt[i].data \in Table /\ \A k \in Key : mt[i].data[k] \in Entry
  BY <1>4, <1>6 DEF StoreTyped, Memtable
<1>9. Entry' = Entry
  BY <1>1 DEF Entry
<1>10. StoreTyped'
  <2>1. (sst \in [DOMAIN sst -> Table])'
    <3>1. \A j \in DOMAIN sst' : sst'[j] \in Table
      BY <1>4, <1>7, <1>8 DEF StoreTyped
    <3> QED BY <1>7, <3>1
  <2>2. (\A j \in DOMAIN sst, k \in Key : sst[j][k] \in Entry)'
    BY <1>4, <1>7, <1>8, <1>9 DEF StoreTyped
  <2>3. (\A d \in Client : at[d] = "append" => loc[d].e \in Entry)'
    BY <1>3, <1>4, <1>9 DEF StoreTyped
  <2> QED BY <1>1, <1>4, <1>9, <2>1, <2>2, <2>3 DEF StoreTyped
<1>11. MemIds' = MemIds
  BY <1>1 DEF MemIds, Ids
<1>12. TablesStay(t, "flush.install", l)
  <2>1. Lands(t, "flush.install", l)
    BY DEF Lands, Working, ClonePlaces
  <2>2. StoreGrows(t, {})
    <3>1. TableIds(st') \subseteq TableIds(st) \cup {} /\ {} \cap Held = {}
      BY <1>1
    <3>2. \A u \in Builders : Outputs(u) \subseteq files'
      BY <1>1, <1>4 DEF Jobs
    <3>3. \A u \in Thread : at[u] \notin Holding
      BY <1>1, LockOf, ThreadsApart
    <3> QED BY <3>1, <3>2, <3>3 DEF StoreGrows, Holding
  <2>3. st.mem <= st.mem /\ nextId \in Nat /\ nextId <= nextId /\ st \in State
    BY <1>4 DEF StoreTyped, State
  <2>4. Held \subseteq DOMAIN sst' /\ TableIds(st) \subseteq files' /\ Held \cap MemIds = {}
    BY <1>1, <1>4, <1>7 DEF TablesHeld
  <2>5. FlushReady(l.id)
    BY <1>1, <1>2, <1>7 DEF FlushReady, i
  <2> QED BY <1>1, <1>11, <2>1, <2>2, <2>3, <2>4, <2>5 DEF TablesStay
<1>13. Held' \subseteq Held /\ TablesApart' /\ TablesHeld' /\ Jobs' /\ TasksFit' /\ InputsLast' /\ Clones'
  BY <1>12, TablesStill
<1>14. Memtables'
  BY <1>1, <1>3, <1>4, <1>11, <1>13 DEF Memtables, Ids
<1>15. LogsKept'
  BY <1>1, <1>3, <1>4, <1>11 DEF LogsKept
<1>16. Replays'
  <2>1. Coming' = Coming
    BY <1>1, ComingOf
  <2>2. Recording' => Recording
    BY <1>1, <1>3 DEF Recording
  <2>3. nextId \in Nat /\ nextId' \in Nat /\ nextId <= nextId'
    BY <1>1, <1>4 DEF StoreTyped
  <2>4. UNCHANGED <<manifest, setting, st>>
    BY <1>1
  <2>5. \A j \in DOMAIN wal \ MemIds : wal'[j] = wal[j]
    BY <1>1
  <2>6. setting.wal /\ DOMAIN wal = Replay.mems \cup Coming => DOMAIN wal' = Replay.mems \cup Coming'
    BY <1>1, <2>1
  <2> QED BY <1>4, <2>2, <2>3, <2>4, <2>5, <2>6, ReplaysStill
<1> QED BY <1>10, <1>13, <1>14, <1>15, <1>16 DEF Store

\* The files of a compaction's inputs go.
LEMMA RemoveStores ==
    ASSUME Control, Store, NEW t \in Thread, RemoveInputs(t)
    PROVE  Store'
<1>1. /\ at[t] = "remove" /\ files' = files \ Taken(t) /\ Goto(t, "idle", NoOp)
      /\ st' = st /\ mt' = mt /\ wal' = wal /\ sst' = sst /\ manifest' = manifest /\ nextId' = nextId
      /\ mode' = mode /\ setting' = setting /\ writes' = writes
  BY DEF RemoveInputs, Taken, controlVars, historyVars
<1>2. /\ at'[t] = "idle" /\ \A d \in Client : d # t => at'[d] = at[d] /\ loc'[d] = loc[d]
  BY <1>1, Moved, ThreadsApart
<1>3. /\ StoreTyped /\ Memtables /\ TablesApart /\ TablesHeld /\ Jobs /\ TasksFit /\ InputsLast
      /\ Clones /\ LogsKept /\ Replays
  BY DEF Store
<1>4. t \in Compacting /\ Taken(t) \subseteq Held
  <2>1. t \in Compacting
    BY <1>1 DEF Compacting
  <2> QED BY <2>1, HeldHas
<1>5. StoreTyped'
  BY <1>1, <1>2, <1>3 DEF StoreTyped, Entry
<1>6. MemIds' = MemIds
  BY <1>1 DEF MemIds, Ids
<1>7. TablesStay(t, "idle", NoOp)
  <2>1. Lands(t, "idle", NoOp)
    BY DEF Lands, Working, ClonePlaces
  <2>2. StoreGrows(t, {})
    <3>1. TableIds(st') \subseteq TableIds(st) \cup {} /\ {} \cap Held = {}
      BY <1>1
    <3>2. \A u \in Builders : Outputs(u) \subseteq files'
      BY <1>1, <1>3, <1>4 DEF Jobs
    <3>3. \A u \in Thread : at[u] = "flush.install" => loc[u].id \in DOMAIN sst \cap files'
      <4>1. ASSUME NEW u \in Thread, at[u] = "flush.install" PROVE loc[u].id \in DOMAIN sst \cap files'
        <5>1. loc[u].id \in DOMAIN sst /\ loc[u].id \in files /\ loc[u].id \notin Held
          BY <4>1, FlushOf
        <5> QED BY <1>1, <1>4, <5>1
      <4> QED BY <4>1
    <3> QED BY <1>1, <3>1, <3>2, <3>3 DEF StoreGrows
  <2>3. st.mem <= st.mem /\ nextId \in Nat /\ nextId <= nextId /\ st \in State
    BY <1>3 DEF StoreTyped, State
  <2>4. Held \subseteq DOMAIN sst /\ Held \cap MemIds = {}
    BY <1>3 DEF TablesHeld
  <2>5. TableIds(st) \subseteq files'
    BY <1>1, <1>3, <1>4 DEF TablesHeld, Jobs
  <2> QED BY <1>1, <1>6, <2>1, <2>2, <2>3, <2>4, <2>5 DEF TablesStay
<1>8. Held' \subseteq Held /\ TablesApart' /\ TablesHeld' /\ Jobs' /\ TasksFit' /\ InputsLast' /\ Clones'
  BY <1>7, TablesStill
<1>9. Memtables'
  BY <1>1, <1>2, <1>3, <1>6, <1>8 DEF Memtables, Ids
<1>10. LogsKept'
  BY <1>1, <1>2, <1>3, <1>6 DEF LogsKept
<1>11. Replays'
  <2>1. Coming' = Coming
    BY <1>1, ComingOf
  <2>2. Recording' => Recording
    BY <1>1, <1>2 DEF Recording
  <2>3. nextId \in Nat /\ nextId' \in Nat /\ nextId <= nextId'
    BY <1>1, <1>3 DEF StoreTyped
  <2>4. UNCHANGED <<manifest, setting, st>>
    BY <1>1
  <2>5. \A j \in DOMAIN wal \ MemIds : wal'[j] = wal[j]
    BY <1>1
  <2>6. setting.wal /\ DOMAIN wal = Replay.mems \cup Coming => DOMAIN wal' = Replay.mems \cup Coming'
    BY <1>1, <2>1
  <2> QED BY <1>3, <2>2, <2>3, <2>4, <2>5, <2>6, ReplaysStill
<1> QED BY <1>5, <1>8, <1>9, <1>10, <1>11 DEF Store

=============================================================================
