-------------------------- MODULE DurabilityProofs --------------------------
(***************************************************************************)
(* Proofs about Durability, for every set of settings: whatever the place  *)
(* at which a crash comes, what it leaves of the logs and the directory,   *)
(* and when sync is called.                                                *)
(*                                                                         *)
(* The inductive invariant says, of a running engine, that the ids in use  *)
(* are distinct and below the next one, that the manifest is the memory's  *)
(* state but for the step the holder of state_lock has taken, that a newer *)
(* memtable or SST holds later batches and that together they hold all of  *)
(* them, and that of every log but the newest everything is safe.  Of an   *)
(* engine that is down it says the same about what the manifest records.   *)
(* A crash leads from the first to the second, open from the second to the *)
(* first.                                                                  *)
(***************************************************************************)
EXTENDS Durability, FiniteSetTheorems, SequenceTheorems,
        WellFoundedInduction, TLAPS

Alive      == status \in {"opening", "up", "closing"}
FlushMid   == lock.at \in {"flush.installed", "flush.wal_removed"}
CompactMid == lock.at \in CompactPositions

\* The part of each log that the crashes of the setting leave.
Safe == IF setting.crash = "power" THEN synced ELSE written

\* The latest batch in a memtable.
Top == IF writer = "idle" THEN ts ELSE ts + 1

Distinct(s) == \A p, q \in 1..Len(s) : s[p] = s[q] => p = q
Above(A, B) == \A a \in A, b \in B : b < a

Listed == Ids(imm) \cup Ids(l0) \cup Ids(l1)

Position   == [at : Positions, id : Id]
Compaction == [at : {"idle", "merging", "merged", "removing"}, l0 : Seq(Id), l1 : Seq(Id),
               out : Id, remove : Seq(Id)]
Manifest   == [l0 : Seq(Id), l1 : Seq(Id), mems : SUBSET Id, maxId : Id, ok : BOOLEAN]
Content    == [Id -> SUBSET (1..MaxBatches)]

\* What TypeOK says, without the lengths of the sequences.
Typed ==
    /\ files \subseteq Name /\ durable \subseteq Name
    /\ manifest \in Manifest
    /\ data \in Content /\ written \in Content /\ synced \in Content /\ sst \in Content
    /\ torn \subseteq Id
    /\ status \in {"down", "opening", "up", "closing", "failed"}
    /\ mem \in Id /\ imm \in Seq(Id) /\ l0 \in Seq(Id) /\ l1 \in Seq(Id)
    /\ nextId \in 1..MaxId + 1
    /\ ts \in 0..MaxBatches
    /\ lock \in Position
    /\ writer \in {"idle", "inserted", "freezing", "frozen"}
    /\ compaction \in Compaction
    /\ promised \in 0..MaxBatches
    /\ setting \in Settings
    /\ crashes \in 0..setting.crashes

\* Which of the threads can be where in each phase of the engine's life.
Phases ==
    /\ ~Alive => /\ mem = 0 /\ imm = <<>> /\ l0 = <<>> /\ l1 = <<>>
                 /\ nextId = 1 /\ ts = 0
                 /\ lock = NoLock /\ writer = "idle" /\ compaction = NoCompaction
    /\ status = "opening" <=> lock.at \in OpenPositions
    /\ status = "opening" => writer = "idle" /\ compaction.at = "idle"
    /\ status = "closing" => /\ ~EnableWal
                             /\ lock.at \in {"free"} \cup FlushPositions
                             /\ writer = "idle" /\ compaction.at = "idle"
                             /\ manifest.maxId < MaxId
    /\ writer # "idle" => ts < MaxBatches

\* No id is used twice, memtables are numbered in the order of their creation,
\* and the next id is above all.
IdsFresh ==
    /\ \A p, q \in 1..Len(imm) : p < q => imm[q] < imm[p]
    /\ \A i \in Ids(imm) : i < mem
    /\ Distinct(l0) /\ Len(l1) <= 1
    /\ mem \notin Listed
    /\ Ids(imm) \cap (Ids(l0) \cup Ids(l1)) = {}
    /\ Ids(l0) \cap Ids(l1) = {}
    /\ \A i \in Listed : i < nextId
    /\ mem < nextId \/ lock.at = "open.created"

\* What the position of state_lock's holder says of the id it works on.
Holding ==
    /\ lock.at = "freeze.created" =>
          /\ mem < lock.id /\ lock.id < nextId
          /\ lock.id \notin Listed \cup manifest.mems
          /\ data[lock.id] = {} /\ data[mem] # {}
    /\ lock.at \in FreezePositions \ {"freeze.created"} => lock.id = mem
    /\ lock.at = "freeze.swapped" => imm # <<>> /\ mem \notin manifest.mems
    /\ lock.at = "flush.built" =>
          imm # <<>> /\ lock.id = Last(imm) /\ sst[lock.id] = data[lock.id]
    /\ lock.at \in FlushPositions \ {"flush.built"} => l0 # <<>> /\ lock.id = l0[1]
    /\ FlushMid => /\ sst[lock.id] = data[lock.id] /\ lock.id < mem
                   /\ \A i \in Ids(imm) : lock.id < i
    /\ CompactMid => /\ compaction.at = "merged"
                     /\ lock.id = compaction.out
                     /\ l1 = <<compaction.out>>
    /\ lock.at \in OpenPositions => /\ lock.id = mem
                                    /\ data[mem] = {}
                                    /\ \A i \in Listed : i < mem
                                    /\ nextId <= mem + 1
    /\ lock.at = "open.fresh" => mem = 0 /\ imm = <<>> /\ l0 = <<>> /\ l1 = <<>>

\* The inputs of a compaction stay the oldest tables of L0, and level 1; its
\* output is a table of its own with their batches.
Compacting ==
    /\ Distinct(compaction.l0) /\ Len(compaction.l1) <= 1 /\ Distinct(compaction.remove)
    /\ Ids(compaction.l0) \cap Ids(compaction.l1) = {}
    /\ compaction.at \in {"merging", "merged"} /\ ~CompactMid =>
          /\ compaction.l1 = l1
          /\ Len(compaction.l0) <= Len(l0)
          /\ \A p \in 1..Len(compaction.l0) :
                compaction.l0[p] = l0[Len(l0) - Len(compaction.l0) + p]
    /\ compaction.at = "merged" =>
          /\ compaction.out < nextId /\ compaction.out # mem
          /\ compaction.out \notin Ids(imm) \cup Ids(l0) \cup manifest.mems
          /\ compaction.out \notin Ids(compaction.l0) \cup Ids(compaction.l1)
          /\ lock.at = "freeze.created" => lock.id # compaction.out
          /\ sst[compaction.out] =
                Batches(sst, Ids(compaction.l0) \cup Ids(compaction.l1))
    /\ compaction.at = "removing" => Ids(compaction.remove) \cap Ids(l1) = {}

\* The manifest names no id twice.
ManifestShape ==
    /\ Distinct(manifest.l0) /\ Len(manifest.l1) <= 1
    /\ Ids(manifest.l0) \cap Ids(manifest.l1) = {}
    /\ manifest.mems \cap RecordedSsts = {}
    /\ \A i \in manifest.mems \cup RecordedSsts : i <= manifest.maxId

\* The manifest records what is in memory, up to the step under way.
Recording ==
    Alive /\ lock.at # "open.fresh" =>
        /\ manifest.ok
        /\ IF FlushMid THEN l0 = <<lock.id>> \o manifest.l0
           ELSE manifest.l0 = IF CompactMid THEN l0 \o compaction.l0 ELSE l0
        /\ manifest.l1 = IF CompactMid THEN compaction.l1 ELSE l1
        /\ Ids(imm) \subseteq manifest.mems
        /\ FlushMid => lock.id \in manifest.mems
        /\ \/ mem \in manifest.mems
           \/ lock.at \in {"freeze.swapped", "freeze.synced", "open.created"}
           \/ status = "closing"
        /\ EnableWal => \A i \in manifest.mems : data[i] # {} =>
              i = mem \/ i \in Ids(imm) \/ (FlushMid /\ i = lock.id)
        /\ \A i \in manifest.mems : i < nextId

\* Newer sources hold later batches, and together they hold every batch.
Holdings ==
    Alive =>
        /\ Readable = 1..Top
        /\ \A i \in Ids(imm) : data[i] # {} /\ Above(data[mem], data[i])
        /\ \A p, q \in 1..Len(imm) : p < q => Above(data[imm[p]], data[imm[q]])
        /\ \A k \in Ids(l0) \cup Ids(l1) :
              /\ Above(data[mem], sst[k])
              /\ \A i \in Ids(imm) : Above(data[i], sst[k])
        /\ \A p, q \in 1..Len(l0) : p < q => Above(sst[l0[p]], sst[l0[q]])
        /\ \A i \in Ids(l0), k \in Ids(l1) : Above(sst[i], sst[k])

\* While the manifest still records the inputs of a compaction, they are in order.
Inputs ==
    CompactMid =>
        /\ \A p, q \in 1..Len(compaction.l0) :
              p < q => Above(sst[compaction.l0[p]], sst[compaction.l0[q]])
        /\ \A i \in Ids(compaction.l0), k \in Ids(compaction.l1) : Above(sst[i], sst[k])

\* What is safe of a log is a prefix of it; of a frozen memtable's log it is all.
Logs ==
    EnableWal =>
        /\ \A i \in Id : /\ Safe[i] \subseteq data[i]
                         /\ \A a \in data[i], b \in Safe[i] : a < b => a \in Safe[i]
        /\ \A p \in 1..Len(imm) :
              Safe[imm[p]] = data[imm[p]] \/ (p = 1 /\ lock.at = "freeze.swapped")
        /\ FlushMid => Safe[lock.id] = data[lock.id]

\* The batches the manifest's files hold.
RecordedBatches ==
    Batches(sst, RecordedSsts) \cup (IF EnableWal THEN Batches(data, manifest.mems) ELSE {})

\* What the manifest records is in order and without a gap, and only the newest
\* of its logs can be unsafe.
Recorded ==
    /\ manifest.ok
    /\ \E n \in 0..MaxBatches : RecordedBatches = 1..n
    /\ EnableWal =>
          /\ \A i, j \in manifest.mems : j < i => Above(data[i], data[j])
          /\ \A i \in manifest.mems, k \in RecordedSsts : Above(data[i], sst[k])
          /\ \A i, j \in manifest.mems : j < i /\ data[i] # {} => Safe[j] = data[j]
    /\ \A p, q \in 1..Len(manifest.l0) :
          p < q => Above(sst[manifest.l0[p]], sst[manifest.l0[q]])
    /\ \A i \in Ids(manifest.l0), k \in Ids(manifest.l1) : Above(sst[i], sst[k])

\* What open will find.
OnDisk ==
    ~Alive /\ ManifestFile \in files =>
        /\ Recorded
        /\ manifest.maxId < MaxId
        /\ EnableWal => \A i \in manifest.mems : Safe[i] = data[i]

\* The names that have to be in the directory.
Directory ==
    /\ ManifestFile \in durable => ManifestFile \in files
    /\ lock.at = "open.fresh" => ManifestFile \notin files
    /\ compaction.at = "merged" => Sst(compaction.out) \in files
    /\ lock.at = "compact.dir_synced" => Sst(compaction.out) \in durable
    /\ CompactedFilesDurable

IInv ==
    /\ Typed /\ Phases /\ IdsFresh /\ Holding /\ Compacting
    /\ ManifestShape /\ Recording /\ Holdings /\ Inputs /\ Logs /\ OnDisk /\ Directory

-----------------------------------------------------------------------------
(* Sets of numbers and sequences of ids.                                   *)

\* InOrder enumerates a finite set of numbers, each once, the smallest first.
LEMMA InOrderEnumerates ==
    ASSUME NEW S \in SUBSET Nat, IsFiniteSet(S)
    PROVE  /\ InOrder(S) \in Seq(S)
           /\ Len(InOrder(S)) = Cardinality(S)
           /\ Ids(InOrder(S)) = S
           /\ \A p, q \in 1..Len(InOrder(S)) : p < q => InOrder(S)[p] < InOrder(S)[q]
<1> DEFINE N == Cardinality(S)
           upto(i) == {j \in S : j <= i}
           rank == [i \in S |-> Cardinality(upto(i))]
           nth(n) == CHOOSE i \in S : Cardinality(upto(i)) = n
<1>1. N \in Nat
  BY FS_CardinalityType
<1>2. ASSUME NEW i \in S
      PROVE  IsFiniteSet(upto(i)) /\ rank[i] \in 1..N
  <2>1. IsFiniteSet(upto(i)) /\ Cardinality(upto(i)) <= N
    BY FS_Subset
  <2>2. upto(i) # {}
    OBVIOUS
  <2>3. Cardinality(upto(i)) \in Nat /\ Cardinality(upto(i)) # 0
    BY <2>1, <2>2, FS_CardinalityType, FS_EmptySet
  <2> QED BY <1>1, <2>1, <2>3
<1>3. ASSUME NEW i \in S, NEW k \in S, i < k
      PROVE  rank[i] < rank[k]
  <2>1. upto(i) \subseteq upto(k) /\ k \in upto(k) /\ k \notin upto(i)
    <3>1. i \in Nat /\ k \in Nat /\ \A j \in S : j \in Nat
      OBVIOUS
    <3>2. \A j \in S : j <= i => j <= k
      BY <1>3, <3>1
    <3>3. ~(k <= i) /\ k <= k
      BY <1>3, <3>1
    <3> QED BY <3>2, <3>3
  <2>2. Cardinality(upto(i)) <= Cardinality(upto(k))
        /\ (Cardinality(upto(k)) = Cardinality(upto(i)) => upto(i) = upto(k))
    BY <1>2, <2>1, FS_Subset
  <2> QED BY <1>2, <2>1, <2>2
<1>4. rank \in Injection(S, 1..N)
  <2>1. rank \in [S -> 1..N]
    BY <1>2
  <2>2. ASSUME NEW i \in S, NEW k \in S, rank[i] = rank[k] PROVE i = k
    <3>1. i \in Nat /\ k \in Nat /\ rank[i] \in Nat
      BY <1>2
    <3>2. ~(i < k) /\ ~(k < i)
      BY <1>2, <1>3, <2>2
    <3> QED BY <3>1, <3>2
  <2> QED BY <2>1, <2>2 DEF Injection, IsInjective
<1>5. IsFiniteSet(1..N) /\ Cardinality(1..N) = N
  BY <1>1, FS_Interval
<1>6. rank \in Surjection(S, 1..N)
  BY <1>4, <1>5, FS_Injection
<1>7. ASSUME NEW n \in 1..N
      PROVE  nth(n) \in S /\ rank[nth(n)] = n
  <2>1. \E i \in S : rank[i] = n
    BY <1>6 DEF Surjection
  <2>2. \E i \in S : Cardinality(upto(i)) = n
    BY <2>1
  <2> QED BY <2>2
<1>8. InOrder(S) = [n \in 1..N |-> nth(n)]
  BY DEF InOrder
<1>9. InOrder(S) \in [1..N -> S]
  <2>1. \A n \in 1..N : nth(n) \in S
    BY <1>7
  <2> HIDE DEF nth, N
  <2> QED BY <1>8, <2>1
<1>10. InOrder(S) \in Seq(S) /\ Len(InOrder(S)) = N
  BY <1>1, <1>9
<1>11. ASSUME NEW i \in S PROVE \E n \in 1..N : InOrder(S)[n] = i
  <2>1. rank[i] \in 1..N /\ rank[nth(rank[i])] = rank[i] /\ nth(rank[i]) \in S
    BY <1>2, <1>7
  <2>2. nth(rank[i]) = i
    BY <1>4, <2>1 DEF Injection, IsInjective
  <2> QED BY <1>8, <2>1, <2>2
<1>12. Ids(InOrder(S)) = S
  BY <1>9, <1>10, <1>11 DEF Ids
<1>13. ASSUME NEW p \in 1..N, NEW q \in 1..N, p < q
       PROVE  InOrder(S)[p] < InOrder(S)[q]
  <2>1. /\ nth(p) \in S /\ rank[nth(p)] = p
        /\ nth(q) \in S /\ rank[nth(q)] = q
    BY <1>7
  <2>2. \A i \in S, k \in S : i < k => rank[i] < rank[k]
    BY <1>3
  <2>3. InOrder(S)[p] = nth(p) /\ InOrder(S)[q] = nth(q)
    BY <1>8
  <2> HIDE DEF nth, rank, N
  <2>4. nth(p) \in Nat /\ nth(q) \in Nat
    BY <2>1
  <2>5. p \in Nat /\ q \in Nat
    BY <1>1
  <2>6. ~(nth(q) < nth(p)) /\ nth(q) # nth(p)
    <3>1. ASSUME nth(q) < nth(p) PROVE FALSE
      <4>1. rank[nth(q)] < rank[nth(p)]
        BY <2>1, <2>2, <3>1
      <4> QED BY <1>13, <2>1, <2>5, <4>1
    <3>2. p # q
      BY <1>13, <2>5
    <3> QED BY <2>1, <3>1, <3>2
  <2>7. nth(p) < nth(q)
    BY <2>4, <2>6
  <2> QED BY <2>3, <2>7
<1> QED BY <1>10, <1>12, <1>13

\* Taking the tail of a sequence without repetitions out leaves the front.
LEMMA WithoutTail ==
    ASSUME NEW u \in Seq(Id), NEW t \in Seq(Id), Distinct(u \o t)
    PROVE  Without(u \o t, t) = u
<1> DEFINE s == u \o t
           kept == {i \in 1..Len(s) : s[i] \notin Ids(t)}
           m == Len(u)
<1>1. /\ s \in Seq(Id) /\ m \in Nat /\ Len(t) \in Nat /\ Len(s) = m + Len(t)
      /\ \A i \in 1..m : s[i] = u[i]
      /\ \A i \in 1..Len(t) : s[m + i] = t[i]
  OBVIOUS
<1>2. kept = 1..m
  <2>1. ASSUME NEW i \in 1..m PROVE i \in kept
    <3>1. ASSUME NEW j \in 1..Len(t), t[j] = s[i] PROVE FALSE
      <4>1. s[m + j] = s[i] /\ m + j \in 1..Len(s) /\ i \in 1..Len(s) /\ m + j # i
        BY <1>1, <3>1
      <4> QED BY <4>1 DEF Distinct
    <3> QED BY <1>1, <3>1 DEF Ids
  <2>2. ASSUME NEW i \in kept PROVE i \in 1..m
    <3>1. ASSUME i > m PROVE FALSE
      <4>1. i - m \in 1..Len(t) /\ s[i] = t[i - m]
        BY <1>1, <3>1
      <4> QED BY <4>1 DEF Ids
    <3> QED BY <1>1, <3>1
  <2> QED BY <2>1, <2>2
<1>3. InOrder(1..m) = [n \in 1..m |-> n]
  <2>1. Cardinality(1..m) = m
    <3>1. Cardinality(1..m) = IF 1 > m THEN 0 ELSE m - 1 + 1
      BY <1>1, FS_Interval, 1 \in Int, m \in Int
    <3> QED BY <1>1, <3>1
  <2>2. ASSUME NEW i \in 1..m PROVE Cardinality({j \in 1..m : j <= i}) = i
    <3>1. {j \in 1..m : j <= i} = 1..i
      BY <1>1
    <3>2. Cardinality(1..i) = i
      BY <1>1, FS_Interval
    <3> QED BY <3>1, <3>2
  <2>3. ASSUME NEW n \in 1..m
        PROVE  (CHOOSE i \in 1..m : Cardinality({j \in 1..m : j <= i}) = n) = n
    BY <2>2
  <2> QED BY <2>1, <2>3 DEF InOrder
<1>4. Without(s, t) = [n \in 1..m |-> s[n]]
  <2>1. Without(s, t) = [n \in DOMAIN InOrder(kept) |-> s[InOrder(kept)[n]]]
    BY DEF Without
  <2>2. InOrder(kept) = [n \in 1..m |-> n]
    BY <1>2, <1>3
  <2>3. DOMAIN InOrder(kept) = 1..m /\ \A n \in 1..m : InOrder(kept)[n] = n
    BY <2>2
  <2> HIDE DEF kept, s
  <2> QED BY <2>1, <2>3
<1>5. u = [n \in 1..m |-> u[n]]
  BY <1>1
<1> QED BY <1>1, <1>4, <1>5

\* The ids of a sequence are those of its pieces.
LEMMA IdsOf ==
    /\ Ids(<<>>) = {}
    /\ \A i \in Id : Ids(<<i>>) = {i}
    /\ \A s, t \in Seq(Id) : Ids(s \o t) = Ids(s) \cup Ids(t)
    /\ \A s \in Seq(Id) : Ids(s) \subseteq Id
<1>1. ASSUME NEW s \in Seq(Id), NEW t \in Seq(Id) PROVE Ids(s \o t) = Ids(s) \cup Ids(t)
  <2>1. Len(s) \in Nat /\ Len(t) \in Nat /\ Len(s \o t) = Len(s) + Len(t)
    OBVIOUS
  <2>2. \A i \in 1..Len(s) : (s \o t)[i] = s[i] /\ i \in 1..Len(s \o t)
    BY <2>1
  <2>3. \A i \in 1..Len(t) : (s \o t)[Len(s) + i] = t[i] /\ Len(s) + i \in 1..Len(s \o t)
    BY <2>1
  <2>4. \A i \in 1..Len(s \o t) : \/ i \in 1..Len(s) /\ (s \o t)[i] = s[i]
                                  \/ i - Len(s) \in 1..Len(t) /\ (s \o t)[i] = t[i - Len(s)]
    BY <2>1
  <2>5. Ids(s \o t) \subseteq Ids(s) \cup Ids(t)
    BY <2>4 DEF Ids
  <2>6. Ids(s) \subseteq Ids(s \o t) /\ Ids(t) \subseteq Ids(s \o t)
    BY <2>2, <2>3 DEF Ids
  <2> QED BY <2>5, <2>6
<1>2. Ids(<<>>) = {}
  BY DEF Ids
<1>3. \A i \in Id : Ids(<<i>>) = {i}
  BY DEF Ids
<1>4. \A s \in Seq(Id) : Ids(s) \subseteq Id
  BY DEF Ids
<1> QED BY <1>1, <1>2, <1>3, <1>4

\* A sequence with an element in front.
LEMMA Prepended ==
    ASSUME NEW i \in Id, NEW s \in Seq(Id)
    PROVE  /\ <<i>> \o s \in Seq(Id)
           /\ Len(<<i>> \o s) = Len(s) + 1
           /\ (<<i>> \o s)[1] = i
           /\ \A p \in 1..Len(s) : (<<i>> \o s)[p + 1] = s[p]
           /\ \A p \in 2..Len(s) + 1 : (<<i>> \o s)[p] = s[p - 1]
           /\ Ids(<<i>> \o s) = {i} \cup Ids(s)
<1>1. Ids(<<i>> \o s) = {i} \cup Ids(s)
  BY IdsOf, <<i>> \in Seq(Id)
<1> QED BY <1>1

\* A sequence without its last element.
LEMMA FrontOf ==
    ASSUME NEW s \in Seq(Id), s # <<>>
    PROVE  /\ Front(s) \in Seq(Id) /\ Len(Front(s)) = Len(s) - 1
           /\ Len(s) \in Nat \ {0}
           /\ \A p \in 1..Len(s) - 1 : Front(s)[p] = s[p]
           /\ Last(s) = s[Len(s)] /\ Last(s) \in Ids(s)
           /\ Ids(s) = Ids(Front(s)) \cup {Last(s)}
<1>1. Len(s) \in Nat \ {0}
  OBVIOUS
<1>2. /\ Front(s) \in Seq(Id) /\ Len(Front(s)) = Len(s) - 1
      /\ \A p \in 1..Len(s) - 1 : Front(s)[p] = s[p]
  <2> DEFINE m == Len(s) - 1
  <2>1. m \in Int /\ 1 \in Int /\ \A p \in 1..m : s[p] \in Id
    BY <1>1
  <2>2. /\ SubSeq(s, 1, m) \in Seq(Id)
        /\ Len(SubSeq(s, 1, m)) = IF 1 <= m THEN m - 1 + 1 ELSE 0
        /\ \A p \in 1..m - 1 + 1 : SubSeq(s, 1, m)[p] = s[1 + p - 1]
    BY <2>1, SubSeqProperties
  <2>3. m \in Nat /\ m - 1 + 1 = m /\ \A p \in 1..m : 1 + p - 1 = p
    BY <1>1
  <2>4. Len(SubSeq(s, 1, m)) = m /\ \A p \in 1..m : SubSeq(s, 1, m)[p] = s[p]
    BY <2>2, <2>3
  <2> QED BY <2>2, <2>4 DEF Front
<1>3. Ids(s) = Ids(Front(s)) \cup {s[Len(s)]}
  <2>1. \A p \in 1..Len(s) : p \in 1..Len(Front(s)) \/ p = Len(s)
    BY <1>1, <1>2
  <2>2. \A p \in 1..Len(Front(s)) : p \in 1..Len(s) /\ Front(s)[p] = s[p]
    BY <1>1, <1>2
  <2>3. Len(s) \in 1..Len(s)
    BY <1>1
  <2>4. Ids(s) \subseteq Ids(Front(s)) \cup {s[Len(s)]}
    BY <2>1, <2>2 DEF Ids
  <2>5. Ids(Front(s)) \subseteq Ids(s) /\ s[Len(s)] \in Ids(s)
    BY <2>2, <2>3 DEF Ids
  <2> QED BY <2>4, <2>5
<1> QED BY <1>1, <1>2, <1>3 DEF Last

\* A sequence of ids without repetitions is no longer than there are ids.
LEMMA DistinctIsShort ==
    ASSUME NEW s \in Seq(Id), Distinct(s)
    PROVE  IdSeq(s)
<1>1. MaxId \in Nat /\ Len(s) \in Nat
  BY DurabilityAssumption
<1>2. s \in Injection(1..Len(s), Id)
  BY DEF Distinct, Injection, IsInjective
<1>3. IsFiniteSet(Id) /\ Cardinality(Id) = MaxId + 1
  <2>1. /\ IsFiniteSet(0..MaxId)
        /\ Cardinality(0..MaxId) = IF 0 > MaxId THEN 0 ELSE MaxId - 0 + 1
    BY <1>1, FS_Interval, 0 \in Int, MaxId \in Int
  <2> QED BY <1>1, <2>1 DEF Id
<1>4. Cardinality(1..Len(s)) <= Cardinality(Id)
  BY <1>2, <1>3, FS_Injection
<1>5. Cardinality(1..Len(s)) = Len(s)
  <2>1. Cardinality(1..Len(s)) = IF 1 > Len(s) THEN 0 ELSE Len(s) - 1 + 1
    BY <1>1, FS_Interval, 1 \in Int, Len(s) \in Int
  <2> QED BY <1>1, <2>1
<1> QED BY <1>3, <1>4, <1>5, IdsOf DEF IdSeq

\* The batches of a union of sets of ids, and of sets an update does not touch.
LEMMA BatchesOf ==
    ASSUME NEW f
    PROVE  /\ \A A, B : Batches(f, A \cup B) = Batches(f, A) \cup Batches(f, B)
           /\ \A i : Batches(f, {i}) = f[i]
           /\ Batches(f, {}) = {}
           /\ \A A : \A b : b \in Batches(f, A) <=> \E i \in A : b \in f[i]
  BY DEF Batches

\* Tables and logs that hold the same batches hold the same together.
LEMMA BatchesSame ==
    ASSUME NEW f, NEW g, NEW A, \A i \in A : f[i] = g[i]
    PROVE  Batches(f, A) = Batches(g, A)
  BY DEF Batches

\* The latest of a gapless set of batches.
LEMMA LatestOfGapless ==
    ASSUME NEW n \in Nat
    PROVE  LatestOf(1..n) = n
<1>1. CASE n = 0
  BY <1>1 DEF LatestOf
<1>2. CASE n # 0
  <2>1. n \in 1..n /\ \A a \in 1..n : a <= n
    BY <1>2
  <2>2. \A b \in 1..n : (\A a \in 1..n : a <= b) => b = n
    BY <2>1
  <2>3. LatestOf(1..n) = CHOOSE b \in 1..n : \A a \in 1..n : a <= b
    BY <2>1 DEF LatestOf
  <2> QED BY <2>1, <2>2, <2>3
<1> QED BY <1>1, <1>2

\* The fields of the records, one by one.
LEMMA Fields ==
    ASSUME Typed
    PROVE  /\ manifest.l0 \in Seq(Id) /\ manifest.l1 \in Seq(Id)
           /\ manifest.mems \subseteq Id /\ manifest.maxId \in Id
           /\ manifest.ok \in BOOLEAN
           /\ compaction.l0 \in Seq(Id) /\ compaction.l1 \in Seq(Id)
           /\ compaction.remove \in Seq(Id) /\ compaction.out \in Id
           /\ lock.id \in Id /\ lock.at \in Positions
           /\ imm \in Seq(Id) /\ l0 \in Seq(Id) /\ l1 \in Seq(Id)
           /\ MaxId \in Nat \ {0} /\ MaxBatches \in Nat
           /\ Id = 0..MaxId /\ mem \in Id /\ nextId \in 1..MaxId + 1
  BY DurabilityAssumption DEF Typed, Manifest, Compaction, Position, Id

\* Until its output is installed, the inputs of a compaction are the last in L0.
LEMMA InputsLast ==
    ASSUME IInv, compaction.at = "merged", ~CompactMid
    PROVE  \E u \in Seq(Id) : l0 = u \o compaction.l0 /\ Without(l0, compaction.l0) = u
<1> DEFINE n == Len(l0) - Len(compaction.l0)
           u == [p \in 1..n |-> l0[p]]
<1>1. l0 \in Seq(Id) /\ compaction.l0 \in Seq(Id)
  BY Fields DEF IInv
<1>2. /\ Len(compaction.l0) <= Len(l0)
      /\ \A p \in 1..Len(compaction.l0) : compaction.l0[p] = l0[n + p]
      /\ Distinct(l0)
  BY DEF IInv, Compacting, IdsFresh
<1>3. n \in Nat
  BY <1>1, <1>2
<1>4. \A p \in 1..n : l0[p] \in Id
  BY <1>1, <1>2
<1>5. u \in Seq(Id) /\ Len(u) = n
  BY <1>3, <1>4
<1>6. l0 = u \o compaction.l0
  <2> DEFINE c == u \o compaction.l0
  <2>1. Len(compaction.l0) \in Nat /\ Len(l0) \in Nat /\ \A p \in 1..n : u[p] = l0[p]
    BY <1>1
  <2>2. /\ c \in Seq(Id) /\ Len(c) = n + Len(compaction.l0)
        /\ \A p \in 1..n + Len(compaction.l0) :
              c[p] = IF p <= n THEN u[p] ELSE compaction.l0[p - n]
    <3> HIDE DEF u, n
    <3> QED BY <1>1, <1>5, ConcatProperties
  <2>3. Len(c) = Len(l0) /\ n + Len(compaction.l0) = Len(l0)
    <3> HIDE DEF c
    <3> QED BY <2>1, <2>2
  <2>4. ASSUME NEW p \in 1..Len(l0) PROVE c[p] = l0[p]
    <3>1. CASE p <= n
      BY <1>3, <2>1, <2>2, <2>3, <3>1
    <3>2. CASE p > n
      <4>1. p - n \in 1..Len(compaction.l0) /\ n + (p - n) = p
        <5> HIDE DEF n
        <5> QED BY <1>3, <2>1, <2>3, <3>2
      <4>2. c[p] = compaction.l0[p - n]
        BY <1>3, <2>2, <2>3, <3>2
      <4> QED BY <1>2, <4>1, <4>2
    <3> QED BY <1>3, <3>1, <3>2
  <2> HIDE DEF c, u, n
  <2> QED BY <1>1, <2>2, <2>3, <2>4, SeqEqual DEF c
<1>7. Without(u \o compaction.l0, compaction.l0) = u
  BY <1>1, <1>2, <1>5, <1>6, WithoutTail
<1> QED BY <1>5, <1>6, <1>7

\* In the record they are the last in L0 until the record of the compaction.
LEMMA InputsLastRecorded ==
    ASSUME IInv, CompactMid
    PROVE  /\ manifest.l0 = l0 \o compaction.l0
           /\ manifest.l1 = compaction.l1
           /\ Without(manifest.l0, compaction.l0) = l0
           /\ status = "up"
<1>1. l0 \in Seq(Id) /\ compaction.l0 \in Seq(Id)
  BY Fields DEF IInv
<1>2. Alive /\ status = "up"
  BY DEF IInv, Typed, Phases, CompactMid, Alive, NoLock, CompactPositions, FlushPositions,
         OpenPositions
<1>3. lock.at # "open.fresh" /\ ~FlushMid
  BY DEF CompactMid, FlushMid, CompactPositions
<1>4. manifest.l0 = l0 \o compaction.l0 /\ manifest.l1 = compaction.l1
  BY <1>2, <1>3 DEF IInv, Recording
<1>5. Distinct(manifest.l0)
  BY DEF IInv, ManifestShape
<1> QED BY <1>1, <1>2, <1>4, <1>5, WithoutTail

\* What open rebuilds from a manifest that can be recovered.
LEMMA RecoverFinds ==
    ASSUME IInv, status = "down", ManifestFile \in files, Recoverable
    PROVE  /\ RecoveredMemtables \in Seq(Id)
           /\ Ids(RecoveredMemtables) =
                 (IF EnableWal THEN {i \in manifest.mems : data[i] # {}} ELSE {})
           /\ \A p, q \in 1..Len(RecoveredMemtables) :
                 p < q => RecoveredMemtables[q] < RecoveredMemtables[p]
           /\ Recovered = 1..LatestOf(Recovered)
           /\ LatestOf(Recovered) \in 0..MaxBatches
           /\ Recorded /\ manifest.maxId < MaxId /\ manifest.maxId + 1 \in Id
<1>1. /\ Recorded /\ manifest.maxId < MaxId
  BY DEF IInv, OnDisk, Alive
<1>2. manifest.maxId + 1 \in Id
  <2>1. Typed
    BY DEF IInv
  <2>2. manifest.maxId \in Id /\ Id = 0..MaxId /\ MaxId \in Nat
    BY <2>1, Fields
  <2> QED BY <1>1, <2>2
<1>3. Recovered = RecordedBatches
  BY DEF Recovered, RecordedBatches
<1>4. PICK n \in 0..MaxBatches : Recovered = 1..n
  BY <1>1, <1>3 DEF Recorded
<1>5. LatestOf(Recovered) = n
  BY <1>4, LatestOfGapless, n \in Nat
<1> DEFINE S == {i \in manifest.mems : data[i] # {}}
           o == InOrder(S)
           r == RecoveredMemtables
<1>6. CASE ~EnableWal
  <2>1. r = <<>>
    BY <1>6 DEF RecoveredMemtables
  <2>2. Ids(r) = {} /\ r \in Seq(Id) /\ Len(r) = 0
    BY <2>1, IdsOf
  <2> QED BY <1>1, <1>2, <1>4, <1>5, <1>6, <2>2
<1>7. CASE EnableWal
  <2>1. S \in SUBSET Nat /\ S \subseteq Id /\ IsFiniteSet(S)
    <3>0. Id = 0..MaxId /\ MaxId \in Nat /\ manifest.mems \subseteq Id
      BY Fields DEF IInv
    <3>1. S \subseteq Id /\ Id \subseteq Nat /\ \A i \in S : i <= MaxId
      BY <3>0
    <3>2. IsFiniteSet(S)
      BY <3>0, <3>1, FS_BoundedSetOfNaturals
    <3> QED BY <3>1, <3>2
  <2>2. /\ o \in Seq(S) /\ Ids(o) = S
        /\ \A p, q \in 1..Len(o) : p < q => o[p] < o[q]
    BY <2>1, InOrderEnumerates
  <2>3. r = Reverse(o)
    BY <1>7 DEF RecoveredMemtables
  <2> DEFINE m == Len(o)
  <2>4. m \in Nat /\ \A p \in 1..m : m - p + 1 \in 1..m /\ m - (m - p + 1) + 1 = p
    BY <2>2
  <2>5. r = [p \in 1..m |-> o[m - p + 1]]
    BY <2>3 DEF Reverse
  <2>6. r \in Seq(Id) /\ Len(r) = m /\ \A p \in 1..m : r[p] = o[m - p + 1]
    <3>1. \A p \in 1..m : o[p] \in Id
      <4> HIDE DEF o, S
      <4>1. \A p \in 1..m : o[p] \in S
        BY <2>2, ElementOfSeq
      <4> QED BY <2>1, <4>1
    <3>2. \A p \in 1..m : o[m - p + 1] \in Id
      BY <2>4, <3>1
    <3> HIDE DEF o, S, r
    <3> QED BY <2>4, <2>5, <3>2
  <2>7. Ids(r) = Ids(o)
    <3> HIDE DEF o, r
    <3>1. \A p \in 1..m : o[p] = r[m - p + 1]
      BY <2>4, <2>6
    <3>2. Ids(o) = {o[p] : p \in 1..m} /\ Ids(r) = {r[p] : p \in 1..m}
      BY <2>6 DEF Ids
    <3>3. Ids(o) \subseteq Ids(r)
      BY <2>4, <3>1, <3>2
    <3>4. Ids(r) \subseteq Ids(o)
      BY <2>4, <2>6, <3>2
    <3> QED BY <3>3, <3>4
  <2>8. ASSUME NEW p \in 1..m, NEW q \in 1..m, p < q PROVE r[q] < r[p]
    <3>1. m - q + 1 < m - p + 1
      BY <2>4, <2>8
    <3> QED BY <2>2, <2>4, <2>6, <3>1
  <2> QED BY <1>1, <1>2, <1>4, <1>5, <1>7, <2>2, <2>6, <2>7, <2>8
<1> QED BY <1>6, <1>7

\* Every step keeps the variables in their types.
LEMMA TypedStep ==
    ASSUME IInv, Next
    PROVE  Typed'
<1> USE DEF vars, diskVars, memoryVars, levelVars, threadVars
<1>t1. files \subseteq Name
  BY DEF IInv, Typed
<1>t2. durable \subseteq Name
  BY DEF IInv, Typed
<1>t3. manifest \in Manifest
  BY DEF IInv, Typed
<1>t4. data \in Content
  BY DEF IInv, Typed
<1>t5. written \in Content
  BY DEF IInv, Typed
<1>t6. synced \in Content
  BY DEF IInv, Typed
<1>t7. torn \subseteq Id
  BY DEF IInv, Typed
<1>t8. sst \in Content
  BY DEF IInv, Typed
<1>t9. status \in {"down", "opening", "up", "closing", "failed"}
  BY DEF IInv, Typed
<1>t10. mem \in Id
  BY DEF IInv, Typed
<1>t11. imm \in Seq(Id)
  BY DEF IInv, Typed
<1>t12. l0 \in Seq(Id)
  BY DEF IInv, Typed
<1>t13. l1 \in Seq(Id)
  BY DEF IInv, Typed
<1>t14. nextId \in 1..MaxId + 1
  BY DEF IInv, Typed
<1>t15. ts \in 0..MaxBatches
  BY DEF IInv, Typed
<1>t16. lock \in Position
  BY DEF IInv, Typed
<1>t17. writer \in {"idle", "inserted", "freezing", "frozen"}
  BY DEF IInv, Typed
<1>t18. compaction \in Compaction
  BY DEF IInv, Typed
<1>t19. promised \in 0..MaxBatches
  BY DEF IInv, Typed
<1>t20. setting \in Settings
  BY DEF IInv, Typed
<1>t21. crashes \in 0..setting.crashes
  BY DEF IInv, Typed
<1>g. /\ MaxId \in Nat \ {0} /\ MaxBatches \in Nat /\ lock.id \in Id /\ mem \in Id
      /\ nextId \in 1..MaxId + 1 /\ manifest.maxId \in Id
  BY Fields DEF IInv
<1>s. /\ manifest.l0 \in Seq(Id) /\ manifest.l1 \in Seq(Id) /\ manifest.mems \subseteq Id
      /\ compaction.l0 \in Seq(Id) /\ compaction.l1 \in Seq(Id)
      /\ compaction.remove \in Seq(Id) /\ compaction.out \in Id
  BY Fields DEF IInv
<1>n. NoCompaction \in Compaction /\ NoLock \in Position /\ <<>> \in Seq(Id)
  <2>1. 0 \in Id /\ <<>> \in Seq(Id)
    BY <1>g DEF Id
  <2> QED BY <2>1 DEF NoCompaction, NoLock, Compaction, Position, Positions
<1>1. CASE Write
  <2>1. files' = files /\ durable' = durable /\ manifest' = manifest /\ written' = written /\ synced' = synced /\ torn' = torn /\ sst' = sst /\ status' = status /\ mem' = mem /\ imm' = imm /\ l0' = l0 /\ l1' = l1 /\ nextId' = nextId /\ ts' = ts /\ lock' = lock /\ compaction' = compaction /\ promised' = promised /\ setting' = setting /\ crashes' = crashes
    BY <1>1 DEF Write
  <2>2. (data \in Content)'
    BY <1>1, <1>g, <1>t4, <1>t15 DEF Write, Content, IdLeft, Id
  <2>3. (writer \in {"idle", "inserted", "freezing", "frozen"})'
    BY <1>1, <1>g, <1>t17 DEF Write
  <2> QED BY <1>t1, <1>t2, <1>t3, <1>t5, <1>t6, <1>t7, <1>t8, <1>t9, <1>t10, <1>t11, <1>t12, <1>t13, <1>t14, <1>t15, <1>t16, <1>t18, <1>t19, <1>t20, <1>t21, <2>1, <2>2, <2>3 DEF Typed
<1>2. CASE Publish
  <2>1. files' = files /\ durable' = durable /\ manifest' = manifest /\ data' = data /\ written' = written /\ synced' = synced /\ torn' = torn /\ sst' = sst /\ status' = status /\ mem' = mem /\ imm' = imm /\ l0' = l0 /\ l1' = l1 /\ nextId' = nextId /\ lock' = lock /\ compaction' = compaction /\ promised' = promised /\ setting' = setting /\ crashes' = crashes
    BY <1>2 DEF Publish
  <2>2. (ts \in 0..MaxBatches)'
    <3>1. writer # "idle" /\ ts' = ts + 1
      BY <1>2 DEF Publish
    <3>2. ts < MaxBatches
      BY <3>1 DEF IInv, Phases
    <3> QED BY <1>g, <1>t15, <3>1, <3>2
  <2>3. (writer \in {"idle", "inserted", "freezing", "frozen"})'
    BY <1>2, <1>g, <1>t17 DEF Publish
  <2> QED BY <1>t1, <1>t2, <1>t3, <1>t4, <1>t5, <1>t6, <1>t7, <1>t8, <1>t9, <1>t10, <1>t11, <1>t12, <1>t13, <1>t14, <1>t16, <1>t18, <1>t19, <1>t20, <1>t21, <2>1, <2>2, <2>3 DEF Typed
<1>3. CASE Sync
  <2>1. files' = files /\ durable' = durable /\ manifest' = manifest /\ data' = data /\ torn' = torn /\ sst' = sst /\ status' = status /\ mem' = mem /\ imm' = imm /\ l0' = l0 /\ l1' = l1 /\ nextId' = nextId /\ ts' = ts /\ lock' = lock /\ writer' = writer /\ compaction' = compaction /\ setting' = setting /\ crashes' = crashes
    BY <1>3 DEF Sync, SyncLog
  <2>2. (written \in Content)'
    BY <1>3, <1>g, <1>t5, <1>t4 DEF Sync, SyncLog, Content, IdLeft, Id
  <2>3. (synced \in Content)'
    BY <1>3, <1>g, <1>t6, <1>t4 DEF Sync, SyncLog, Content, IdLeft, Id
  <2>4. (promised \in 0..MaxBatches)'
    BY <1>3, <1>g, <1>t19, <1>t15 DEF Sync, SyncLog
  <2> QED BY <1>t1, <1>t2, <1>t3, <1>t4, <1>t7, <1>t8, <1>t9, <1>t10, <1>t11, <1>t12, <1>t13, <1>t14, <1>t15, <1>t16, <1>t17, <1>t18, <1>t20, <1>t21, <2>1, <2>2, <2>3, <2>4 DEF Typed
<1>4. CASE FreezeCreate
  <2>1. durable' = durable /\ manifest' = manifest /\ torn' = torn /\ sst' = sst /\ status' = status /\ mem' = mem /\ imm' = imm /\ l0' = l0 /\ l1' = l1 /\ ts' = ts /\ compaction' = compaction /\ promised' = promised /\ setting' = setting /\ crashes' = crashes
    BY <1>4 DEF FreezeCreate, Create
  <2>2. (writer \in {"idle", "inserted", "freezing", "frozen"})'
    BY <1>4, <1>g, <1>t17 DEF FreezeCreate, Create
  <2>3. (lock \in Position)'
    BY <1>4, <1>g, <1>t16 DEF FreezeCreate, Create, Position, Positions, FreezePositions, FlushPositions, CompactPositions, OpenPositions, IdLeft, Id
  <2>4. (nextId \in 1..MaxId + 1)'
    BY <1>4, <1>g, <1>t14 DEF FreezeCreate, Create, IdLeft
  <2>5. (data \in Content)'
    BY <1>4, <1>g, <1>t4, <1>t15 DEF FreezeCreate, Create, Content, IdLeft, Id
  <2>6. (written \in Content)'
    BY <1>4, <1>g, <1>t5, <1>t4 DEF FreezeCreate, Create, Content, IdLeft, Id
  <2>7. (synced \in Content)'
    BY <1>4, <1>g, <1>t6, <1>t4 DEF FreezeCreate, Create, Content, IdLeft, Id
  <2>8. (files \subseteq Name)'
    BY <1>4, <1>g, <1>t1 DEF FreezeCreate, Create, Name, IdLeft, Id
  <2> QED BY <1>t2, <1>t3, <1>t7, <1>t8, <1>t9, <1>t10, <1>t11, <1>t12, <1>t13, <1>t15, <1>t18, <1>t19, <1>t20, <1>t21, <2>1, <2>2, <2>3, <2>4, <2>5, <2>6, <2>7, <2>8 DEF Typed
<1>5. CASE FreezeSwap
  <2>1. files' = files /\ durable' = durable /\ manifest' = manifest /\ data' = data /\ written' = written /\ synced' = synced /\ torn' = torn /\ sst' = sst /\ status' = status /\ l0' = l0 /\ l1' = l1 /\ nextId' = nextId /\ ts' = ts /\ writer' = writer /\ compaction' = compaction /\ promised' = promised /\ setting' = setting /\ crashes' = crashes
    BY <1>5 DEF FreezeSwap, At
  <2>2. (imm \in Seq(Id))'
    BY <1>5, <1>g, <1>t11 DEF FreezeSwap, At
  <2>3. (mem \in Id)'
    BY <1>5, <1>g, <1>t10 DEF FreezeSwap, At, IdLeft, Id
  <2>4. (lock \in Position)'
    BY <1>5, <1>g, <1>t16 DEF FreezeSwap, At, Position, Positions, FreezePositions, FlushPositions, CompactPositions, OpenPositions, IdLeft, Id
  <2> QED BY <1>t1, <1>t2, <1>t3, <1>t4, <1>t5, <1>t6, <1>t7, <1>t8, <1>t9, <1>t12, <1>t13, <1>t14, <1>t15, <1>t17, <1>t18, <1>t19, <1>t20, <1>t21, <2>1, <2>2, <2>3, <2>4 DEF Typed
<1>6. CASE FreezeSyncWal
  <2>1. files' = files /\ durable' = durable /\ manifest' = manifest /\ data' = data /\ torn' = torn /\ sst' = sst /\ status' = status /\ mem' = mem /\ imm' = imm /\ l0' = l0 /\ l1' = l1 /\ nextId' = nextId /\ ts' = ts /\ writer' = writer /\ compaction' = compaction /\ promised' = promised /\ setting' = setting /\ crashes' = crashes
    BY <1>6 DEF FreezeSyncWal, SyncLog, At
  <2>2. (written \in Content)'
    BY <1>6, <1>g, <1>t5, <1>t4 DEF FreezeSyncWal, SyncLog, At, Content, IdLeft, Id
  <2>3. (synced \in Content)'
    BY <1>6, <1>g, <1>t6, <1>t4 DEF FreezeSyncWal, SyncLog, At, Content, IdLeft, Id
  <2>4. (lock \in Position)'
    BY <1>6, <1>g, <1>t16 DEF FreezeSyncWal, SyncLog, At, Position, Positions, FreezePositions, FlushPositions, CompactPositions, OpenPositions, IdLeft, Id
  <2> QED BY <1>t1, <1>t2, <1>t3, <1>t4, <1>t7, <1>t8, <1>t9, <1>t10, <1>t11, <1>t12, <1>t13, <1>t14, <1>t15, <1>t17, <1>t18, <1>t19, <1>t20, <1>t21, <2>1, <2>2, <2>3, <2>4 DEF Typed
<1>7. CASE FreezeRecord
  <2>1. files' = files /\ durable' = durable /\ data' = data /\ written' = written /\ synced' = synced /\ torn' = torn /\ sst' = sst /\ status' = status /\ mem' = mem /\ imm' = imm /\ l0' = l0 /\ l1' = l1 /\ nextId' = nextId /\ ts' = ts /\ writer' = writer /\ compaction' = compaction /\ promised' = promised /\ setting' = setting /\ crashes' = crashes
    BY <1>7 DEF FreezeRecord, At, RecordNewMemtable, AtLeast
  <2>2. (manifest \in Manifest)'
    BY <1>7, <1>g, <1>t3 DEF FreezeRecord, At, RecordNewMemtable, AtLeast, Manifest, Id
  <2>3. (lock \in Position)'
    BY <1>7, <1>g, <1>t16 DEF FreezeRecord, At, RecordNewMemtable, AtLeast, Position, Positions, FreezePositions, FlushPositions, CompactPositions, OpenPositions, IdLeft, Id
  <2> QED BY <1>t1, <1>t2, <1>t4, <1>t5, <1>t6, <1>t7, <1>t8, <1>t9, <1>t10, <1>t11, <1>t12, <1>t13, <1>t14, <1>t15, <1>t17, <1>t18, <1>t19, <1>t20, <1>t21, <2>1, <2>2, <2>3 DEF Typed
<1>8. CASE FreezeSyncDir
  <2>1. files' = files /\ manifest' = manifest /\ data' = data /\ written' = written /\ synced' = synced /\ torn' = torn /\ sst' = sst /\ status' = status /\ mem' = mem /\ imm' = imm /\ l0' = l0 /\ l1' = l1 /\ nextId' = nextId /\ ts' = ts /\ compaction' = compaction /\ promised' = promised /\ setting' = setting /\ crashes' = crashes
    BY <1>8 DEF FreezeSyncDir, SyncDir, NoLock
  <2>2. (durable \subseteq Name)'
    BY <1>8, <1>g, <1>t2, <1>t1 DEF FreezeSyncDir, SyncDir, NoLock, Name
  <2>3. (lock \in Position)'
    BY <1>8, <1>g, <1>t16 DEF FreezeSyncDir, SyncDir, NoLock, Position, Positions, FreezePositions, FlushPositions, CompactPositions, OpenPositions, IdLeft, Id
  <2>4. (writer \in {"idle", "inserted", "freezing", "frozen"})'
    BY <1>8, <1>g, <1>t17 DEF FreezeSyncDir, SyncDir, NoLock
  <2> QED BY <1>t1, <1>t3, <1>t4, <1>t5, <1>t6, <1>t7, <1>t8, <1>t9, <1>t10, <1>t11, <1>t12, <1>t13, <1>t14, <1>t15, <1>t18, <1>t19, <1>t20, <1>t21, <2>1, <2>2, <2>3, <2>4 DEF Typed
<1>9. CASE FlushBuild
  <2>1. durable' = durable /\ manifest' = manifest /\ data' = data /\ written' = written /\ synced' = synced /\ torn' = torn /\ status' = status /\ mem' = mem /\ imm' = imm /\ l0' = l0 /\ l1' = l1 /\ nextId' = nextId /\ ts' = ts /\ writer' = writer /\ compaction' = compaction /\ promised' = promised /\ setting' = setting /\ crashes' = crashes
    BY <1>9 DEF FlushBuild, Create
  <2>2. (files \subseteq Name)'
    <3>1. files' = files \cup {Sst(Last(imm))}
      BY <1>9 DEF FlushBuild, Create
    <3>2. Last(imm) \in Id
      BY <1>9, <1>t11, FrontOf, IdsOf DEF FlushBuild
    <3> QED BY <1>t1, <3>1, <3>2 DEF Name
  <2>3. (sst \in Content)'
    BY <1>9, <1>g, <1>t8, <1>t4 DEF FlushBuild, Create, Content, IdLeft, Id
  <2>4. (lock \in Position)'
    <3>1. lock' = [at |-> "flush.built", id |-> Last(imm)]
      BY <1>9 DEF FlushBuild, Create
    <3>2. Last(imm) \in Id
      BY <1>9, <1>t11, FrontOf, IdsOf DEF FlushBuild
    <3> QED BY <3>1, <3>2 DEF Position, Positions, FlushPositions
  <2> QED BY <1>t2, <1>t3, <1>t4, <1>t5, <1>t6, <1>t7, <1>t9, <1>t10, <1>t11, <1>t12, <1>t13, <1>t14, <1>t15, <1>t17, <1>t18, <1>t19, <1>t20, <1>t21, <2>1, <2>2, <2>3, <2>4 DEF Typed
<1>10. CASE FlushInstall
  <2>1. files' = files /\ durable' = durable /\ manifest' = manifest /\ data' = data /\ written' = written /\ synced' = synced /\ torn' = torn /\ sst' = sst /\ status' = status /\ mem' = mem /\ l1' = l1 /\ nextId' = nextId /\ ts' = ts /\ writer' = writer /\ compaction' = compaction /\ promised' = promised /\ setting' = setting /\ crashes' = crashes
    BY <1>10 DEF FlushInstall, At
  <2>2. (imm \in Seq(Id))'
    <3>1. imm' = Front(imm) /\ imm # <<>>
      BY <1>10 DEF FlushInstall, IInv, Holding
    <3> QED BY <1>t11, <3>1, FrontOf
  <2>3. (l0 \in Seq(Id))'
    BY <1>10, <1>g, <1>t12 DEF FlushInstall, At
  <2>4. (lock \in Position)'
    BY <1>10, <1>g, <1>t16 DEF FlushInstall, At, Position, Positions, FreezePositions, FlushPositions, CompactPositions, OpenPositions, IdLeft, Id
  <2> QED BY <1>t1, <1>t2, <1>t3, <1>t4, <1>t5, <1>t6, <1>t7, <1>t8, <1>t9, <1>t10, <1>t13, <1>t14, <1>t15, <1>t17, <1>t18, <1>t19, <1>t20, <1>t21, <2>1, <2>2, <2>3, <2>4 DEF Typed
<1>11. CASE FlushRemoveWal
  <2>1. durable' = durable /\ manifest' = manifest /\ data' = data /\ written' = written /\ synced' = synced /\ torn' = torn /\ sst' = sst /\ status' = status /\ mem' = mem /\ imm' = imm /\ l0' = l0 /\ l1' = l1 /\ nextId' = nextId /\ ts' = ts /\ writer' = writer /\ compaction' = compaction /\ promised' = promised /\ setting' = setting /\ crashes' = crashes
    BY <1>11 DEF FlushRemoveWal, At
  <2>2. (files \subseteq Name)'
    BY <1>11, <1>g, <1>t1 DEF FlushRemoveWal, At, Name, IdLeft, Id
  <2>3. (lock \in Position)'
    BY <1>11, <1>g, <1>t16 DEF FlushRemoveWal, At, Position, Positions, FreezePositions, FlushPositions, CompactPositions, OpenPositions, IdLeft, Id
  <2> QED BY <1>t2, <1>t3, <1>t4, <1>t5, <1>t6, <1>t7, <1>t8, <1>t9, <1>t10, <1>t11, <1>t12, <1>t13, <1>t14, <1>t15, <1>t17, <1>t18, <1>t19, <1>t20, <1>t21, <2>1, <2>2, <2>3 DEF Typed
<1>12. CASE FlushRecord
  <2>1. files' = files /\ durable' = durable /\ data' = data /\ written' = written /\ synced' = synced /\ torn' = torn /\ sst' = sst /\ status' = status /\ mem' = mem /\ imm' = imm /\ l0' = l0 /\ l1' = l1 /\ nextId' = nextId /\ ts' = ts /\ writer' = writer /\ compaction' = compaction /\ promised' = promised /\ setting' = setting /\ crashes' = crashes
    BY <1>12 DEF FlushRecord, At, RecordFlush, AtLeast
  <2>2. (manifest \in Manifest)'
    <3>1. manifest' = RecordFlush(manifest, lock.id)
      BY <1>12 DEF FlushRecord
    <3>2. <<lock.id>> \o manifest.l0 \in Seq(Id)
      BY <1>g, <1>s, Prepended
    <3>3. AtLeast(manifest, lock.id) \in Id
      BY <1>g DEF AtLeast
    <3>4. manifest' = [l0 |-> <<lock.id>> \o manifest.l0, l1 |-> manifest.l1,
                       mems |-> manifest.mems \ {lock.id}, maxId |-> AtLeast(manifest, lock.id),
                       ok |-> manifest.ok /\ lock.id \in manifest.mems]
      BY <1>t3, <3>1 DEF RecordFlush, Manifest
    <3>5. (manifest.ok /\ lock.id \in manifest.mems) \in BOOLEAN
      OBVIOUS
    <3> QED BY <1>s, <3>2, <3>3, <3>4, <3>5 DEF Manifest
  <2>3. (lock \in Position)'
    BY <1>12, <1>g, <1>t16 DEF FlushRecord, At, RecordFlush, AtLeast, Position, Positions, FreezePositions, FlushPositions, CompactPositions, OpenPositions, IdLeft, Id
  <2> QED BY <1>t1, <1>t2, <1>t4, <1>t5, <1>t6, <1>t7, <1>t8, <1>t9, <1>t10, <1>t11, <1>t12, <1>t13, <1>t14, <1>t15, <1>t17, <1>t18, <1>t19, <1>t20, <1>t21, <2>1, <2>2, <2>3 DEF Typed
<1>13. CASE FlushSyncDir
  <2>1. files' = files /\ manifest' = manifest /\ data' = data /\ written' = written /\ synced' = synced /\ torn' = torn /\ sst' = sst /\ status' = status /\ mem' = mem /\ imm' = imm /\ l0' = l0 /\ l1' = l1 /\ nextId' = nextId /\ ts' = ts /\ writer' = writer /\ compaction' = compaction /\ promised' = promised /\ setting' = setting /\ crashes' = crashes
    BY <1>13 DEF FlushSyncDir, SyncDir, NoLock
  <2>2. (durable \subseteq Name)'
    BY <1>13, <1>g, <1>t2, <1>t1 DEF FlushSyncDir, SyncDir, NoLock, Name
  <2>3. (lock \in Position)'
    BY <1>13, <1>g, <1>t16 DEF FlushSyncDir, SyncDir, NoLock, Position, Positions, FreezePositions, FlushPositions, CompactPositions, OpenPositions, IdLeft, Id
  <2> QED BY <1>t1, <1>t3, <1>t4, <1>t5, <1>t6, <1>t7, <1>t8, <1>t9, <1>t10, <1>t11, <1>t12, <1>t13, <1>t14, <1>t15, <1>t17, <1>t18, <1>t19, <1>t20, <1>t21, <2>1, <2>2, <2>3 DEF Typed
<1>14. CASE CompactStart
  <2>1. files' = files /\ durable' = durable /\ manifest' = manifest /\ data' = data /\ written' = written /\ synced' = synced /\ torn' = torn /\ sst' = sst /\ status' = status /\ mem' = mem /\ imm' = imm /\ l0' = l0 /\ l1' = l1 /\ nextId' = nextId /\ ts' = ts /\ lock' = lock /\ writer' = writer /\ promised' = promised /\ setting' = setting /\ crashes' = crashes
    BY <1>14 DEF CompactStart, NoCompaction
  <2>2. (compaction \in Compaction)'
    <3>1. compaction' = [at |-> "merging", l0 |-> l0, l1 |-> l1, out |-> 0, remove |-> <<>>]
      BY <1>14 DEF CompactStart, NoCompaction
    <3>2. 0 \in Id /\ <<>> \in Seq(Id)
      BY <1>g DEF Id
    <3> QED BY <1>t12, <1>t13, <3>1, <3>2 DEF Compaction
  <2> QED BY <1>t1, <1>t2, <1>t3, <1>t4, <1>t5, <1>t6, <1>t7, <1>t8, <1>t9, <1>t10, <1>t11, <1>t12, <1>t13, <1>t14, <1>t15, <1>t16, <1>t17, <1>t19, <1>t20, <1>t21, <2>1, <2>2 DEF Typed
<1>15. CASE CompactMerge
  <2>1. durable' = durable /\ manifest' = manifest /\ data' = data /\ written' = written /\ synced' = synced /\ torn' = torn /\ status' = status /\ mem' = mem /\ imm' = imm /\ l0' = l0 /\ l1' = l1 /\ ts' = ts /\ lock' = lock /\ writer' = writer /\ promised' = promised /\ setting' = setting /\ crashes' = crashes
    BY <1>15 DEF CompactMerge, Create
  <2>2. (files \subseteq Name)'
    BY <1>15, <1>g, <1>t1 DEF CompactMerge, Create, Name, IdLeft, Id
  <2>3. (sst \in Content)'
    <3>1. sst' = [sst EXCEPT ![nextId] =
                    Batches(sst, Ids(compaction.l0) \cup Ids(compaction.l1))]
      BY <1>15 DEF CompactMerge
    <3>2. Ids(compaction.l0) \cup Ids(compaction.l1) \subseteq Id
      BY <1>s, IdsOf
    <3>3. Batches(sst, Ids(compaction.l0) \cup Ids(compaction.l1)) \subseteq 1..MaxBatches
      BY <1>t8, <3>2 DEF Batches, Content
    <3> QED BY <1>t8, <3>1, <3>3 DEF Content
  <2>4. (nextId \in 1..MaxId + 1)'
    BY <1>15, <1>g, <1>t14 DEF CompactMerge, Create, IdLeft
  <2>5. (compaction \in Compaction)'
    <3>1. compaction' = [compaction EXCEPT !.at = "merged", !.out = nextId]
      BY <1>15 DEF CompactMerge
    <3>2. nextId \in Id
      BY <1>15, <1>g DEF CompactMerge, IdLeft, Id
    <3> QED BY <1>t18, <3>1, <3>2 DEF Compaction
  <2> QED BY <1>t2, <1>t3, <1>t4, <1>t5, <1>t6, <1>t7, <1>t9, <1>t10, <1>t11, <1>t12, <1>t13, <1>t15, <1>t16, <1>t17, <1>t19, <1>t20, <1>t21, <2>1, <2>2, <2>3, <2>4, <2>5 DEF Typed
<1>16. CASE CompactInstall
  <2>1. files' = files /\ durable' = durable /\ manifest' = manifest /\ data' = data /\ written' = written /\ synced' = synced /\ torn' = torn /\ sst' = sst /\ status' = status /\ mem' = mem /\ imm' = imm /\ nextId' = nextId /\ ts' = ts /\ writer' = writer /\ compaction' = compaction /\ promised' = promised /\ setting' = setting /\ crashes' = crashes
    BY <1>16 DEF CompactInstall
  <2>2. (l0 \in Seq(Id))'
    <3>1. l0' = Without(l0, compaction.l0) /\ compaction.at = "merged" /\ ~CompactMid
      BY <1>16 DEF CompactInstall, CompactMid, CompactPositions
    <3> QED BY <3>1, InputsLast
  <2>3. (l1 \in Seq(Id))'
    <3>1. l1' = <<compaction.out>>
      BY <1>16 DEF CompactInstall
    <3> QED BY <1>s, <3>1
  <2>4. (lock \in Position)'
    <3>1. lock' = [at |-> "compact.installed", id |-> compaction.out]
      BY <1>16 DEF CompactInstall
    <3> QED BY <1>s, <3>1 DEF Position, Positions, CompactPositions
  <2> QED BY <1>t1, <1>t2, <1>t3, <1>t4, <1>t5, <1>t6, <1>t7, <1>t8, <1>t9, <1>t10, <1>t11, <1>t14, <1>t15, <1>t17, <1>t18, <1>t19, <1>t20, <1>t21, <2>1, <2>2, <2>3, <2>4 DEF Typed
<1>17. CASE CompactSyncDir
  <2>1. files' = files /\ manifest' = manifest /\ data' = data /\ written' = written /\ synced' = synced /\ torn' = torn /\ sst' = sst /\ status' = status /\ mem' = mem /\ imm' = imm /\ l0' = l0 /\ l1' = l1 /\ nextId' = nextId /\ ts' = ts /\ writer' = writer /\ compaction' = compaction /\ promised' = promised /\ setting' = setting /\ crashes' = crashes
    BY <1>17 DEF CompactSyncDir, SyncDir, At
  <2>2. (durable \subseteq Name)'
    BY <1>17, <1>g, <1>t2, <1>t1 DEF CompactSyncDir, SyncDir, At, Name
  <2>3. (lock \in Position)'
    BY <1>17, <1>g, <1>t16 DEF CompactSyncDir, SyncDir, At, Position, Positions, FreezePositions, FlushPositions, CompactPositions, OpenPositions, IdLeft, Id
  <2> QED BY <1>t1, <1>t3, <1>t4, <1>t5, <1>t6, <1>t7, <1>t8, <1>t9, <1>t10, <1>t11, <1>t12, <1>t13, <1>t14, <1>t15, <1>t17, <1>t18, <1>t19, <1>t20, <1>t21, <2>1, <2>2, <2>3 DEF Typed
<1>18. CASE CompactRecord
  <2>1. files' = files /\ durable' = durable /\ data' = data /\ written' = written /\ synced' = synced /\ torn' = torn /\ sst' = sst /\ status' = status /\ mem' = mem /\ imm' = imm /\ l0' = l0 /\ l1' = l1 /\ nextId' = nextId /\ ts' = ts /\ writer' = writer /\ promised' = promised /\ setting' = setting /\ crashes' = crashes
    BY <1>18 DEF CompactRecord, RecordCompaction, AtLeast, NoLock
  <2>2. (manifest \in Manifest)'
    <3>1. manifest' = RecordCompaction(manifest, compaction) /\ CompactMid
      BY <1>18 DEF CompactRecord, CompactMid, CompactPositions
    <3>2. Without(manifest.l0, compaction.l0) = l0 /\ <<compaction.out>> \in Seq(Id)
      BY <1>s, <3>1, InputsLastRecorded
    <3>3. AtLeast(manifest, compaction.out) \in Id
      BY <1>g, <1>s DEF AtLeast
    <3>4. manifest' = [l0 |-> l0, l1 |-> <<compaction.out>>, mems |-> manifest.mems,
                       maxId |-> AtLeast(manifest, compaction.out),
                       ok |-> /\ manifest.ok
                              /\ Ids(compaction.l0) \subseteq Ids(manifest.l0)
                              /\ compaction.l1 = manifest.l1]
      BY <1>t3, <3>1, <3>2 DEF RecordCompaction, Manifest
    <3>5. (/\ manifest.ok
           /\ Ids(compaction.l0) \subseteq Ids(manifest.l0)
           /\ compaction.l1 = manifest.l1) \in BOOLEAN
      OBVIOUS
    <3> QED BY <1>s, <1>t12, <3>2, <3>3, <3>4, <3>5 DEF Manifest
  <2>3. (lock \in Position)'
    BY <1>18, <1>g, <1>t16 DEF CompactRecord, RecordCompaction, AtLeast, NoLock, Position, Positions, FreezePositions, FlushPositions, CompactPositions, OpenPositions, IdLeft, Id
  <2>4. (compaction \in Compaction)'
    <3>1. compaction' = [compaction EXCEPT !.at = "removing",
                                           !.remove = compaction.l0 \o compaction.l1]
      BY <1>18 DEF CompactRecord
    <3>2. compaction.l0 \o compaction.l1 \in Seq(Id)
      BY <1>s
    <3> QED BY <1>t18, <3>1, <3>2 DEF Compaction
  <2> QED BY <1>t1, <1>t2, <1>t4, <1>t5, <1>t6, <1>t7, <1>t8, <1>t9, <1>t10, <1>t11, <1>t12, <1>t13, <1>t14, <1>t15, <1>t17, <1>t19, <1>t20, <1>t21, <2>1, <2>2, <2>3, <2>4 DEF Typed
<1>19. CASE CompactRemove
  <2>1. manifest' = manifest /\ data' = data /\ written' = written /\ synced' = synced /\ torn' = torn /\ sst' = sst /\ status' = status /\ mem' = mem /\ imm' = imm /\ l0' = l0 /\ l1' = l1 /\ nextId' = nextId /\ ts' = ts /\ lock' = lock /\ writer' = writer /\ promised' = promised /\ setting' = setting /\ crashes' = crashes
    BY <1>19 DEF CompactRemove, NoCompaction, SyncDir
  <2>2. (files \subseteq Name)'
    BY <1>19, <1>g, <1>t1 DEF CompactRemove, NoCompaction, SyncDir, Name, IdLeft, Id
  <2>3. (durable \subseteq Name)'
    BY <1>19, <1>g, <1>t2, <1>t1 DEF CompactRemove, NoCompaction, SyncDir, Name
  <2>4. (compaction \in Compaction)'
    <3>1. CASE compaction.remove # <<>>
      <4>1. compaction' = [compaction EXCEPT !.remove = Tail(compaction.remove)]
        BY <1>19, <3>1 DEF CompactRemove
      <4>2. Tail(compaction.remove) \in Seq(Id)
        BY <1>s, <3>1
      <4> QED BY <1>t18, <4>1, <4>2 DEF Compaction
    <3>2. CASE compaction.remove = <<>>
      <4>1. compaction' = NoCompaction
        BY <1>19, <3>2 DEF CompactRemove
      <4> QED BY <1>n, <4>1
    <3> QED BY <3>1, <3>2
  <2> QED BY <1>t3, <1>t4, <1>t5, <1>t6, <1>t7, <1>t8, <1>t9, <1>t10, <1>t11, <1>t12, <1>t13, <1>t14, <1>t15, <1>t16, <1>t17, <1>t19, <1>t20, <1>t21, <2>1, <2>2, <2>3, <2>4 DEF Typed
<1>20. CASE Close
  <2>1. files' = files /\ manifest' = manifest /\ torn' = torn /\ sst' = sst /\ setting' = setting /\ crashes' = crashes
    BY <1>20 DEF Close, SyncLog, Stopped, NoLock, NoCompaction
  <2>2. (durable \subseteq Name)'
    BY <1>20, <1>g, <1>t2, <1>t1 DEF Close, SyncLog, Stopped, NoLock, NoCompaction, Name
  <2>3. (written \in Content)'
    BY <1>20, <1>g, <1>t5, <1>t4 DEF Close, SyncLog, Stopped, NoLock, NoCompaction, Content, IdLeft, Id
  <2>4. (synced \in Content)'
    BY <1>20, <1>g, <1>t6, <1>t4 DEF Close, SyncLog, Stopped, NoLock, NoCompaction, Content, IdLeft, Id
  <2>5. (promised \in 0..MaxBatches)'
    BY <1>20, <1>g, <1>t19, <1>t15 DEF Close, SyncLog, Stopped, NoLock, NoCompaction
  <2>6. (data \in Content)'
    BY <1>20, <1>g, <1>t4, <1>t15 DEF Close, SyncLog, Stopped, NoLock, NoCompaction, Content, IdLeft, Id
  <2>7. (status \in {"down", "opening", "up", "closing", "failed"})'
    BY <1>20, <1>g, <1>t9 DEF Close, SyncLog, Stopped, NoLock, NoCompaction
  <2>8. (mem \in Id)'
    BY <1>20, <1>g, <1>t10 DEF Close, SyncLog, Stopped, NoLock, NoCompaction, IdLeft, Id
  <2>9. (imm \in Seq(Id))'
    <3>1. imm' = <<>> \/ imm' = imm \/ imm' = <<mem>> \o imm
      BY <1>20 DEF Close, Stopped
    <3> QED BY <1>n, <1>g, <1>t11, <3>1, Prepended
  <2>10. (l0 \in Seq(Id))'
    <3>1. l0' = <<>> \/ l0' = l0
      BY <1>20 DEF Close, Stopped
    <3> QED BY <1>n, <1>t12, <3>1
  <2>11. (l1 \in Seq(Id))'
    <3>1. l1' = <<>> \/ l1' = l1
      BY <1>20 DEF Close, Stopped
    <3> QED BY <1>n, <1>t13, <3>1
  <2>12. (nextId \in 1..MaxId + 1)'
    BY <1>20, <1>g, <1>t14 DEF Close, SyncLog, Stopped, NoLock, NoCompaction, IdLeft
  <2>13. (ts \in 0..MaxBatches)'
    BY <1>20, <1>g, <1>t15 DEF Close, SyncLog, Stopped, NoLock, NoCompaction
  <2>14. (lock \in Position)'
    <3>1. lock' = NoLock \/ lock' = lock
      BY <1>20 DEF Close, Stopped
    <3> QED BY <1>n, <1>t16, <3>1
  <2>15. (writer \in {"idle", "inserted", "freezing", "frozen"})'
    BY <1>20, <1>g, <1>t17 DEF Close, SyncLog, Stopped, NoLock, NoCompaction
  <2>16. (compaction \in Compaction)'
    <3>1. compaction' = NoCompaction \/ compaction' = compaction
      BY <1>20 DEF Close, Stopped
    <3> QED BY <1>n, <1>t18, <3>1
  <2> QED BY <1>t1, <1>t3, <1>t7, <1>t8, <1>t20, <1>t21, <2>1, <2>2, <2>3, <2>4, <2>5, <2>6, <2>7, <2>8, <2>9, <2>10, <2>11, <2>12, <2>13, <2>14, <2>15, <2>16 DEF Typed
<1>21. CASE CloseEnd
  <2>1. files' = files /\ manifest' = manifest /\ data' = data /\ written' = written /\ synced' = synced /\ torn' = torn /\ sst' = sst /\ setting' = setting /\ crashes' = crashes
    BY <1>21 DEF CloseEnd, SyncDir, Stopped, NoLock, NoCompaction
  <2>2. (durable \subseteq Name)'
    BY <1>21, <1>g, <1>t2, <1>t1 DEF CloseEnd, SyncDir, Stopped, NoLock, NoCompaction, Name
  <2>3. (promised \in 0..MaxBatches)'
    BY <1>21, <1>g, <1>t19, <1>t15 DEF CloseEnd, SyncDir, Stopped, NoLock, NoCompaction
  <2>4. (status \in {"down", "opening", "up", "closing", "failed"})'
    BY <1>21, <1>g, <1>t9 DEF CloseEnd, SyncDir, Stopped, NoLock, NoCompaction
  <2>5. (mem \in Id)'
    BY <1>21, <1>g, <1>t10 DEF CloseEnd, SyncDir, Stopped, NoLock, NoCompaction, IdLeft, Id
  <2>6. (imm \in Seq(Id))'
    <3>1. imm' = <<>>
      BY <1>21 DEF CloseEnd, Stopped
    <3> QED BY <3>1
  <2>7. (l0 \in Seq(Id))'
    <3>1. l0' = <<>> \/ l0' = l0
      BY <1>21 DEF CloseEnd, Stopped
    <3> QED BY <1>n, <1>t12, <3>1
  <2>8. (l1 \in Seq(Id))'
    <3>1. l1' = <<>> \/ l1' = l1
      BY <1>21 DEF CloseEnd, Stopped
    <3> QED BY <1>n, <1>t13, <3>1
  <2>9. (nextId \in 1..MaxId + 1)'
    BY <1>21, <1>g, <1>t14 DEF CloseEnd, SyncDir, Stopped, NoLock, NoCompaction, IdLeft
  <2>10. (ts \in 0..MaxBatches)'
    BY <1>21, <1>g, <1>t15 DEF CloseEnd, SyncDir, Stopped, NoLock, NoCompaction
  <2>11. (lock \in Position)'
    BY <1>21, <1>g, <1>t16 DEF CloseEnd, SyncDir, Stopped, NoLock, NoCompaction, Position, Positions, FreezePositions, FlushPositions, CompactPositions, OpenPositions, IdLeft, Id
  <2>12. (writer \in {"idle", "inserted", "freezing", "frozen"})'
    BY <1>21, <1>g, <1>t17 DEF CloseEnd, SyncDir, Stopped, NoLock, NoCompaction
  <2>13. (compaction \in Compaction)'
    <3>1. compaction' = NoCompaction \/ compaction' = compaction
      BY <1>21 DEF CloseEnd, Stopped
    <3> QED BY <1>n, <1>t18, <3>1
  <2> QED BY <1>t1, <1>t3, <1>t4, <1>t5, <1>t6, <1>t7, <1>t8, <1>t20, <1>t21, <2>1, <2>2, <2>3, <2>4, <2>5, <2>6, <2>7, <2>8, <2>9, <2>10, <2>11, <2>12, <2>13 DEF Typed
<1>22. CASE Crash
  <2>1. manifest' = manifest /\ sst' = sst /\ promised' = promised /\ setting' = setting
    BY <1>22 DEF Crash, Stopped, NoLock, NoCompaction
  <2>2. (files \subseteq Name)'
    <3>1. PICK undone \in SUBSET ((files \ durable) \cup (durable \ files)) :
               files' = (files \ undone) \cup (undone \ files)
      BY <1>22 DEF Crash
    <3> QED BY <1>t1, <1>t2, <3>1
  <2>3. (data \in Content)'
    BY <1>22, <1>g, <1>t4, <1>t15 DEF Crash, Stopped, NoLock, NoCompaction, Content, IdLeft, Id
  <2>4. (written \in Content)'
    BY <1>22, <1>g, <1>t5, <1>t4 DEF Crash, Stopped, NoLock, NoCompaction, Content, IdLeft, Id
  <2>5. (synced \in Content)'
    BY <1>22, <1>g, <1>t6, <1>t4 DEF Crash, Stopped, NoLock, NoCompaction, Content, IdLeft, Id
  <2>6. (torn \subseteq Id)'
    BY <1>22, <1>g, <1>t7 DEF Crash, Stopped, NoLock, NoCompaction
  <2>7. (durable \subseteq Name)'
    BY <1>22, <1>g, <1>t2, <1>t1 DEF Crash, Stopped, NoLock, NoCompaction, Name
  <2>8. (crashes \in 0..setting.crashes)'
    <3>1. crashes' = crashes + 1 /\ crashes < setting.crashes /\ setting' = setting
      BY <1>22 DEF Crash
    <3>2. setting.crashes \in Nat
      BY <1>t20, DurabilityAssumption DEF Setting
    <3> QED BY <1>t21, <3>1, <3>2
  <2>9. (status \in {"down", "opening", "up", "closing", "failed"})'
    BY <1>22, <1>g, <1>t9 DEF Crash, Stopped, NoLock, NoCompaction
  <2>10. (mem \in Id)'
    BY <1>22, <1>g, <1>t10 DEF Crash, Stopped, NoLock, NoCompaction, IdLeft, Id
  <2>11. (imm \in Seq(Id))'
    <3>1. imm' = <<>>
      BY <1>22 DEF Crash, Stopped
    <3> QED BY <3>1
  <2>12. (l0 \in Seq(Id))'
    <3>1. l0' = <<>> \/ l0' = l0
      BY <1>22 DEF Crash, Stopped
    <3> QED BY <1>n, <1>t12, <3>1
  <2>13. (l1 \in Seq(Id))'
    <3>1. l1' = <<>> \/ l1' = l1
      BY <1>22 DEF Crash, Stopped
    <3> QED BY <1>n, <1>t13, <3>1
  <2>14. (nextId \in 1..MaxId + 1)'
    BY <1>22, <1>g, <1>t14 DEF Crash, Stopped, NoLock, NoCompaction, IdLeft
  <2>15. (ts \in 0..MaxBatches)'
    BY <1>22, <1>g, <1>t15 DEF Crash, Stopped, NoLock, NoCompaction
  <2>16. (lock \in Position)'
    BY <1>22, <1>g, <1>t16 DEF Crash, Stopped, NoLock, NoCompaction, Position, Positions, FreezePositions, FlushPositions, CompactPositions, OpenPositions, IdLeft, Id
  <2>17. (writer \in {"idle", "inserted", "freezing", "frozen"})'
    BY <1>22, <1>g, <1>t17 DEF Crash, Stopped, NoLock, NoCompaction
  <2>18. (compaction \in Compaction)'
    <3>1. compaction' = NoCompaction \/ compaction' = compaction
      BY <1>22 DEF Crash, Stopped
    <3> QED BY <1>n, <1>t18, <3>1
  <2> QED BY <1>t3, <1>t8, <1>t19, <1>t20, <2>1, <2>2, <2>3, <2>4, <2>5, <2>6, <2>7, <2>8, <2>9, <2>10, <2>11, <2>12, <2>13, <2>14, <2>15, <2>16, <2>17, <2>18 DEF Typed
<1>23. CASE OpenFresh
  <2>1. durable' = durable /\ manifest' = manifest /\ torn' = torn /\ sst' = sst /\ mem' = mem /\ imm' = imm /\ l0' = l0 /\ l1' = l1 /\ nextId' = nextId /\ ts' = ts /\ writer' = writer /\ compaction' = compaction /\ promised' = promised /\ setting' = setting /\ crashes' = crashes
    BY <1>23 DEF OpenFresh, Create
  <2>2. (status \in {"down", "opening", "up", "closing", "failed"})'
    BY <1>23, <1>g, <1>t9 DEF OpenFresh, Create
  <2>3. (files \subseteq Name)'
    BY <1>23, <1>g, <1>t1 DEF OpenFresh, Create, Name, IdLeft, Id
  <2>4. (data \in Content)'
    BY <1>23, <1>g, <1>t4, <1>t15 DEF OpenFresh, Create, Content, IdLeft, Id
  <2>5. (written \in Content)'
    BY <1>23, <1>g, <1>t5, <1>t4 DEF OpenFresh, Create, Content, IdLeft, Id
  <2>6. (synced \in Content)'
    BY <1>23, <1>g, <1>t6, <1>t4 DEF OpenFresh, Create, Content, IdLeft, Id
  <2>7. (lock \in Position)'
    BY <1>23, <1>g, <1>t16 DEF OpenFresh, Create, Position, Positions, FreezePositions, FlushPositions, CompactPositions, OpenPositions, IdLeft, Id
  <2> QED BY <1>t2, <1>t3, <1>t7, <1>t8, <1>t10, <1>t11, <1>t12, <1>t13, <1>t14, <1>t15, <1>t17, <1>t18, <1>t19, <1>t20, <1>t21, <2>1, <2>2, <2>3, <2>4, <2>5, <2>6, <2>7 DEF Typed
<1>24. CASE OpenManifest
  <2>1. durable' = durable /\ data' = data /\ written' = written /\ synced' = synced /\ torn' = torn /\ sst' = sst /\ status' = status /\ mem' = mem /\ imm' = imm /\ l0' = l0 /\ l1' = l1 /\ nextId' = nextId /\ ts' = ts /\ writer' = writer /\ compaction' = compaction /\ promised' = promised /\ setting' = setting /\ crashes' = crashes
    BY <1>24 DEF OpenManifest, Create, EmptyManifest, At
  <2>2. (files \subseteq Name)'
    BY <1>24, <1>g, <1>t1 DEF OpenManifest, Create, EmptyManifest, At, Name, IdLeft, Id
  <2>3. (manifest \in Manifest)'
    BY <1>24, <1>g, <1>t3 DEF OpenManifest, Create, EmptyManifest, At, Manifest, Id
  <2>4. (lock \in Position)'
    BY <1>24, <1>g, <1>t16 DEF OpenManifest, Create, EmptyManifest, At, Position, Positions, FreezePositions, FlushPositions, CompactPositions, OpenPositions, IdLeft, Id
  <2> QED BY <1>t2, <1>t4, <1>t5, <1>t6, <1>t7, <1>t8, <1>t9, <1>t10, <1>t11, <1>t12, <1>t13, <1>t14, <1>t15, <1>t17, <1>t18, <1>t19, <1>t20, <1>t21, <2>1, <2>2, <2>3, <2>4 DEF Typed
<1>25. CASE OpenRecover
  <2>1. durable' = durable /\ manifest' = manifest /\ torn' = torn /\ sst' = sst /\ writer' = writer /\ compaction' = compaction /\ promised' = promised /\ setting' = setting /\ crashes' = crashes
    BY <1>25 DEF OpenRecover, Create
  <2>2. (status \in {"down", "opening", "up", "closing", "failed"})'
    BY <1>25, <1>g, <1>t9 DEF OpenRecover, Create
  <2>3. (imm \in Seq(Id))'
    <3>1. CASE Recoverable
      <4>1. imm' = RecoveredMemtables
        BY <1>25, <3>1 DEF OpenRecover, Create
      <4>2. /\ RecoveredMemtables \in Seq(Id) /\ LatestOf(Recovered) \in 0..MaxBatches
            /\ manifest.maxId + 1 \in Id
        BY <1>25, <3>1, RecoverFinds DEF OpenRecover
      <4> QED BY <1>g, <1>t11, <4>1, <4>2 DEF Id
    <3>2. CASE ~Recoverable
      <4>1. imm' = imm
        BY <1>25, <3>2 DEF OpenRecover
      <4> QED BY <1>t11, <4>1
    <3> QED BY <3>1, <3>2
  <2>4. (l0 \in Seq(Id))'
    <3>1. CASE Recoverable
      <4>1. l0' = manifest.l0
        BY <1>25, <3>1 DEF OpenRecover, Create
      <4>2. /\ RecoveredMemtables \in Seq(Id) /\ LatestOf(Recovered) \in 0..MaxBatches
            /\ manifest.maxId + 1 \in Id
        BY <1>25, <3>1, RecoverFinds DEF OpenRecover
      <4> QED BY <1>g, <1>t12, <1>s, <4>1, <4>2 DEF Id
    <3>2. CASE ~Recoverable
      <4>1. l0' = l0
        BY <1>25, <3>2 DEF OpenRecover
      <4> QED BY <1>t12, <4>1
    <3> QED BY <3>1, <3>2
  <2>5. (l1 \in Seq(Id))'
    <3>1. CASE Recoverable
      <4>1. l1' = manifest.l1
        BY <1>25, <3>1 DEF OpenRecover, Create
      <4>2. /\ RecoveredMemtables \in Seq(Id) /\ LatestOf(Recovered) \in 0..MaxBatches
            /\ manifest.maxId + 1 \in Id
        BY <1>25, <3>1, RecoverFinds DEF OpenRecover
      <4> QED BY <1>g, <1>t13, <1>s, <4>1, <4>2 DEF Id
    <3>2. CASE ~Recoverable
      <4>1. l1' = l1
        BY <1>25, <3>2 DEF OpenRecover
      <4> QED BY <1>t13, <4>1
    <3> QED BY <3>1, <3>2
  <2>6. (ts \in 0..MaxBatches)'
    <3>1. CASE Recoverable
      <4>1. ts' = LatestOf(Recovered)
        BY <1>25, <3>1 DEF OpenRecover, Create
      <4>2. /\ RecoveredMemtables \in Seq(Id) /\ LatestOf(Recovered) \in 0..MaxBatches
            /\ manifest.maxId + 1 \in Id
        BY <1>25, <3>1, RecoverFinds DEF OpenRecover
      <4> QED BY <1>g, <1>t15, <4>1, <4>2 DEF Id
    <3>2. CASE ~Recoverable
      <4>1. ts' = ts
        BY <1>25, <3>2 DEF OpenRecover
      <4> QED BY <1>t15, <4>1
    <3> QED BY <3>1, <3>2
  <2>7. (mem \in Id)'
    <3>1. CASE Recoverable
      <4>1. mem' = manifest.maxId + 1
        BY <1>25, <3>1 DEF OpenRecover, Create
      <4>2. /\ RecoveredMemtables \in Seq(Id) /\ LatestOf(Recovered) \in 0..MaxBatches
            /\ manifest.maxId + 1 \in Id
        BY <1>25, <3>1, RecoverFinds DEF OpenRecover
      <4> QED BY <1>g, <4>1, <4>2 DEF Id
    <3>2. CASE ~Recoverable
      <4>1. mem' = mem
        BY <1>25, <3>2 DEF OpenRecover
      <4> QED BY <1>t10, <4>1
    <3> QED BY <3>1, <3>2
  <2>8. (nextId \in 1..MaxId + 1)'
    <3>1. CASE Recoverable
      <4>1. nextId' = manifest.maxId + 1
        BY <1>25, <3>1 DEF OpenRecover, Create
      <4>2. /\ RecoveredMemtables \in Seq(Id) /\ LatestOf(Recovered) \in 0..MaxBatches
            /\ manifest.maxId + 1 \in Id
        BY <1>25, <3>1, RecoverFinds DEF OpenRecover
      <4> QED BY <1>g, <4>1, <4>2 DEF Id
    <3>2. CASE ~Recoverable
      <4>1. nextId' = nextId
        BY <1>25, <3>2 DEF OpenRecover
      <4> QED BY <1>t14, <4>1
    <3> QED BY <3>1, <3>2
  <2>9. (files \subseteq Name)'
    <3>1. CASE Recoverable
      <4>1. files' = files \cup {Wal(manifest.maxId + 1)} \/ files' = files
        BY <1>25, <3>1 DEF OpenRecover, Create
      <4>2. /\ RecoveredMemtables \in Seq(Id) /\ LatestOf(Recovered) \in 0..MaxBatches
            /\ manifest.maxId + 1 \in Id
        BY <1>25, <3>1, RecoverFinds DEF OpenRecover
      <4> QED BY <1>g, <1>t1, <4>1, <4>2 DEF Id, Name
    <3>2. CASE ~Recoverable
      <4>1. files' = files
        BY <1>25, <3>2 DEF OpenRecover
      <4> QED BY <1>t1, <4>1
    <3> QED BY <3>1, <3>2
  <2>10. (data \in Content)'
    BY <1>25, <1>g, <1>t4, <1>t15 DEF OpenRecover, Create, Content, IdLeft, Id
  <2>11. (written \in Content)'
    BY <1>25, <1>g, <1>t5, <1>t4 DEF OpenRecover, Create, Content, IdLeft, Id
  <2>12. (synced \in Content)'
    BY <1>25, <1>g, <1>t6, <1>t4 DEF OpenRecover, Create, Content, IdLeft, Id
  <2>13. (lock \in Position)'
    <3>1. CASE Recoverable
      <4>1. lock' = [at |-> "open.created", id |-> manifest.maxId + 1]
        BY <1>25, <3>1 DEF OpenRecover, Create
      <4>2. /\ RecoveredMemtables \in Seq(Id) /\ LatestOf(Recovered) \in 0..MaxBatches
            /\ manifest.maxId + 1 \in Id
        BY <1>25, <3>1, RecoverFinds DEF OpenRecover
      <4> QED BY <1>g, <1>t16, <4>1, <4>2 DEF Id, Position, Positions, OpenPositions
    <3>2. CASE ~Recoverable
      <4>1. lock' = lock
        BY <1>25, <3>2 DEF OpenRecover
      <4> QED BY <1>t16, <4>1
    <3> QED BY <3>1, <3>2
  <2> QED BY <1>t2, <1>t3, <1>t7, <1>t8, <1>t17, <1>t18, <1>t19, <1>t20, <1>t21, <2>1, <2>2, <2>3, <2>4, <2>5, <2>6, <2>7, <2>8, <2>9, <2>10, <2>11, <2>12, <2>13 DEF Typed
<1>26. CASE OpenRecord
  <2>1. files' = files /\ durable' = durable /\ data' = data /\ written' = written /\ synced' = synced /\ torn' = torn /\ sst' = sst /\ status' = status /\ mem' = mem /\ imm' = imm /\ l0' = l0 /\ l1' = l1 /\ ts' = ts /\ writer' = writer /\ compaction' = compaction /\ promised' = promised /\ setting' = setting /\ crashes' = crashes
    BY <1>26 DEF OpenRecord, RecordNewMemtable, AtLeast, At
  <2>2. (manifest \in Manifest)'
    BY <1>26, <1>g, <1>t3 DEF OpenRecord, RecordNewMemtable, AtLeast, At, Manifest, Id
  <2>3. (nextId \in 1..MaxId + 1)'
    <3>1. nextId' = lock.id + 1 /\ MaxId' = MaxId
      BY <1>26 DEF OpenRecord
    <3> QED BY <1>g, <3>1 DEF Id
  <2>4. (lock \in Position)'
    BY <1>26, <1>g, <1>t16 DEF OpenRecord, RecordNewMemtable, AtLeast, At, Position, Positions, FreezePositions, FlushPositions, CompactPositions, OpenPositions, IdLeft, Id
  <2> QED BY <1>t1, <1>t2, <1>t4, <1>t5, <1>t6, <1>t7, <1>t8, <1>t9, <1>t10, <1>t11, <1>t12, <1>t13, <1>t15, <1>t17, <1>t18, <1>t19, <1>t20, <1>t21, <2>1, <2>2, <2>3, <2>4 DEF Typed
<1>27. CASE OpenSyncDir
  <2>1. files' = files /\ manifest' = manifest /\ data' = data /\ written' = written /\ synced' = synced /\ torn' = torn /\ sst' = sst /\ mem' = mem /\ imm' = imm /\ l0' = l0 /\ l1' = l1 /\ nextId' = nextId /\ ts' = ts /\ writer' = writer /\ compaction' = compaction /\ promised' = promised /\ setting' = setting /\ crashes' = crashes
    BY <1>27 DEF OpenSyncDir, SyncDir, NoLock
  <2>2. (durable \subseteq Name)'
    BY <1>27, <1>g, <1>t2, <1>t1 DEF OpenSyncDir, SyncDir, NoLock, Name
  <2>3. (lock \in Position)'
    BY <1>27, <1>g, <1>t16 DEF OpenSyncDir, SyncDir, NoLock, Position, Positions, FreezePositions, FlushPositions, CompactPositions, OpenPositions, IdLeft, Id
  <2>4. (status \in {"down", "opening", "up", "closing", "failed"})'
    BY <1>27, <1>g, <1>t9 DEF OpenSyncDir, SyncDir, NoLock
  <2> QED BY <1>t1, <1>t3, <1>t4, <1>t5, <1>t6, <1>t7, <1>t8, <1>t10, <1>t11, <1>t12, <1>t13, <1>t14, <1>t15, <1>t17, <1>t18, <1>t19, <1>t20, <1>t21, <2>1, <2>2, <2>3, <2>4 DEF Typed
<1> QED BY <1>1, <1>2, <1>3, <1>4, <1>5, <1>6, <1>7, <1>8, <1>9, <1>10, <1>11, <1>12, <1>13, <1>14, <1>15, <1>16, <1>17, <1>18, <1>19, <1>20, <1>21, <1>22, <1>23, <1>24, <1>25, <1>26, <1>27
  DEF Next, WriterStep, FreezeStep, FlushStep, CompactStep, RestartStep

\* Every step keeps the threads where the phase allows them.
LEMMA PhasesStep ==
    ASSUME IInv, Next
    PROVE  Phases'
<1> USE DEF vars, diskVars, memoryVars, levelVars, threadVars
<1>a. Phases /\ Typed
  BY DEF IInv
<1>b. Phases
  BY <1>a
<1>c. lock.at \in Positions /\ lock \in Position
  BY <1>a DEF Typed, Position
<1>d. /\ ts \in Nat /\ MaxBatches \in Nat
      /\ status \in {"down", "opening", "up", "closing", "failed"}
  BY <1>a, Fields DEF Typed
<1>1. CASE Write
  BY <1>1, <1>b, <1>c, <1>d
  DEF Write, Phases, Alive, Running, EnableWal, RoomToReopen, NoCompaction, NoLock, Positions, FreezePositions, FlushPositions, CompactPositions, OpenPositions
<1>2. CASE Publish
  BY <1>2, <1>b, <1>c, <1>d
  DEF Publish, Phases, Alive, Running, EnableWal, RoomToReopen, NoCompaction, NoLock, Positions, FreezePositions, FlushPositions, CompactPositions, OpenPositions
<1>3. CASE Sync
  BY <1>3, <1>b, <1>c, <1>d
  DEF Sync, SyncLog, Phases, Alive, Running, EnableWal, RoomToReopen, NoCompaction, NoLock, Positions, FreezePositions, FlushPositions, CompactPositions, OpenPositions
<1>4. CASE FreezeCreate
  BY <1>4, <1>b, <1>c, <1>d
  DEF FreezeCreate, Create, Phases, Alive, Running, EnableWal, RoomToReopen, NoCompaction, NoLock, Positions, FreezePositions, FlushPositions, CompactPositions, OpenPositions
<1>5. CASE FreezeSwap
  BY <1>5, <1>b, <1>c, <1>d
  DEF FreezeSwap, At, Phases, Alive, Running, EnableWal, RoomToReopen, NoCompaction, NoLock, Positions, FreezePositions, FlushPositions, CompactPositions, OpenPositions
<1>6. CASE FreezeSyncWal
  BY <1>6, <1>b, <1>c, <1>d
  DEF FreezeSyncWal, SyncLog, At, Phases, Alive, Running, EnableWal, RoomToReopen, NoCompaction, NoLock, Positions, FreezePositions, FlushPositions, CompactPositions, OpenPositions
<1>7. CASE FreezeRecord
  BY <1>7, <1>b, <1>c, <1>d
  DEF FreezeRecord, At, RecordNewMemtable, AtLeast, Phases, Alive, Running, EnableWal, RoomToReopen, NoCompaction, NoLock, Positions, FreezePositions, FlushPositions, CompactPositions, OpenPositions
<1>8. CASE FreezeSyncDir
  BY <1>8, <1>b, <1>c, <1>d
  DEF FreezeSyncDir, SyncDir, NoLock, Phases, Alive, Running, EnableWal, RoomToReopen, NoCompaction, NoLock, Positions, FreezePositions, FlushPositions, CompactPositions, OpenPositions
<1>9. CASE FlushBuild
  BY <1>9, <1>b, <1>c, <1>d
  DEF FlushBuild, Create, Phases, Alive, Running, EnableWal, RoomToReopen, NoCompaction, NoLock, Positions, FreezePositions, FlushPositions, CompactPositions, OpenPositions
<1>10. CASE FlushInstall
  BY <1>10, <1>b, <1>c, <1>d
  DEF FlushInstall, At, Phases, Alive, Running, EnableWal, RoomToReopen, NoCompaction, NoLock, Positions, FreezePositions, FlushPositions, CompactPositions, OpenPositions
<1>11. CASE FlushRemoveWal
  BY <1>11, <1>b, <1>c, <1>d
  DEF FlushRemoveWal, At, Phases, Alive, Running, EnableWal, RoomToReopen, NoCompaction, NoLock, Positions, FreezePositions, FlushPositions, CompactPositions, OpenPositions
<1>12. CASE FlushRecord
  <2>1. lock.at = "flush.wal_removed" /\ Alive /\ FlushMid
    BY <1>12, <1>a DEF FlushRecord, Phases, Alive, FlushMid, NoLock, Typed
  <2>2. lock.id \in manifest.mems /\ lock.id <= manifest.maxId
    BY <2>1 DEF IInv, Recording, ManifestShape
  <2>3. AtLeast(manifest, lock.id) = manifest.maxId
    BY <2>2, Fields, <1>a DEF AtLeast, Id
  <2>4. manifest'.maxId = manifest.maxId
    BY <1>12, <2>3, <1>a DEF FlushRecord, RecordFlush, Typed, Manifest
  <2> QED BY <1>12, <1>a, <2>1, <2>4
      DEF FlushRecord, At, Phases, Alive, Typed, EnableWal, NoLock, Positions, FreezePositions, FlushPositions, CompactPositions, OpenPositions
<1>13. CASE FlushSyncDir
  BY <1>13, <1>b, <1>c, <1>d
  DEF FlushSyncDir, SyncDir, NoLock, Phases, Alive, Running, EnableWal, RoomToReopen, NoCompaction, NoLock, Positions, FreezePositions, FlushPositions, CompactPositions, OpenPositions
<1>14. CASE CompactStart
  BY <1>14, <1>b, <1>c, <1>d
  DEF CompactStart, NoCompaction, Phases, Alive, Running, EnableWal, RoomToReopen, NoCompaction, NoLock, Positions, FreezePositions, FlushPositions, CompactPositions, OpenPositions
<1>15. CASE CompactMerge
  BY <1>15, <1>b, <1>c, <1>d
  DEF CompactMerge, Create, Phases, Alive, Running, EnableWal, RoomToReopen, NoCompaction, NoLock, Positions, FreezePositions, FlushPositions, CompactPositions, OpenPositions
<1>16. CASE CompactInstall
  BY <1>16, <1>b, <1>c, <1>d
  DEF CompactInstall, Phases, Alive, Running, EnableWal, RoomToReopen, NoCompaction, NoLock, Positions, FreezePositions, FlushPositions, CompactPositions, OpenPositions
<1>17. CASE CompactSyncDir
  BY <1>17, <1>b, <1>c, <1>d
  DEF CompactSyncDir, SyncDir, At, Phases, Alive, Running, EnableWal, RoomToReopen, NoCompaction, NoLock, Positions, FreezePositions, FlushPositions, CompactPositions, OpenPositions
<1>18. CASE CompactRecord
  BY <1>18, <1>b, <1>c, <1>d
  DEF CompactRecord, RecordCompaction, AtLeast, NoLock, Phases, Alive, Running, EnableWal, RoomToReopen, NoCompaction, NoLock, Positions, FreezePositions, FlushPositions, CompactPositions, OpenPositions
<1>19. CASE CompactRemove
  BY <1>19, <1>b, <1>c, <1>d
  DEF CompactRemove, NoCompaction, SyncDir, Phases, Alive, Running, EnableWal, RoomToReopen, NoCompaction, NoLock, Positions, FreezePositions, FlushPositions, CompactPositions, OpenPositions
<1>20. CASE Close
  BY <1>20, <1>b, <1>c, <1>d
  DEF Close, SyncLog, Stopped, NoLock, NoCompaction, Phases, Alive, Running, EnableWal, RoomToReopen, NoCompaction, NoLock, Positions, FreezePositions, FlushPositions, CompactPositions, OpenPositions
<1>21. CASE CloseEnd
  BY <1>21, <1>b, <1>c, <1>d
  DEF CloseEnd, SyncDir, Stopped, NoLock, NoCompaction, Phases, Alive, Running, EnableWal, RoomToReopen, NoCompaction, NoLock, Positions, FreezePositions, FlushPositions, CompactPositions, OpenPositions
<1>22. CASE Crash
  BY <1>22, <1>b, <1>c, <1>d
  DEF Crash, Stopped, NoLock, NoCompaction, Phases, Alive, Running, EnableWal, RoomToReopen, NoCompaction, NoLock, Positions, FreezePositions, FlushPositions, CompactPositions, OpenPositions
<1>23. CASE OpenFresh
  BY <1>23, <1>b, <1>c, <1>d
  DEF OpenFresh, Create, Phases, Alive, Running, EnableWal, RoomToReopen, NoCompaction, NoLock, Positions, FreezePositions, FlushPositions, CompactPositions, OpenPositions
<1>24. CASE OpenManifest
  BY <1>24, <1>b, <1>c, <1>d
  DEF OpenManifest, Create, EmptyManifest, At, Phases, Alive, Running, EnableWal, RoomToReopen, NoCompaction, NoLock, Positions, FreezePositions, FlushPositions, CompactPositions, OpenPositions
<1>25. CASE OpenRecover
  BY <1>25, <1>b, <1>c, <1>d
  DEF OpenRecover, Create, Phases, Alive, Running, EnableWal, RoomToReopen, NoCompaction, NoLock, Positions, FreezePositions, FlushPositions, CompactPositions, OpenPositions
<1>26. CASE OpenRecord
  BY <1>26, <1>b, <1>c, <1>d
  DEF OpenRecord, RecordNewMemtable, AtLeast, At, Phases, Alive, Running, EnableWal, RoomToReopen, NoCompaction, NoLock, Positions, FreezePositions, FlushPositions, CompactPositions, OpenPositions
<1>27. CASE OpenSyncDir
  BY <1>27, <1>b, <1>c, <1>d
  DEF OpenSyncDir, SyncDir, NoLock, Phases, Alive, Running, EnableWal, RoomToReopen, NoCompaction, NoLock, Positions, FreezePositions, FlushPositions, CompactPositions, OpenPositions
<1> QED BY <1>1, <1>2, <1>3, <1>4, <1>5, <1>6, <1>7, <1>8, <1>9, <1>10, <1>11, <1>12, <1>13, <1>14, <1>15, <1>16, <1>17, <1>18, <1>19, <1>20, <1>21, <1>22, <1>23, <1>24, <1>25, <1>26, <1>27
  DEF Next, WriterStep, FreezeStep, FlushStep, CompactStep, RestartStep

\* Two positions of a sequence with distinct elements in descending order differ.
LEMMA DescendingLast ==
    ASSUME NEW s \in Seq(Id), s # <<>>, \A p, q \in 1..Len(s) : p < q => s[q] < s[p]
    PROVE  /\ Last(s) \notin Ids(Front(s))
           /\ Last(s) \in Id
           /\ \A p, q \in 1..Len(Front(s)) : p < q => Front(s)[q] < Front(s)[p]
<1>1. /\ Front(s) \in Seq(Id) /\ Len(Front(s)) = Len(s) - 1
      /\ Len(s) \in Nat \ {0}
      /\ \A p \in 1..Len(s) - 1 : Front(s)[p] = s[p]
      /\ Last(s) = s[Len(s)] /\ Last(s) \in Ids(s)
  BY FrontOf
<1>2. Last(s) \in Id
  BY <1>1, IdsOf
<1>3. ASSUME NEW p \in 1..Len(Front(s)), Front(s)[p] = Last(s) PROVE FALSE
  <2>1. p \in 1..Len(s) /\ Len(s) \in 1..Len(s) /\ p < Len(s) /\ s[p] = s[Len(s)]
    BY <1>1, <1>3
  <2>2. s[Len(s)] < s[p] /\ s[p] \in Nat
    <3>1. s[p] \in Id
      BY <2>1
    <3> QED BY <2>1, <3>1 DEF Id
  <2> QED BY <2>1, <2>2
<1>4. Last(s) \notin Ids(Front(s))
  BY <1>3 DEF Ids
<1>5. \A p, q \in 1..Len(Front(s)) : p < q => Front(s)[q] < Front(s)[p]
  BY <1>1
<1> QED BY <1>2, <1>4, <1>5

\* Every step keeps the ids distinct and the next one above them.
LEMMA IdsStep ==
    ASSUME IInv, Next
    PROVE  IdsFresh'
<1> USE DEF vars, diskVars, memoryVars, levelVars, threadVars
<1>a. Typed /\ Phases /\ IdsFresh /\ Holding /\ Compacting /\ ManifestShape /\ Recording
  BY DEF IInv
<1>t. /\ imm \in Seq(Id) /\ l0 \in Seq(Id) /\ l1 \in Seq(Id) /\ mem \in Id
      /\ Id = 0..MaxId /\ MaxId \in Nat /\ nextId \in 1..MaxId + 1
      /\ lock.id \in Id /\ compaction.out \in Id /\ compaction.l0 \in Seq(Id)
      /\ Listed \subseteq Id
  <2>1. Typed
    BY <1>a
  <2> QED BY <2>1, Fields, IdsOf DEF Listed
<1>f. ASSUME UNCHANGED <<mem, imm, l0, l1>>, nextId' \in Nat, nextId <= nextId',
             mem < nextId' \/ lock'.at = "open.created"
      PROVE  IdsFresh'
  <2>1. Listed' = Listed
    BY <1>f DEF Listed
  <2>2. \A i \in Listed : i < nextId'
    <3>1. \A i \in Listed : i < nextId /\ i \in Nat
      BY <1>a, <1>t DEF IdsFresh
    <3> QED BY <1>t, <1>f, <3>1
  <2> QED BY <1>a, <1>f, <2>1, <2>2 DEF IdsFresh
<1>e. ASSUME mem' = 0, imm' = <<>>, l0' = <<>>, l1' = <<>>, nextId' = 1
      PROVE  IdsFresh'
  <2>1. Listed' = {} /\ Ids(imm') = {} /\ Ids(l0') = {}
    BY <1>e, IdsOf DEF Listed
  <2>2. Len(imm') = 0 /\ Len(l0') = 0 /\ Len(l1') <= 1
    BY <1>e
  <2>3. Distinct(l0') /\ \A p, q \in 1..Len(imm') : p < q => imm'[q] < imm'[p]
    BY <2>2 DEF Distinct
  <2> QED BY <1>e, <2>1, <2>2, <2>3 DEF IdsFresh
\* The steps that leave ids alone.
<1>1. CASE Write \/ Publish \/ Sync \/ FreezeSyncWal \/ FreezeRecord \/ FreezeSyncDir
           \/ FlushBuild \/ FlushRemoveWal \/ FlushRecord \/ FlushSyncDir
           \/ CompactStart \/ CompactSyncDir \/ CompactRecord \/ CompactRemove
           \/ OpenFresh \/ OpenManifest \/ OpenSyncDir
  <2>1. UNCHANGED <<mem, imm, l0, l1, nextId>>
    BY <1>1 DEF Write, Publish, Sync, FreezeSyncWal, FreezeRecord, FreezeSyncDir, FlushBuild,
       FlushRemoveWal, FlushRecord, FlushSyncDir, CompactStart, CompactSyncDir,
       CompactRecord, CompactRemove, OpenFresh, OpenManifest, OpenSyncDir
  <2>2. mem < nextId \/ lock'.at = "open.created"
    <3>1. CASE lock.at # "open.created"
      BY <1>a, <3>1 DEF IdsFresh
    <3>2. CASE lock.at = "open.created"
      BY <1>1, <1>a, <3>2 DEF Write, Publish, Sync, FreezeSyncWal, FreezeRecord, FreezeSyncDir,
       FlushBuild, FlushRemoveWal, FlushRecord, FlushSyncDir, CompactStart, CompactSyncDir,
       CompactRecord, CompactRemove, OpenFresh, OpenManifest, OpenSyncDir, Phases, Alive,
       NoLock, OpenPositions, FlushPositions, Running, NoCompaction
    <3> QED BY <3>1, <3>2
  <2> QED BY <1>f, <1>t, <2>1, <2>2
<1>2. CASE FreezeCreate \/ CompactMerge
  <2>1. UNCHANGED <<mem, imm, l0, l1>> /\ nextId' = nextId + 1
    BY <1>2 DEF FreezeCreate, CompactMerge
  <2>2. status = "up"
    BY <1>2, <1>a DEF FreezeCreate, CompactMerge, Phases, Alive, Typed, NoCompaction
  <2>3. lock.at # "open.created"
    BY <1>a, <2>2 DEF Phases, OpenPositions
  <2>4. mem < nextId
    BY <1>a, <2>3 DEF IdsFresh
  <2> QED BY <1>f, <1>t, <2>1, <2>4
<1>3. CASE FreezeSwap
  <2>1. imm' = <<mem>> \o imm /\ mem' = lock.id /\ lock.at = "freeze.created"
        /\ UNCHANGED <<l0, l1, nextId>>
    BY <1>3 DEF FreezeSwap
  <2>2. mem < lock.id /\ lock.id < nextId /\ lock.id \notin Listed
    BY <1>a, <2>1 DEF Holding
  <2>3. /\ Len(imm') = Len(imm) + 1 /\ imm'[1] = mem
        /\ \A p \in 2..Len(imm) + 1 : imm'[p] = imm[p - 1]
        /\ Ids(imm') = {mem} \cup Ids(imm) /\ Len(imm) \in Nat
    BY <1>t, <2>1, Prepended
  <2>4. ASSUME NEW p \in 1..Len(imm'), NEW q \in 1..Len(imm'), p < q PROVE imm'[q] < imm'[p]
    <3>1. q \in 2..Len(imm) + 1 /\ q - 1 \in 1..Len(imm)
      BY <2>3, <2>4
    <3>2. imm'[q] = imm[q - 1] /\ imm[q - 1] \in Ids(imm)
      BY <2>3, <3>1 DEF Ids
    <3>3. CASE p = 1
      BY <1>a, <2>3, <3>2, <3>3 DEF IdsFresh
    <3>4. CASE p # 1
      <4>1. p \in 2..Len(imm) + 1 /\ p - 1 \in 1..Len(imm) /\ p - 1 < q - 1
        BY <2>3, <2>4, <3>4
      <4>2. imm[q - 1] < imm[p - 1]
        BY <1>a, <3>1, <4>1 DEF IdsFresh
      <4> QED BY <2>3, <3>2, <4>1, <4>2
    <3> QED BY <3>3, <3>4
  <2>5. \A i \in Ids(imm) : i < mem /\ i \in Nat
    BY <1>a, <1>t, IdsOf DEF IdsFresh
  <2>6. \A i \in Ids(imm') : i < mem'
    <3>1. mem' \in Nat /\ mem \in Nat /\ mem < mem'
      BY <1>t, <2>1, <2>2
    <3>2. \A i \in Ids(imm') : i = mem \/ i \in Ids(imm)
      BY <2>3
    <3> QED BY <2>5, <3>1, <3>2
  <2>7. Listed' = Listed \cup {mem} /\ mem \notin Listed
    BY <1>a, <2>1, <2>3 DEF Listed, IdsFresh, Ids
  <2>8. mem' \notin Listed' /\ \A i \in Listed' : i < nextId'
    BY <1>a, <1>t, <2>1, <2>2, <2>7 DEF IdsFresh
  <2>9. Ids(imm') \cap (Ids(l0) \cup Ids(l1)) = {}
    BY <1>a, <2>3, <2>7 DEF IdsFresh, Listed
  <2> QED BY <1>a, <2>1, <2>2, <2>4, <2>6, <2>8, <2>9 DEF IdsFresh
<1>4. CASE FlushInstall
  <2>1. /\ imm' = Front(imm) /\ l0' = <<lock.id>> \o l0 /\ lock.at = "flush.built"
        /\ UNCHANGED <<mem, l1, nextId>>
    BY <1>4 DEF FlushInstall
  <2>2. imm # <<>> /\ lock.id = Last(imm)
    BY <1>a, <2>1 DEF Holding
  <2>3. \A p, q \in 1..Len(imm) : p < q => imm[q] < imm[p]
    BY <1>a DEF IdsFresh
  <2>4. /\ lock.id \notin Ids(imm')
        /\ \A p, q \in 1..Len(imm') : p < q => imm'[q] < imm'[p]
    BY <1>t, <2>1, <2>2, <2>3, DescendingLast
  <2>5. Ids(imm) = Ids(imm') \cup {lock.id}
    BY <1>t, <2>1, <2>2, FrontOf
  <2>6. /\ Len(l0') = Len(l0) + 1 /\ l0'[1] = lock.id
        /\ \A p \in 2..Len(l0) + 1 : l0'[p] = l0[p - 1]
        /\ Ids(l0') = {lock.id} \cup Ids(l0) /\ Len(l0) \in Nat
    BY <1>t, <2>1, Prepended
  <2>7. lock.id \notin Ids(l0) \cup Ids(l1)
    BY <1>a, <2>5 DEF IdsFresh
  <2>8. Distinct(l0')
    <3>1. \A p \in 2..Len(l0) + 1 : p - 1 \in 1..Len(l0) /\ l0'[p] \in Ids(l0)
      BY <2>6 DEF Ids
    <3>2. \A p \in 1..Len(l0') : p = 1 \/ p \in 2..Len(l0) + 1
      BY <2>6
    <3>3. \A p, q \in 2..Len(l0) + 1 : l0'[p] = l0'[q] => p = q
      <4>1. \A p, q \in 1..Len(l0) : l0[p] = l0[q] => p = q
        BY <1>a DEF IdsFresh, Distinct
      <4> QED BY <2>6, <3>1, <4>1
    <3> QED BY <2>6, <2>7, <3>1, <3>2, <3>3 DEF Distinct
  <2>9. Listed' = Listed
    BY <2>1, <2>5, <2>6 DEF Listed
  <2>10. Ids(imm') \cap (Ids(l0') \cup Ids(l1)) = {} /\ Ids(l0') \cap Ids(l1) = {}
    BY <1>a, <2>4, <2>5, <2>6, <2>7 DEF IdsFresh
  <2>11. \A i \in Ids(imm') : i < mem
    BY <1>a, <2>5 DEF IdsFresh
  <2>12. mem < nextId
    BY <1>a, <2>1 DEF IdsFresh
  <2> QED BY <1>a, <2>1, <2>4, <2>8, <2>9, <2>10, <2>11, <2>12 DEF IdsFresh
<1>5. CASE CompactInstall
  <2>1. /\ l0' = Without(l0, compaction.l0) /\ l1' = <<compaction.out>>
        /\ compaction.at = "merged" /\ lock.at = "free" /\ UNCHANGED <<mem, imm, nextId>>
    BY <1>5 DEF CompactInstall
  <2>2. PICK u \in Seq(Id) : l0 = u \o compaction.l0 /\ l0' = u
    BY <2>1, InputsLast DEF CompactMid, CompactPositions
  <2>3. /\ Len(u) \in Nat /\ Len(l0) \in Nat /\ Len(u) <= Len(l0)
        /\ \A p \in 1..Len(u) : l0[p] = u[p]
    BY <1>t, <2>2
  <2>4. Ids(l0') \subseteq Ids(l0) /\ Ids(l1') = {compaction.out}
    BY <1>t, <2>1, <2>2, IdsOf
  <2>5. Distinct(l0')
    BY <1>a, <2>2, <2>3 DEF IdsFresh, Distinct
  <2>6. /\ compaction.out < nextId /\ compaction.out # mem
        /\ compaction.out \notin Ids(imm) \cup Ids(l0)
    BY <1>a, <2>1 DEF Compacting
  <2>7. Len(l1') = 1
    BY <2>1
  <2>8. Listed' \subseteq Listed \cup {compaction.out}
    BY <2>1, <2>4 DEF Listed
  <2>9. mem < nextId
    BY <1>a, <2>1 DEF IdsFresh
  <2>10. mem \notin Listed' /\ \A i \in Listed' : i < nextId
    BY <1>a, <2>6, <2>8 DEF IdsFresh
  <2>11. Ids(imm) \cap (Ids(l0') \cup Ids(l1')) = {} /\ Ids(l0') \cap Ids(l1') = {}
    BY <1>a, <2>4, <2>6 DEF IdsFresh
  <2> QED BY <1>a, <2>1, <2>5, <2>7, <2>9, <2>10, <2>11 DEF IdsFresh
<1>6. CASE Close
  <2>1. CASE EnableWal
    BY <1>6, <1>e, <2>1 DEF Close, Stopped
  <2>2. CASE ~EnableWal /\ data[mem] = {}
    <3>1. UNCHANGED <<mem, imm, l0, l1, nextId, lock>>
      BY <1>6, <2>2 DEF Close
    <3> QED BY <1>a, <1>f, <1>t, <3>1 DEF IdsFresh
  <2>3. CASE ~EnableWal /\ data[mem] # {}
    <3>1. /\ imm' = <<mem>> \o imm /\ mem' = nextId /\ nextId' = nextId + 1
          /\ UNCHANGED <<l0, l1>> /\ lock.at = "free"
      BY <1>6, <2>3 DEF Close
    <3>2. /\ Len(imm') = Len(imm) + 1 /\ imm'[1] = mem
          /\ \A p \in 2..Len(imm) + 1 : imm'[p] = imm[p - 1]
          /\ Ids(imm') = {mem} \cup Ids(imm) /\ Len(imm) \in Nat
      BY <1>t, <3>1, Prepended
    <3>3. ASSUME NEW p \in 1..Len(imm'), NEW q \in 1..Len(imm'), p < q
          PROVE  imm'[q] < imm'[p]
      <4>1. q \in 2..Len(imm) + 1 /\ q - 1 \in 1..Len(imm)
        BY <3>2, <3>3
      <4>2. imm'[q] = imm[q - 1] /\ imm[q - 1] \in Ids(imm)
        BY <3>2, <4>1 DEF Ids
      <4>3. CASE p = 1
        BY <1>a, <3>2, <4>2, <4>3 DEF IdsFresh
      <4>4. CASE p # 1
        <5>1. p \in 2..Len(imm) + 1 /\ p - 1 \in 1..Len(imm) /\ p - 1 < q - 1
          BY <3>2, <3>3, <4>4
        <5>2. imm[q - 1] < imm[p - 1]
          BY <1>a, <4>1, <5>1 DEF IdsFresh
        <5> QED BY <3>2, <4>2, <5>1, <5>2
      <4> QED BY <4>3, <4>4
    <3>4. mem < nextId /\ mem \notin Listed /\ \A i \in Listed : i < nextId /\ i \in Nat
      BY <1>a, <1>t, <3>1 DEF IdsFresh
    <3>5. Listed' = Listed \cup {mem} /\ Ids(imm) \subseteq Listed
      BY <3>1, <3>2 DEF Listed
    <3>6. mem' \notin Listed' /\ \A i \in Listed' : i < nextId'
      BY <1>t, <3>1, <3>4, <3>5
    <3>7. \A i \in Ids(imm') : i < mem'
      BY <3>1, <3>2, <3>4, <3>5
    <3>8. Ids(imm') \cap (Ids(l0) \cup Ids(l1)) = {}
      BY <1>a, <3>2, <3>4 DEF IdsFresh, Listed
    <3>9. mem' < nextId'
      BY <1>t, <3>1
    <3> QED BY <1>a, <3>1, <3>3, <3>6, <3>7, <3>8, <3>9 DEF IdsFresh
  <2> QED BY <2>1, <2>2, <2>3
<1>7. CASE CloseEnd \/ Crash
  BY <1>7, <1>e DEF CloseEnd, Crash, Stopped
<1>8. CASE OpenRecover
  <2>1. CASE ~Recoverable
    <3>1. UNCHANGED <<mem, imm, l0, l1, nextId, lock>>
      BY <1>8, <2>1 DEF OpenRecover
    <3> QED BY <1>a, <1>f, <1>t, <3>1 DEF IdsFresh
  <2>2. CASE Recoverable
    <3>1. /\ imm' = RecoveredMemtables /\ l0' = manifest.l0 /\ l1' = manifest.l1
          /\ mem' = manifest.maxId + 1 /\ nextId' = manifest.maxId + 1
          /\ lock'.at = "open.created" /\ status = "down" /\ ManifestFile \in files
      BY <1>8, <2>2 DEF OpenRecover
    <3>2. /\ Ids(imm') \subseteq manifest.mems
          /\ \A p, q \in 1..Len(imm') : p < q => imm'[q] < imm'[p]
      BY <2>2, <3>1, RecoverFinds
    <3>3. Ids(l0') \cup Ids(l1') = RecordedSsts
      BY <3>1 DEF RecordedSsts
    <3>4. /\ manifest.maxId \in Nat /\ manifest.mems \subseteq Nat /\ RecordedSsts \subseteq Nat
      <4>1. /\ manifest.maxId \in Id /\ manifest.mems \subseteq Id
            /\ manifest.l0 \in Seq(Id) /\ manifest.l1 \in Seq(Id)
        BY <1>a, Fields
      <4> QED BY <1>t, <4>1, IdsOf DEF RecordedSsts
    <3>5. \A i \in manifest.mems \cup RecordedSsts : i < manifest.maxId + 1
      <4>1. \A i \in manifest.mems \cup RecordedSsts : i <= manifest.maxId /\ i \in Nat
        BY <1>a, <3>4 DEF ManifestShape
      <4> QED BY <3>4, <4>1
    <3>6. Listed' \subseteq manifest.mems \cup RecordedSsts
      BY <3>2, <3>3 DEF Listed
    <3>7. mem' \notin Listed' /\ \A i \in Listed' : i < nextId'
      BY <3>1, <3>4, <3>5, <3>6
    <3>8. \A i \in Ids(imm') : i < mem'
      BY <3>1, <3>2, <3>5
    <3>9. Distinct(l0') /\ Len(l1') <= 1
      BY <1>a, <3>1 DEF ManifestShape
    <3>10. Ids(imm') \cap (Ids(l0') \cup Ids(l1')) = {} /\ Ids(l0') \cap Ids(l1') = {}
      BY <1>a, <3>1, <3>2, <3>3 DEF ManifestShape
    <3> QED BY <3>1, <3>2, <3>7, <3>8, <3>9, <3>10 DEF IdsFresh
  <2> QED BY <2>1, <2>2
<1>9. CASE OpenRecord
  <2>1. UNCHANGED <<mem, imm, l0, l1>> /\ nextId' = lock.id + 1 /\ lock.at = "open.created"
    BY <1>9 DEF OpenRecord
  <2>2. lock.id = mem /\ nextId <= mem + 1
    BY <1>a, <2>1 DEF Holding, OpenPositions
  <2> QED BY <1>f, <1>t, <2>1, <2>2
<1> QED BY <1>1, <1>2, <1>3, <1>4, <1>5, <1>6, <1>7, <1>8, <1>9
    DEF Next, WriterStep, FreezeStep, FlushStep, CompactStep, RestartStep

\* What the record of a new memtable changes.
LEMMA MemtableRecorded ==
    ASSUME IInv, FreezeRecord \/ OpenRecord
    PROVE  /\ manifest'.l0 = manifest.l0 /\ manifest'.l1 = manifest.l1
           /\ manifest'.mems = manifest.mems \cup {mem}
           /\ manifest'.maxId = AtLeast(manifest, mem)
           /\ manifest'.ok = manifest.ok /\ manifest.ok
           /\ manifest.l0 = l0 /\ manifest.l1 = l1
           /\ lock.id = mem /\ Alive
           /\ lock.at \in {"freeze.synced", "open.created"}
           /\ lock'.at \in {"freeze.recorded", "open.recorded"} /\ lock'.id = mem
           /\ Ids(imm) \subseteq manifest.mems
<1>1. lock.at \in {"freeze.synced", "open.created"}
  BY DEF FreezeRecord, OpenRecord
<1>2. lock.id = mem
  BY <1>1 DEF IInv, Holding, FreezePositions, OpenPositions
<1>3. Alive
  BY <1>1 DEF IInv, Phases, NoLock
<1>4. manifest.ok /\ manifest.l0 = l0 /\ manifest.l1 = l1 /\ Ids(imm) \subseteq manifest.mems
  BY <1>1, <1>3 DEF IInv, Recording, FlushMid, CompactMid, CompactPositions
<1>5. manifest' = RecordNewMemtable(manifest, mem)
  BY <1>2 DEF FreezeRecord, OpenRecord
<1>6. manifest \in Manifest /\ lock \in Position
  BY DEF IInv, Typed
<1>7. lock'.at \in {"freeze.recorded", "open.recorded"} /\ lock'.id = mem
  BY <1>2, <1>6 DEF FreezeRecord, OpenRecord, At, Position
<1> QED BY <1>1, <1>2, <1>3, <1>4, <1>5, <1>6, <1>7 DEF RecordNewMemtable, Manifest

\* What the record of a flush changes.
LEMMA FlushRecorded ==
    ASSUME IInv, FlushRecord
    PROVE  /\ manifest'.l0 = l0 /\ manifest'.l1 = l1 /\ manifest.l1 = l1
           /\ l0 = <<lock.id>> \o manifest.l0
           /\ manifest'.mems = manifest.mems \ {lock.id} /\ lock.id \in manifest.mems
           /\ manifest'.maxId = manifest.maxId
           /\ manifest'.ok = TRUE
           /\ lock'.at = "flush.recorded" /\ lock'.id = lock.id
           /\ lock.at = "flush.wal_removed" /\ Alive /\ FlushMid
<1>1. lock.at = "flush.wal_removed" /\ FlushMid /\ ~CompactMid
  BY DEF FlushRecord, FlushMid, CompactMid, CompactPositions
<1>2. Alive
  BY <1>1 DEF IInv, Phases, NoLock
<1>3. /\ manifest.ok /\ l0 = <<lock.id>> \o manifest.l0 /\ manifest.l1 = l1
      /\ lock.id \in manifest.mems
  BY <1>1, <1>2 DEF IInv, Recording
<1>4. manifest \in Manifest /\ lock \in Position /\ lock.id \in Nat /\ manifest.maxId \in Nat
  <2>1. lock.id \in Id /\ manifest.maxId \in Id /\ Id \subseteq Nat
    BY Fields DEF IInv
  <2> QED BY <2>1 DEF IInv, Typed
<1>5. AtLeast(manifest, lock.id) = manifest.maxId
  BY <1>3, <1>4 DEF IInv, ManifestShape, AtLeast
<1>6. manifest' = RecordFlush(manifest, lock.id)
  BY DEF FlushRecord
<1>7. /\ manifest'.l0 = <<lock.id>> \o manifest.l0 /\ manifest'.l1 = manifest.l1
      /\ manifest'.mems = manifest.mems \ {lock.id}
      /\ manifest'.maxId = AtLeast(manifest, lock.id)
      /\ manifest'.ok = (manifest.ok /\ lock.id \in manifest.mems)
  BY <1>4, <1>6 DEF RecordFlush, Manifest
<1>8. lock'.at = "flush.recorded" /\ lock'.id = lock.id
  BY <1>4 DEF FlushRecord, At, Position
<1> QED BY <1>1, <1>2, <1>3, <1>5, <1>7, <1>8

\* What the record of a compaction changes.
LEMMA CompactionRecorded ==
    ASSUME IInv, CompactRecord
    PROVE  /\ manifest'.l0 = l0 /\ manifest'.l1 = l1 /\ l1 = <<compaction.out>>
           /\ manifest'.mems = manifest.mems
           /\ manifest'.maxId = AtLeast(manifest, compaction.out)
           /\ manifest'.ok = TRUE
           /\ manifest.l0 = l0 \o compaction.l0 /\ manifest.l1 = compaction.l1
           /\ Ids(l0) \subseteq Ids(manifest.l0)
           /\ compaction.at = "merged" /\ CompactMid /\ Alive
           /\ lock' = NoLock
<1>1. lock.at = "compact.dir_synced" /\ CompactMid /\ ~FlushMid /\ lock' = NoLock
  BY DEF CompactRecord, CompactMid, FlushMid, CompactPositions
<1>2. /\ manifest.l0 = l0 \o compaction.l0 /\ manifest.l1 = compaction.l1
      /\ Without(manifest.l0, compaction.l0) = l0
      /\ Alive
  BY <1>1, InputsLastRecorded DEF Alive
<1>3. manifest.ok
  BY <1>1, <1>2 DEF IInv, Recording
<1>4. l0 \in Seq(Id) /\ compaction.l0 \in Seq(Id) /\ manifest \in Manifest
  BY Fields DEF IInv, Typed
<1>5. Ids(manifest.l0) = Ids(l0) \cup Ids(compaction.l0)
  BY <1>2, <1>4, IdsOf
<1>6. compaction.at = "merged" /\ l1 = <<compaction.out>>
  BY <1>1 DEF IInv, Holding
<1>7. manifest' = RecordCompaction(manifest, compaction)
  BY DEF CompactRecord
<1>8. /\ manifest'.l0 = Without(manifest.l0, compaction.l0)
      /\ manifest'.l1 = <<compaction.out>>
      /\ manifest'.mems = manifest.mems
      /\ manifest'.maxId = AtLeast(manifest, compaction.out)
      /\ manifest'.ok = (/\ manifest.ok /\ Ids(compaction.l0) \subseteq Ids(manifest.l0)
                         /\ compaction.l1 = manifest.l1)
  BY <1>4, <1>7 DEF RecordCompaction, Manifest
<1> QED BY <1>1, <1>2, <1>3, <1>5, <1>6, <1>8

\* No other step touches the manifest, but open when there is none.
LEMMA ManifestKept ==
    ASSUME Next, ~FreezeRecord, ~OpenRecord, ~FlushRecord, ~CompactRecord, ~OpenManifest
    PROVE  manifest' = manifest
<1> USE DEF vars, diskVars, memoryVars, levelVars, threadVars
<1>1. CASE WriterStep
  BY <1>1 DEF WriterStep, Write, Publish, Sync
<1>2. CASE FreezeStep
  BY <1>2 DEF FreezeStep, FreezeCreate, FreezeSwap, FreezeSyncWal, FreezeSyncDir
<1>3. CASE FlushStep
  BY <1>3 DEF FlushStep, FlushBuild, FlushInstall, FlushRemoveWal, FlushSyncDir
<1>4. CASE CompactStep
  BY <1>4 DEF CompactStep, CompactStart, CompactMerge, CompactInstall, CompactSyncDir,
              CompactRemove
<1>5. CASE RestartStep
  BY <1>5 DEF RestartStep, Close, CloseEnd, Crash, OpenFresh, OpenRecover, OpenSyncDir
<1> QED BY <1>1, <1>2, <1>3, <1>4, <1>5 DEF Next

\* Every step keeps the ids in the manifest distinct.
LEMMA ManifestStep ==
    ASSUME IInv, Next
    PROVE  ManifestShape'
<1> USE DEF vars, diskVars, memoryVars, levelVars, threadVars
<1>a. Typed /\ IdsFresh /\ Compacting /\ ManifestShape
  BY DEF IInv
<1>t. /\ mem \in Nat /\ manifest.maxId \in Nat /\ compaction.out \in Nat
      /\ manifest.mems \subseteq Nat /\ Ids(manifest.l0) \subseteq Nat
      /\ Ids(manifest.l1) \subseteq Nat
  <2>1. /\ mem \in Id /\ manifest.maxId \in Id /\ compaction.out \in Id
        /\ manifest.mems \subseteq Id /\ manifest.l0 \in Seq(Id) /\ manifest.l1 \in Seq(Id)
        /\ Id \subseteq Nat
    BY <1>a, Fields
  <2> QED BY <2>1, IdsOf
<1>1. CASE FreezeRecord \/ OpenRecord
  <2>1. /\ manifest'.l0 = manifest.l0 /\ manifest'.l1 = manifest.l1
        /\ manifest'.mems = manifest.mems \cup {mem}
        /\ manifest'.maxId = AtLeast(manifest, mem)
        /\ manifest.l0 = l0 /\ manifest.l1 = l1
    BY <1>1, MemtableRecorded
  <2>2. RecordedSsts' = RecordedSsts /\ RecordedSsts = Ids(l0) \cup Ids(l1)
    BY <2>1 DEF RecordedSsts
  <2>3. mem \notin RecordedSsts
    BY <1>a, <2>2 DEF IdsFresh, Listed
  <2>4. \A i \in manifest'.mems \cup RecordedSsts' : i <= manifest'.maxId
    <3>1. manifest'.maxId \in Nat /\ mem <= manifest'.maxId /\ manifest.maxId <= manifest'.maxId
      BY <1>t, <2>1 DEF AtLeast
    <3>2. \A i \in manifest.mems \cup RecordedSsts : i <= manifest.maxId /\ i \in Nat
      BY <1>a, <1>t DEF ManifestShape, RecordedSsts
    <3>3. \A i \in manifest'.mems \cup RecordedSsts' :
             i = mem \/ i \in manifest.mems \cup RecordedSsts
      BY <2>1, <2>2
    <3> QED BY <1>t, <3>1, <3>2, <3>3
  <2>5. manifest'.mems \cap RecordedSsts' = {}
    BY <1>a, <2>1, <2>2, <2>3 DEF ManifestShape
  <2> QED BY <1>a, <2>1, <2>4, <2>5 DEF ManifestShape
<1>2. CASE FlushRecord
  <2>1. /\ manifest'.l0 = l0 /\ manifest'.l1 = l1 /\ manifest.l1 = l1
        /\ l0 = <<lock.id>> \o manifest.l0
        /\ manifest'.mems = manifest.mems \ {lock.id} /\ lock.id \in manifest.mems
        /\ manifest'.maxId = manifest.maxId
    BY <1>2, FlushRecorded
  <2>2. Ids(l0) = {lock.id} \cup Ids(manifest.l0)
    <3>1. lock.id \in Id /\ manifest.l0 \in Seq(Id)
      BY <1>a, Fields
    <3> QED BY <2>1, <3>1, Prepended
  <2>3. RecordedSsts' = RecordedSsts \cup {lock.id}
    BY <2>1, <2>2 DEF RecordedSsts
  <2>4. Distinct(l0) /\ Len(l1) <= 1 /\ Ids(l0) \cap Ids(l1) = {}
    BY <1>a DEF IdsFresh
  <2>5. manifest'.mems \cap RecordedSsts' = {}
    BY <1>a, <2>1, <2>3 DEF ManifestShape
  <2>6. \A i \in manifest'.mems \cup RecordedSsts' : i <= manifest'.maxId
    BY <1>a, <2>1, <2>3 DEF ManifestShape
  <2> QED BY <2>1, <2>4, <2>5, <2>6 DEF ManifestShape
<1>3. CASE CompactRecord
  <2>1. /\ manifest'.l0 = l0 /\ manifest'.l1 = l1 /\ l1 = <<compaction.out>>
        /\ manifest'.mems = manifest.mems
        /\ manifest'.maxId = AtLeast(manifest, compaction.out)
        /\ Ids(l0) \subseteq Ids(manifest.l0) /\ compaction.at = "merged"
    BY <1>3, CompactionRecorded
  <2>2. Ids(l1) = {compaction.out}
    <3>1. compaction.out \in Id
      BY <1>a, Fields
    <3> QED BY <2>1, <3>1, IdsOf
  <2>3. RecordedSsts' \subseteq RecordedSsts \cup {compaction.out}
    BY <2>1, <2>2 DEF RecordedSsts
  <2>4. compaction.out \notin manifest.mems
    BY <1>a, <2>1 DEF Compacting
  <2>5. Distinct(l0) /\ Len(l1) <= 1 /\ Ids(l0) \cap Ids(l1) = {}
    BY <1>a DEF IdsFresh
  <2>6. \A i \in manifest'.mems \cup RecordedSsts' : i <= manifest'.maxId
    <3>1. /\ manifest'.maxId \in Nat /\ compaction.out <= manifest'.maxId
          /\ manifest.maxId <= manifest'.maxId
      BY <1>t, <2>1 DEF AtLeast
    <3>2. \A i \in manifest.mems \cup RecordedSsts : i <= manifest.maxId /\ i \in Nat
      BY <1>a, <1>t DEF ManifestShape, RecordedSsts
    <3>3. \A i \in manifest'.mems \cup RecordedSsts' :
             i = compaction.out \/ i \in manifest.mems \cup RecordedSsts
      BY <2>1, <2>3
    <3> QED BY <1>t, <3>1, <3>2, <3>3
  <2>7. manifest'.mems \cap RecordedSsts' = {}
    BY <1>a, <2>1, <2>3, <2>4 DEF ManifestShape
  <2> QED BY <2>1, <2>5, <2>6, <2>7 DEF ManifestShape
<1>4. CASE OpenManifest
  <2>1. manifest' = EmptyManifest
    BY <1>4 DEF OpenManifest
  <2>2. /\ manifest'.l0 = <<>> /\ manifest'.l1 = <<>> /\ manifest'.mems = {}
    BY <2>1 DEF EmptyManifest
  <2>3. RecordedSsts' = {} /\ Ids(manifest'.l0) = {}
    BY <2>2, IdsOf DEF RecordedSsts
  <2>4. Distinct(manifest'.l0) /\ Len(manifest'.l1) <= 1
    BY <2>2 DEF Distinct
  <2> QED BY <2>2, <2>3, <2>4 DEF ManifestShape
<1>5. CASE manifest' = manifest
  BY <1>a, <1>5 DEF ManifestShape, RecordedSsts
<1> QED BY <1>1, <1>2, <1>3, <1>4, <1>5, ManifestKept

\* Every step keeps what is known of the holder of state_lock.
LEMMA HoldingStep ==
    ASSUME IInv, Next
    PROVE  Holding'
<1> USE DEF vars, diskVars, memoryVars, levelVars, threadVars
<1>a. Typed /\ Phases /\ IdsFresh /\ Holding /\ Compacting /\ Recording
  BY DEF IInv
<1>t. /\ imm \in Seq(Id) /\ l0 \in Seq(Id) /\ l1 \in Seq(Id) /\ mem \in Id
      /\ Id = 0..MaxId /\ MaxId \in Nat /\ nextId \in 1..MaxId + 1
      /\ lock.id \in Id /\ compaction.out \in Id /\ lock \in Position
      /\ data \in Content /\ sst \in Content /\ compaction \in Compaction
      /\ Listed \subseteq Id /\ Id \subseteq Nat /\ mem \in Nat
  <2>1. Typed
    BY <1>a
  <2>2. lock \in Position /\ data \in Content /\ sst \in Content /\ compaction \in Compaction
    BY <2>1 DEF Typed
  <2>3. /\ imm \in Seq(Id) /\ l0 \in Seq(Id) /\ l1 \in Seq(Id) /\ mem \in Id
        /\ Id = 0..MaxId /\ MaxId \in Nat /\ nextId \in 1..MaxId + 1
        /\ lock.id \in Id /\ compaction.out \in Id
    BY <2>1, Fields
  <2>4. Listed \subseteq Id
    BY <2>3, IdsOf DEF Listed
  <2>5. Id \subseteq Nat
    BY <2>3
  <2> QED BY <2>2, <2>3, <2>4, <2>5
<1>p. /\ "free" \notin FreezePositions \cup FlushPositions \cup CompactPositions \cup OpenPositions
      /\ "free" \notin {"flush.installed", "flush.wal_removed"}
  BY DEF FreezePositions, FlushPositions, CompactPositions, OpenPositions
<1>z. ASSUME lock'.at = "free" PROVE Holding'
  <2>1. ~FlushMid' /\ ~CompactMid'
    BY <1>z, <1>p DEF FlushMid, CompactMid
  <2> QED BY <1>z, <1>p, <2>1 DEF Holding
<1>1. CASE FreezeSyncDir \/ FlushSyncDir \/ CompactRecord \/ CloseEnd \/ Crash
           \/ OpenSyncDir
  BY <1>1, <1>z DEF FreezeSyncDir, FlushSyncDir, CompactRecord, CloseEnd, Crash,
     Stopped, OpenSyncDir, NoLock
<1>2. CASE Close
  <2>1. lock.at = "free" /\ (lock' = lock \/ lock' = NoLock)
    BY <1>2 DEF Close, Stopped
  <2> QED BY <2>1, <1>z DEF NoLock
\* The steps of the other threads.
<1>3. CASE Publish \/ Sync \/ CompactStart \/ CompactRemove
  <2>1. /\ UNCHANGED <<lock, mem, imm, l0, l1, nextId, data, sst, manifest>>
        /\ \/ compaction'.at = compaction.at /\ compaction'.out = compaction.out
           \/ compaction.at \in {"idle", "removing"}
    BY <1>3, <1>t DEF Publish, Sync, CompactStart, CompactRemove, Compaction
  <2>2. FlushMid' = FlushMid /\ CompactMid' = CompactMid /\ Listed' = Listed
    BY <2>1 DEF FlushMid, CompactMid, Listed
  <2>3. CompactMid' => compaction'.at = "merged" /\ lock.id = compaction'.out
    BY <1>a, <2>1, <2>2 DEF Holding
  <2> QED BY <1>a, <2>1, <2>2, <2>3 DEF Holding
<1>4. CASE Write
  <2>1. /\ UNCHANGED <<lock, mem, imm, l0, l1, nextId, sst, manifest, compaction>>
        /\ data' = [data EXCEPT ![mem] = @ \cup {ts + 1}] /\ status = "up"
    BY <1>4 DEF Write
  <2>2. FlushMid' = FlushMid /\ CompactMid' = CompactMid /\ Listed' = Listed
    BY <2>1 DEF FlushMid, CompactMid, Listed
  <2>3. \A i \in Id : i # mem => data'[i] = data[i]
    BY <1>t, <2>1 DEF Content
  <2>4. data'[mem] # {}
    BY <1>t, <2>1 DEF Content
  <2>5. lock.at \notin OpenPositions
    BY <1>a, <2>1 DEF Phases
  <2>6. lock.at = "freeze.created" => data'[lock.id] = {}
    BY <1>a, <1>t, <2>3 DEF Holding
  <2>7. lock.at = "flush.built" => sst[lock.id] = data'[lock.id]
    <3>1. lock.at = "flush.built" => lock.id \in Ids(imm)
      BY <1>a, <1>t, FrontOf DEF Holding
    <3>2. lock.at = "flush.built" => lock.id # mem
      BY <1>a, <3>1 DEF IdsFresh, Listed
    <3> QED BY <1>a, <1>t, <2>3, <3>2 DEF Holding
  <2>8. FlushMid => sst[lock.id] = data'[lock.id]
    <3>1. FlushMid => lock.id < mem /\ sst[lock.id] = data[lock.id]
      BY <1>a DEF Holding
    <3>2. FlushMid => lock.id # mem
      BY <1>t, <3>1
    <3> QED BY <1>t, <2>3, <3>1, <3>2
  <2>9. "open.fresh" \in OpenPositions
    BY DEF OpenPositions
  <2> QED BY <1>a, <2>1, <2>2, <2>4, <2>5, <2>6, <2>7, <2>8, <2>9 DEF Holding
<1>5. CASE CompactMerge
  <2>1. /\ UNCHANGED <<lock, mem, imm, l0, l1, data, manifest>>
        /\ nextId' = nextId + 1 /\ compaction.at = "merging"
    BY <1>5 DEF CompactMerge
  <2>2. FlushMid' = FlushMid /\ CompactMid' = CompactMid /\ Listed' = Listed
    BY <2>1 DEF FlushMid, CompactMid, Listed
  <2>3. ~CompactMid /\ status = "up"
    BY <1>a, <2>1 DEF Holding, Phases, Alive, NoCompaction, Typed
  <2>4. lock.at \notin OpenPositions /\ "open.fresh" \in OpenPositions
    BY <1>a, <2>3 DEF Phases, OpenPositions
  <2>5. \A i \in Id : i # nextId => sst'[i] = sst[i]
    BY <1>5, <1>t DEF CompactMerge, Content
  <2>6. \A i \in Listed : i # nextId
    BY <1>a, <1>t DEF IdsFresh
  <2>7. lock.at = "flush.built" => sst'[lock.id] = data[lock.id]
    <3>1. lock.at = "flush.built" => lock.id \in Ids(imm)
      BY <1>a, <1>t, FrontOf DEF Holding
    <3> QED BY <1>a, <1>t, <2>5, <2>6, <3>1 DEF Holding, Listed
  <2>8. FlushMid => sst'[lock.id] = data[lock.id]
    <3>1. FlushMid => lock.id < mem
      BY <1>a DEF Holding
    <3>2. mem < nextId
      BY <1>a, <2>4 DEF IdsFresh, OpenPositions
    <3>3. FlushMid => lock.id # nextId
      BY <1>t, <3>1, <3>2
    <3> QED BY <1>a, <1>t, <2>5, <3>3 DEF Holding
  <2>9. lock.at = "freeze.created" => lock.id < nextId'
    BY <1>a, <1>t, <2>1 DEF Holding
  <2> QED BY <1>a, <2>1, <2>2, <2>3, <2>4, <2>7, <2>8, <2>9 DEF Holding
\* A freeze.
<1>6. CASE FreezeCreate
  <2>1. /\ lock' = [at |-> "freeze.created", id |-> nextId] /\ nextId' = nextId + 1
        /\ UNCHANGED <<mem, imm, l0, l1, manifest>>
        /\ data' = [data EXCEPT ![nextId] = {}]
        /\ status = "up" /\ lock.at = "free" /\ nextId \in Id
    BY <1>6, <1>t DEF FreezeCreate, IdLeft
  <2>2. mem < nextId /\ \A i \in Listed \cup manifest.mems : i < nextId
    BY <1>a, <2>1 DEF IdsFresh, Recording, Alive
  <2>3. Listed' = Listed
    BY <2>1 DEF Listed
  <2>4. data[mem] # {}
    <3>1. data[mem] # {} \/ Cardinality(data[mem]) >= MemtableLimit
      BY <1>6 DEF FreezeCreate
    <3>2. Cardinality({}) = 0 /\ MemtableLimit \in Nat \ {0}
      BY FS_EmptySet, DurabilityAssumption
    <3> QED BY <3>1, <3>2
  <2>5. data'[nextId] = {} /\ data'[mem] # {}
    BY <1>t, <2>1, <2>2, <2>4 DEF Content
  <2>6. nextId \notin Listed \cup manifest.mems /\ nextId < nextId'
    <3>1. ~(nextId < nextId) /\ nextId < nextId'
      BY <1>t, <2>1
    <3> QED BY <2>2, <3>1
  <2>7. lock'.at = "freeze.created" /\ lock'.id = nextId
    BY <2>1
  <2>8. ~FlushMid' /\ ~CompactMid'
    BY <2>7 DEF FlushMid, CompactMid, CompactPositions
  <2> QED BY <2>1, <2>2, <2>3, <2>5, <2>6, <2>7, <2>8
      DEF Holding, FreezePositions, FlushPositions, OpenPositions
<1>7. CASE FreezeSwap
  <2>1. /\ lock'.at = "freeze.swapped" /\ lock'.id = lock.id /\ mem' = lock.id
        /\ imm' = <<mem>> \o imm
    BY <1>7, <1>t DEF FreezeSwap, At, Position
  <2>2. imm' # <<>>
    BY <1>t, <2>1
  <2>3. ~FlushMid' /\ ~CompactMid'
    BY <2>1 DEF FlushMid, CompactMid, CompactPositions
  <2>4. lock.id \notin manifest.mems /\ manifest' = manifest
    BY <1>7, <1>a DEF FreezeSwap, Holding
  <2> QED BY <2>1, <2>2, <2>3, <2>4 DEF Holding, FreezePositions, FlushPositions, OpenPositions
<1>8. CASE FreezeSyncWal \/ FreezeRecord
  <2>1. /\ lock'.at \in {"freeze.synced", "freeze.recorded"} /\ lock'.id = lock.id
        /\ mem' = mem /\ lock.at \in {"freeze.swapped", "freeze.synced"}
    BY <1>8, <1>t DEF FreezeSyncWal, FreezeRecord, At, Position
  <2>2. lock.id = mem
    BY <1>a, <2>1 DEF Holding, FreezePositions
  <2>3. ~FlushMid' /\ ~CompactMid'
    BY <2>1 DEF FlushMid, CompactMid, CompactPositions
  <2> QED BY <2>1, <2>2, <2>3 DEF Holding, FreezePositions, FlushPositions, OpenPositions
\* A flush.
<1>9. CASE FlushBuild
  <2>1. /\ lock'.at = "flush.built" /\ lock'.id = Last(imm) /\ imm' = imm /\ imm # <<>>
        /\ data' = data /\ sst' = [sst EXCEPT ![Last(imm)] = data[Last(imm)]]
    BY <1>9 DEF FlushBuild
  <2>2. Last(imm) \in Id
    BY <1>t, <2>1, FrontOf, IdsOf
  <2>3. sst'[Last(imm)] = data[Last(imm)]
    BY <1>t, <2>1, <2>2 DEF Content
  <2>4. ~FlushMid' /\ ~CompactMid'
    BY <2>1 DEF FlushMid, CompactMid, CompactPositions
  <2> QED BY <2>1, <2>3, <2>4 DEF Holding, FreezePositions, FlushPositions, OpenPositions
<1>10. CASE FlushInstall
  <2>1. /\ lock'.at = "flush.installed" /\ lock'.id = lock.id /\ lock.at = "flush.built"
        /\ l0' = <<lock.id>> \o l0 /\ UNCHANGED <<mem, data, sst>>
    BY <1>10, <1>t DEF FlushInstall, At, Position
  <2>2. l0' # <<>> /\ l0'[1] = lock.id
    BY <1>t, <2>1
  <2>3. lock.id = Last(imm) /\ imm # <<>> /\ sst[lock.id] = data[lock.id]
    BY <1>a, <2>1 DEF Holding
  <2>4. lock.id < mem
    BY <1>a, <1>t, <2>3, FrontOf DEF IdsFresh
  <2>5. ~CompactMid'
    BY <2>1 DEF CompactMid, CompactPositions
  <2>6. \A i \in Ids(imm') : lock.id < i
    <3>1. /\ imm' = Front(imm) /\ Len(imm') = Len(imm) - 1 /\ Len(imm) \in Nat \ {0}
          /\ \A p \in 1..Len(imm) - 1 : imm'[p] = imm[p]
          /\ lock.id = imm[Len(imm)]
      BY <1>10, <1>t, <2>3, FrontOf DEF FlushInstall
    <3>2. \A p \in 1..Len(imm') : /\ p \in 1..Len(imm) - 1 /\ p \in 1..Len(imm)
                                 /\ p < Len(imm) /\ Len(imm) \in 1..Len(imm)
      BY <3>1
    <3>3. \A p \in 1..Len(imm') : lock.id < imm'[p]
      BY <1>a, <3>1, <3>2 DEF IdsFresh
    <3> QED BY <3>3 DEF Ids
  <2> QED BY <2>1, <2>2, <2>3, <2>4, <2>5, <2>6
      DEF Holding, FreezePositions, FlushPositions, OpenPositions
<1>11. CASE FlushRemoveWal \/ FlushRecord
  <2>1. /\ lock'.at \in {"flush.wal_removed", "flush.recorded"} /\ lock'.id = lock.id
        /\ lock.at \in {"flush.installed", "flush.wal_removed"}
        /\ UNCHANGED <<mem, imm, l0, data, sst>>
    BY <1>11, <1>t DEF FlushRemoveWal, FlushRecord, At, Position
  <2>2. /\ l0 # <<>> /\ lock.id = l0[1] /\ sst[lock.id] = data[lock.id] /\ lock.id < mem
        /\ \A i \in Ids(imm) : lock.id < i
    BY <1>a, <2>1 DEF Holding, FlushMid, FlushPositions
  <2>3. ~CompactMid'
    BY <2>1 DEF CompactMid, CompactPositions
  <2> QED BY <2>1, <2>2, <2>3 DEF Holding, FreezePositions, FlushPositions, OpenPositions
\* A compaction.
<1>12. CASE CompactInstall
  <2>1. /\ lock'.at = "compact.installed" /\ lock'.id = compaction.out
        /\ l1' = <<compaction.out>> /\ compaction.at = "merged" /\ compaction' = compaction
    BY <1>12 DEF CompactInstall
  <2>2. ~FlushMid'
    BY <2>1 DEF FlushMid
  <2> QED BY <2>1, <2>2 DEF Holding, FreezePositions, FlushPositions, OpenPositions
<1>13. CASE CompactSyncDir
  <2>1. /\ lock'.at = "compact.dir_synced" /\ lock'.id = lock.id
        /\ UNCHANGED <<l1, compaction>> /\ CompactMid
    BY <1>13, <1>t DEF CompactSyncDir, At, Position, CompactMid, CompactPositions
  <2>2. ~FlushMid'
    BY <2>1 DEF FlushMid
  <2> QED BY <1>a, <2>1, <2>2 DEF Holding, FreezePositions, FlushPositions, OpenPositions
\* Open.
<1>14. CASE OpenFresh
  <2>1. status = "down" /\ mem = 0 /\ imm = <<>> /\ l0 = <<>> /\ l1 = <<>> /\ nextId = 1
        /\ lock = NoLock
    BY <1>14, <1>a DEF OpenFresh, Phases, Alive
  <2>2. CASE ~Recoverable
    BY <1>14, <1>z, <2>1, <2>2 DEF OpenFresh, NoLock
  <2>3. CASE Recoverable
    <3>1. /\ lock'.at = "open.fresh" /\ lock'.id = 0 /\ data' = [data EXCEPT ![0] = {}]
          /\ mem' = 0 /\ imm' = <<>> /\ l0' = <<>> /\ l1' = <<>> /\ nextId' = 1
      BY <1>14, <2>1, <2>3 DEF OpenFresh
    <3>2. data'[0] = {}
      BY <1>t, <2>1, <3>1 DEF Content
    <3>3. Listed' = {}
      BY <3>1, IdsOf DEF Listed
    <3>4. ~FlushMid' /\ ~CompactMid'
      BY <3>1 DEF FlushMid, CompactMid, CompactPositions
    <3> QED BY <3>1, <3>2, <3>3, <3>4 DEF Holding, FreezePositions, FlushPositions, OpenPositions
  <2> QED BY <2>2, <2>3
<1>15. CASE OpenManifest \/ OpenRecord
  <2>1. /\ lock'.at \in {"open.created", "open.recorded"} /\ lock'.id = lock.id
        /\ UNCHANGED <<mem, imm, l0, l1, data>>
        /\ nextId' = nextId \/ nextId' = lock.id + 1
        /\ lock.at \in OpenPositions
    BY <1>15, <1>t DEF OpenManifest, OpenRecord, At, Position, OpenPositions
  <2>2. /\ lock.id = mem /\ data[mem] = {} /\ nextId <= mem + 1
        /\ \A i \in Listed : i < mem
    BY <1>a, <2>1 DEF Holding
  <2>3. Listed' = Listed /\ nextId' <= mem + 1
    BY <1>t, <2>1, <2>2 DEF Listed
  <2>4. ~FlushMid' /\ ~CompactMid'
    BY <2>1 DEF FlushMid, CompactMid, CompactPositions
  <2> QED BY <2>1, <2>2, <2>3, <2>4 DEF Holding, FreezePositions, FlushPositions, OpenPositions
<1>16. CASE OpenRecover
  <2>1. CASE ~Recoverable
    <3>1. lock' = lock /\ lock = NoLock
      BY <1>16, <1>a, <2>1 DEF OpenRecover, Phases, Alive
    <3> QED BY <1>z, <3>1 DEF NoLock
  <2>2. CASE Recoverable
    <3>1. /\ lock'.at = "open.created" /\ lock'.id = manifest.maxId + 1
          /\ mem' = manifest.maxId + 1 /\ nextId' = manifest.maxId + 1
          /\ data' = [data EXCEPT ![manifest.maxId + 1] = {}]
          /\ status = "down" /\ ManifestFile \in files
      BY <1>16, <2>2 DEF OpenRecover
    <3>2. manifest.maxId + 1 \in Id
      BY <2>2, <3>1, RecoverFinds
    <3>3. data'[mem'] = {} /\ nextId' <= mem' + 1
      BY <1>t, <3>1, <3>2 DEF Content
    <3>4. \A i \in Listed' : i < mem'
      BY <3>1, IdsStep DEF IdsFresh
    <3>5. ~FlushMid' /\ ~CompactMid'
      BY <3>1 DEF FlushMid, CompactMid, CompactPositions
    <3> QED BY <3>1, <3>3, <3>4, <3>5 DEF Holding, FreezePositions, FlushPositions, OpenPositions
  <2> QED BY <2>1, <2>2
<1> QED BY <1>1, <1>2, <1>3, <1>4, <1>5, <1>6, <1>7, <1>8, <1>9, <1>10, <1>11, <1>12, <1>13,
           <1>14, <1>15, <1>16
    DEF Next, WriterStep, FreezeStep, FlushStep, CompactStep, RestartStep

\* Two sequences one after the other, and the rest of a sequence.
LEMMA DistinctParts ==
    /\ \A s, t \in Seq(Id) : Distinct(s) /\ Len(t) <= 1 /\ Ids(s) \cap Ids(t) = {}
          => Distinct(s \o t)
    /\ \A s \in Seq(Id) : s # <<>> /\ Distinct(s)
          => /\ Tail(s) \in Seq(Id) /\ Distinct(Tail(s)) /\ Ids(Tail(s)) \subseteq Ids(s)
             /\ Head(s) \in Ids(s) /\ Head(s) \notin Ids(Tail(s))
             /\ Ids(s) = {Head(s)} \cup Ids(Tail(s))
    /\ Distinct(<<>>)
<1>1. ASSUME NEW s \in Seq(Id), NEW t \in Seq(Id), Distinct(s), Len(t) <= 1,
             Ids(s) \cap Ids(t) = {}
      PROVE  Distinct(s \o t)
  <2>1. /\ Len(s) \in Nat /\ Len(t) \in Nat /\ Len(s \o t) = Len(s) + Len(t)
        /\ \A p \in 1..Len(s) : (s \o t)[p] = s[p]
        /\ \A p \in 1..Len(t) : (s \o t)[Len(s) + p] = t[p]
    OBVIOUS
  <2>2. \A p \in 1..Len(s) : (s \o t)[p] \in Ids(s)
    BY <2>1 DEF Ids
  <2>3. \A p \in 1..Len(s \o t) : p \notin 1..Len(s) => /\ p = Len(s) + 1
                                                       /\ (s \o t)[p] \in Ids(t)
    <3>1. ASSUME NEW p \in 1..Len(s \o t), p \notin 1..Len(s)
          PROVE  p = Len(s) + 1 /\ Len(t) = 1
      <4> DEFINE m == Len(s)
                 n == Len(t)
      <4>1. m \in Nat /\ n \in Nat /\ n <= 1 /\ p \in 1..m + n /\ p \notin 1..m
        BY <1>1, <2>1, <3>1
      <4> HIDE DEF m, n
      <4>2. p = m + 1 /\ n = 1
        BY <4>1
      <4> QED BY <4>2 DEF m, n
    <3>2. Len(t) = 1 => (s \o t)[Len(s) + 1] = t[1] /\ t[1] \in Ids(t)
      BY <2>1 DEF Ids
    <3> QED BY <3>1, <3>2
  <2> QED BY <1>1, <2>1, <2>2, <2>3 DEF Distinct
<1>2. ASSUME NEW s \in Seq(Id), s # <<>>, Distinct(s)
      PROVE  /\ Tail(s) \in Seq(Id) /\ Distinct(Tail(s)) /\ Ids(Tail(s)) \subseteq Ids(s)
             /\ Head(s) \in Ids(s) /\ Head(s) \notin Ids(Tail(s))
             /\ Ids(s) = {Head(s)} \cup Ids(Tail(s))
  <2>1. /\ Len(s) \in Nat /\ Len(s) >= 1 /\ Tail(s) \in Seq(Id) /\ Len(Tail(s)) = Len(s) - 1
        /\ \A p \in 1..Len(Tail(s)) : Tail(s)[p] = s[p + 1]
        /\ Head(s) = s[1]
    BY <1>2
  <2>2. \A p \in 1..Len(Tail(s)) : p + 1 \in 1..Len(s) /\ p + 1 # 1
    BY <2>1
  <2>3. Distinct(Tail(s))
    <3>1. ASSUME NEW p \in 1..Len(Tail(s)), NEW q \in 1..Len(Tail(s)), Tail(s)[p] = Tail(s)[q]
          PROVE  p = q
      <4>1. p + 1 = q + 1
        BY <1>2, <2>1, <2>2, <3>1 DEF Distinct
      <4> QED BY <4>1
    <3> QED BY <3>1 DEF Distinct
  <2>4. Ids(Tail(s)) \subseteq Ids(s) /\ Head(s) \in Ids(s)
    BY <2>1, <2>2 DEF Ids
  <2>5. Head(s) \notin Ids(Tail(s))
    <3>1. 1 \in 1..Len(s)
      BY <2>1
    <3>2. \A p \in 1..Len(Tail(s)) : s[1] # s[p + 1]
      BY <1>2, <2>2, <3>1 DEF Distinct
    <3> QED BY <2>1, <3>2 DEF Ids
  <2>6. \A p \in 1..Len(s) : p = 1 \/ (p - 1 \in 1..Len(Tail(s)) /\ Tail(s)[p - 1] = s[p])
    <3>1. ASSUME NEW p \in 1..Len(s), p # 1
          PROVE  p - 1 \in 1..Len(Tail(s)) /\ Tail(s)[p - 1] = s[(p - 1) + 1] /\ (p - 1) + 1 = p
      BY <2>1, <3>1
    <3> QED BY <3>1
  <2>7. Ids(s) \subseteq {Head(s)} \cup Ids(Tail(s))
    BY <2>1, <2>6 DEF Ids
  <2> QED BY <2>1, <2>3, <2>4, <2>5, <2>7
<1>3. Distinct(<<>>)
  BY DEF Distinct
<1> QED BY <1>1, <1>2, <1>3

\* The inputs of a compaction under way are among the tables in memory.
LEMMA InputsListed ==
    ASSUME IInv, compaction.at \in {"merging", "merged"}, ~CompactMid
    PROVE  /\ Ids(compaction.l0) \subseteq Ids(l0) /\ compaction.l1 = l1
           /\ Ids(compaction.l0) \cup Ids(compaction.l1) \subseteq Listed
<1>1. /\ compaction.l1 = l1 /\ Len(compaction.l0) <= Len(l0)
      /\ \A p \in 1..Len(compaction.l0) :
            compaction.l0[p] = l0[Len(l0) - Len(compaction.l0) + p]
  BY DEF IInv, Compacting
<1>2. l0 \in Seq(Id) /\ compaction.l0 \in Seq(Id)
  BY Fields DEF IInv
<1>3. \A p \in 1..Len(compaction.l0) : Len(l0) - Len(compaction.l0) + p \in 1..Len(l0)
  BY <1>1, <1>2
<1>4. Ids(compaction.l0) \subseteq Ids(l0)
  BY <1>1, <1>3 DEF Ids
<1> QED BY <1>1, <1>4 DEF Listed

\* Every step keeps what is known of the compaction.
LEMMA CompactingStep ==
    ASSUME IInv, Next
    PROVE  Compacting'
<1> USE DEF vars, diskVars, memoryVars, levelVars, threadVars
<1>a. Typed /\ Phases /\ IdsFresh /\ Holding /\ Compacting /\ Recording
  BY DEF IInv
<1>t. /\ imm \in Seq(Id) /\ l0 \in Seq(Id) /\ l1 \in Seq(Id) /\ mem \in Id
      /\ nextId \in Nat /\ nextId + 1 \in Nat
      /\ lock.id \in Id /\ compaction.out \in Id /\ lock \in Position
      /\ sst \in Content /\ compaction \in Compaction
      /\ compaction.l0 \in Seq(Id) /\ compaction.l1 \in Seq(Id)
      /\ compaction.remove \in Seq(Id) /\ Id \subseteq Nat
      /\ compaction.out \in Nat /\ mem \in Nat /\ lock.id \in Nat
  <2>1. Typed
    BY <1>a
  <2>2. lock \in Position /\ sst \in Content /\ compaction \in Compaction
    BY <2>1 DEF Typed
  <2>3. /\ imm \in Seq(Id) /\ l0 \in Seq(Id) /\ l1 \in Seq(Id) /\ mem \in Id
        /\ Id = 0..MaxId /\ MaxId \in Nat /\ nextId \in 1..MaxId + 1
        /\ lock.id \in Id /\ compaction.out \in Id
        /\ compaction.l0 \in Seq(Id) /\ compaction.l1 \in Seq(Id)
        /\ compaction.remove \in Seq(Id)
    BY <2>1, Fields
  <2>4. Id \subseteq Nat /\ nextId \in Nat /\ nextId + 1 \in Nat
    BY <2>3
  <2> QED BY <2>2, <2>3, <2>4
\* Steps that leave the compaction and the levels alone.
<1>f. ASSUME UNCHANGED <<compaction, l0, l1>>, CompactMid' = CompactMid,
             compaction.at = "merged" =>
                /\ nextId' \in {nextId, nextId + 1} /\ mem' # compaction.out
                /\ compaction.out \notin Ids(imm') \cup manifest'.mems
                /\ lock'.at = "freeze.created" => lock'.id # compaction.out
                /\ sst'[compaction.out] =
                      Batches(sst', Ids(compaction.l0) \cup Ids(compaction.l1))
      PROVE  Compacting'
  <2>1. compaction.at = "merged" => compaction.out < nextId'
    <3>1. compaction.at = "merged" => compaction.out < nextId
      BY <1>a DEF Compacting
    <3>2. compaction.at = "merged" => nextId' = nextId \/ nextId' = nextId + 1
      BY <1>f
    <3> QED BY <1>t, <3>1, <3>2
  <2> QED BY <1>a, <1>f, <2>1 DEF Compacting
<1>i. ASSUME compaction' = compaction, compaction.at = "idle" PROVE Compacting'
  BY <1>a, <1>i DEF Compacting
<1>n. ASSUME compaction' = NoCompaction PROVE Compacting'
  <2>1. /\ compaction'.at = "idle" /\ compaction'.l0 = <<>> /\ compaction'.l1 = <<>>
        /\ compaction'.remove = <<>>
    BY <1>n DEF NoCompaction
  <2> QED BY <2>1, IdsOf, DistinctParts DEF Compacting
<1>1. CASE \/ Write \/ Publish \/ Sync \/ FreezeSyncWal \/ FreezeSyncDir
           \/ FlushRemoveWal \/ FlushRecord \/ FlushSyncDir \/ CompactSyncDir
  <2>1. /\ UNCHANGED <<compaction, l0, l1, nextId, mem, imm, sst>>
    BY <1>1 DEF Write, Publish, Sync, FreezeSyncWal, FreezeSyncDir, FlushRemoveWal,
                FlushRecord, FlushSyncDir, CompactSyncDir
  <2>2. CompactMid' = CompactMid /\ (lock'.at = "freeze.created" => lock' = lock)
    BY <1>1, <1>t DEF Write, Publish, Sync, FreezeSyncWal, FreezeSyncDir, FlushRemoveWal,
       FlushRecord, FlushSyncDir, CompactSyncDir, CompactMid, CompactPositions, At, NoLock,
       Position
  <2>3. manifest'.mems \subseteq manifest.mems
    <3>1. CASE FlushRecord
      BY <3>1, FlushRecorded
    <3>2. CASE ~FlushRecord
      BY <1>1, <3>2 DEF Write, Publish, Sync, FreezeSyncWal, FreezeSyncDir,
         FlushRemoveWal, FlushRecord, FlushSyncDir, CompactSyncDir
    <3> QED BY <3>1, <3>2
  <2> QED BY <1>a, <1>f, <2>1, <2>2, <2>3 DEF Compacting
<1>2. CASE \/ OpenFresh \/ OpenManifest \/ OpenRecover \/ OpenRecord \/ OpenSyncDir
  <2>1. compaction' = compaction /\ status \in {"down", "opening"}
    <3>1. lock.at \in OpenPositions => status = "opening"
      BY <1>a DEF Phases
    <3> QED BY <1>2, <3>1 DEF OpenFresh, OpenManifest, OpenRecover, OpenRecord, OpenSyncDir,
                              OpenPositions
  <2>2. compaction.at = "idle"
    BY <1>a, <2>1 DEF Phases, NoCompaction, Alive
  <2> QED BY <1>i, <2>1, <2>2
<1>3. CASE CloseEnd \/ Crash
  BY <1>3, <1>n DEF CloseEnd, Crash, Stopped
<1>4. CASE Close
  BY <1>4, <1>n, <1>i DEF Close, Stopped
<1>5. CASE FreezeCreate
  <2>1. /\ UNCHANGED <<compaction, l0, l1, mem, imm, manifest, sst>>
        /\ lock' = [at |-> "freeze.created", id |-> nextId] /\ nextId' = nextId + 1
        /\ lock.at = "free"
    BY <1>5 DEF FreezeCreate
  <2>2. lock'.id = nextId /\ CompactMid' = CompactMid
    BY <2>1 DEF CompactMid, CompactPositions
  <2>3. compaction.at = "merged" => compaction.out < nextId
    BY <1>a DEF Compacting
  <2>4. compaction.at = "merged" => lock'.id # compaction.out
    BY <1>t, <2>2, <2>3
  <2> QED BY <1>a, <1>f, <2>1, <2>2, <2>4 DEF Compacting
<1>6. CASE FreezeSwap
  <2>1. /\ UNCHANGED <<compaction, l0, l1, nextId, manifest, sst>>
        /\ imm' = <<mem>> \o imm /\ mem' = lock.id
        /\ lock.at = "freeze.created" /\ lock'.at = "freeze.swapped"
    BY <1>6, <1>t DEF FreezeSwap, At, Position
  <2>2. CompactMid' = CompactMid
    BY <2>1 DEF CompactMid, CompactPositions
  <2>3. Ids(imm') = {mem} \cup Ids(imm)
    BY <1>t, <2>1, Prepended
  <2> QED BY <1>a, <1>f, <2>1, <2>2, <2>3 DEF Compacting
<1>7. CASE FreezeRecord
  <2>1. /\ UNCHANGED <<compaction, l0, l1, nextId, mem, imm, sst>>
    BY <1>7 DEF FreezeRecord
  <2>2. /\ manifest'.mems = manifest.mems \cup {mem}
        /\ lock.at \in {"freeze.synced", "open.created"}
        /\ lock'.at \in {"freeze.recorded", "open.recorded"}
    BY <1>7, MemtableRecorded
  <2>3. CompactMid' = CompactMid /\ lock'.at # "freeze.created"
    BY <2>2 DEF CompactMid, CompactPositions
  <2> QED BY <1>a, <1>f, <2>1, <2>2, <2>3 DEF Compacting
<1>8. CASE FlushBuild
  <2>1. /\ UNCHANGED <<compaction, l0, l1, nextId, mem, imm, manifest>>
        /\ sst' = [sst EXCEPT ![Last(imm)] = data[Last(imm)]] /\ imm # <<>>
        /\ lock.at = "free" /\ lock'.at = "flush.built"
    BY <1>8 DEF FlushBuild
  <2>2. CompactMid' = CompactMid /\ ~CompactMid
    BY <2>1 DEF CompactMid, CompactPositions
  <2>3. Last(imm) \in Ids(imm)
    BY <1>t, <2>1, FrontOf
  <2>4. \A i \in Id : i # Last(imm) => sst'[i] = sst[i]
    BY <1>t, <2>1 DEF Content
  <2>5. compaction.at = "merged" =>
           \A i \in Ids(compaction.l0) \cup Ids(compaction.l1) : i \in Id /\ i # Last(imm)
    <3>1. ASSUME compaction.at = "merged"
          PROVE  Ids(compaction.l0) \cup Ids(compaction.l1) \subseteq Ids(l0) \cup Ids(l1)
      BY <2>2, <3>1, InputsListed
    <3> QED BY <1>a, <1>t, <2>3, <3>1, IdsOf DEF IdsFresh
  <2>6. compaction.at = "merged" =>
           /\ sst'[compaction.out] = sst[compaction.out]
           /\ Batches(sst', Ids(compaction.l0) \cup Ids(compaction.l1))
                 = Batches(sst, Ids(compaction.l0) \cup Ids(compaction.l1))
    <3>1. ASSUME compaction.at = "merged"
          PROVE  Batches(sst', Ids(compaction.l0) \cup Ids(compaction.l1))
                    = Batches(sst, Ids(compaction.l0) \cup Ids(compaction.l1))
      BY <2>4, <2>5, <3>1, BatchesSame
    <3>2. compaction.at = "merged" => compaction.out # Last(imm)
      BY <1>a, <2>3 DEF Compacting
    <3> QED BY <1>t, <2>4, <3>1, <3>2
  <2> QED BY <1>a, <1>f, <2>1, <2>2, <2>6 DEF Compacting
<1>9. CASE FlushInstall
  <2>1. /\ UNCHANGED <<compaction, l1, nextId, mem, manifest, sst>>
        /\ l0' = <<lock.id>> \o l0 /\ imm' = Front(imm)
        /\ lock.at = "flush.built" /\ lock'.at = "flush.installed"
    BY <1>9, <1>t DEF FlushInstall, At, Position
  <2>2. ~CompactMid' /\ ~CompactMid
    BY <2>1 DEF CompactMid, CompactPositions
  <2>3. imm # <<>> /\ lock.id = Last(imm)
    BY <1>a, <2>1 DEF Holding
  <2>4. lock.id \in Ids(imm) /\ Ids(imm') \subseteq Ids(imm)
    BY <1>t, <2>1, <2>3, FrontOf
  <2>5. /\ Ids(l0') = {lock.id} \cup Ids(l0) /\ Len(l0') = Len(l0) + 1
        /\ \A p \in 1..Len(l0) : l0'[p + 1] = l0[p]
    BY <1>t, <2>1, Prepended
  <2>6. compaction.at \in {"merging", "merged"} =>
           /\ compaction.l1 = l1
           /\ Len(compaction.l0) <= Len(l0')
           /\ \A p \in 1..Len(compaction.l0) :
                 compaction.l0[p] = l0'[Len(l0') - Len(compaction.l0) + p]
    <3>1. SUFFICES ASSUME compaction.at \in {"merging", "merged"}
                   PROVE  /\ compaction.l1 = l1
                          /\ Len(compaction.l0) <= Len(l0')
                          /\ \A p \in 1..Len(compaction.l0) :
                                compaction.l0[p] = l0'[Len(l0') - Len(compaction.l0) + p]
      OBVIOUS
    <3>2. /\ compaction.l1 = l1 /\ Len(compaction.l0) <= Len(l0)
          /\ \A p \in 1..Len(compaction.l0) :
                compaction.l0[p] = l0[Len(l0) - Len(compaction.l0) + p]
      BY <1>a, <2>2, <3>1 DEF Compacting
    <3>3. Len(l0) \in Nat /\ Len(compaction.l0) \in Nat
      <4>1. l0 \in Seq(Id) /\ compaction.l0 \in Seq(Id)
        BY <1>t
      <4> QED BY <4>1
    <3>4. ASSUME NEW p \in 1..Len(compaction.l0)
          PROVE  /\ Len(l0) - Len(compaction.l0) + p \in 1..Len(l0)
                 /\ Len(l0') - Len(compaction.l0) + p = (Len(l0) - Len(compaction.l0) + p) + 1
      BY <2>5, <3>2, <3>3
    <3>5. ASSUME NEW p \in 1..Len(compaction.l0)
          PROVE  compaction.l0[p] = l0'[Len(l0') - Len(compaction.l0) + p]
      BY <2>5, <3>2, <3>4
    <3>6. Len(compaction.l0) <= Len(l0')
      BY <2>5, <3>2, <3>3
    <3> QED BY <3>2, <3>5, <3>6
  <2>7. compaction.at = "merged" => compaction.out \notin Ids(imm') \cup Ids(l0')
    BY <1>a, <2>4, <2>5 DEF Compacting
  <2> QED BY <1>a, <2>1, <2>2, <2>6, <2>7 DEF Compacting
<1>10. CASE CompactStart
  <2>1. /\ compaction'.at = "merging" /\ compaction'.l0 = l0 /\ compaction'.l1 = l1
        /\ compaction'.remove = <<>> /\ UNCHANGED <<l0, l1>>
    BY <1>10 DEF CompactStart, NoCompaction
  <2>2. Distinct(l0) /\ Len(l1) <= 1 /\ Ids(l0) \cap Ids(l1) = {}
    BY <1>a DEF IdsFresh
  <2>3. \A p \in 1..Len(l0) : Len(l0) - Len(l0) + p = p
    BY <1>t
  <2>4. Len(l0) <= Len(l0)
    BY <1>t
  <2> QED BY <2>1, <2>2, <2>3, <2>4, DistinctParts DEF Compacting
<1>11. CASE CompactMerge
  <2>1. /\ UNCHANGED <<lock, mem, imm, l0, l1, manifest>>
        /\ nextId' = nextId + 1 /\ compaction.at = "merging" /\ nextId \in Id
        /\ sst' = [sst EXCEPT ![nextId] =
                      Batches(sst, Ids(compaction.l0) \cup Ids(compaction.l1))]
    <3>1. nextId <= MaxId /\ Id = 0..MaxId /\ MaxId \in Nat
      BY <1>11, <1>a, Fields DEF CompactMerge, IdLeft
    <3> QED BY <1>11, <1>t, <3>1 DEF CompactMerge
  <2>2. /\ compaction'.at = "merged" /\ compaction'.out = nextId
        /\ compaction'.l0 = compaction.l0 /\ compaction'.l1 = compaction.l1
        /\ compaction'.remove = compaction.remove
    BY <1>11, <1>t DEF CompactMerge, Compaction
  <2>3. ~CompactMid /\ CompactMid' = CompactMid /\ status = "up"
    BY <1>a, <2>1 DEF Holding, Phases, Alive, NoCompaction, Typed, CompactMid
  <2>4. lock.at \notin {"open.created", "open.fresh"}
    BY <1>a, <2>3 DEF Phases, OpenPositions
  <2>5. /\ mem < nextId /\ \A i \in Listed : i < nextId
        /\ \A i \in manifest.mems : i < nextId
        /\ lock.at = "freeze.created" => lock.id < nextId
    BY <1>a, <2>3, <2>4 DEF IdsFresh, Recording, Alive, Holding
  <2>6. /\ mem # nextId /\ nextId \notin Listed \cup manifest.mems
        /\ lock.at = "freeze.created" => lock.id # nextId
        /\ nextId < nextId'
    <3>1. ~(nextId < nextId) /\ nextId < nextId + 1
      BY <1>t
    <3> QED BY <2>1, <2>5, <3>1
  <2>7. Ids(compaction.l0) \cup Ids(compaction.l1) \subseteq Listed
    BY <2>1, <2>3, InputsListed
  <2>8. sst'[nextId] = Batches(sst, Ids(compaction.l0) \cup Ids(compaction.l1))
    BY <1>t, <2>1 DEF Content
  <2>9. Batches(sst', Ids(compaction.l0) \cup Ids(compaction.l1))
           = Batches(sst, Ids(compaction.l0) \cup Ids(compaction.l1))
    <3>1. \A i \in Ids(compaction.l0) \cup Ids(compaction.l1) : sst'[i] = sst[i]
      <4>1. \A i \in Id : i # nextId => sst'[i] = sst[i]
        BY <1>t, <2>1 DEF Content
      <4> QED BY <1>t, <2>6, <2>7, <4>1, IdsOf
    <3> QED BY <3>1, BatchesSame
  <2>10. nextId \notin Ids(imm) \cup Ids(l0) \cup manifest.mems
    BY <2>6 DEF Listed
  <2>11. nextId \notin Ids(compaction.l0) \cup Ids(compaction.l1)
    BY <2>6, <2>7
  <2>12. /\ compaction.l1 = l1 /\ Len(compaction.l0) <= Len(l0)
         /\ \A p \in 1..Len(compaction.l0) :
               compaction.l0[p] = l0[Len(l0) - Len(compaction.l0) + p]
    BY <1>a, <2>1, <2>3 DEF Compacting
  <2> QED BY <1>a, <2>1, <2>2, <2>6, <2>8, <2>9, <2>10, <2>11, <2>12 DEF Compacting
<1>12. CASE CompactInstall
  <2>1. /\ UNCHANGED <<compaction, mem, imm, nextId, manifest, sst>>
        /\ l0' = Without(l0, compaction.l0) /\ compaction.at = "merged"
        /\ lock.at = "free" /\ lock'.at = "compact.installed"
    BY <1>12 DEF CompactInstall
  <2>2. CompactMid' /\ ~CompactMid
    BY <2>1 DEF CompactMid, CompactPositions
  <2>3. Ids(l0') \subseteq Ids(l0)
    <3>1. PICK u \in Seq(Id) : l0 = u \o compaction.l0 /\ Without(l0, compaction.l0) = u
      BY <2>1, <2>2, InputsLast
    <3> QED BY <1>t, <2>1, <3>1, IdsOf
  <2> QED BY <1>a, <2>1, <2>2, <2>3 DEF Compacting
<1>13. CASE CompactRecord
  <2>1. /\ compaction'.at = "removing" /\ compaction'.remove = compaction.l0 \o compaction.l1
        /\ compaction'.l0 = compaction.l0 /\ compaction'.l1 = compaction.l1
        /\ l1' = l1
    BY <1>13, <1>t DEF CompactRecord, Compaction
  <2>2. l1 = <<compaction.out>> /\ compaction.at = "merged"
    BY <1>13, CompactionRecorded
  <2>3. Ids(l1') = {compaction.out}
    BY <1>t, <2>1, <2>2, IdsOf
  <2>4. Ids(compaction'.remove) = Ids(compaction.l0) \cup Ids(compaction.l1)
    BY <1>t, <2>1, IdsOf
  <2>5. Ids(compaction'.remove) \cap Ids(l1') = {}
    BY <1>a, <2>2, <2>3, <2>4 DEF Compacting
  <2>6. Distinct(compaction'.remove)
    <3>1. /\ Distinct(compaction.l0) /\ Len(compaction.l1) <= 1
          /\ Ids(compaction.l0) \cap Ids(compaction.l1) = {}
      BY <1>a DEF Compacting
    <3> QED BY <1>t, <2>1, <3>1, DistinctParts
  <2> QED BY <1>a, <2>1, <2>5, <2>6 DEF Compacting
<1>14. CASE CompactRemove
  <2>1. CASE compaction.remove = <<>>
    BY <1>14, <1>n, <2>1 DEF CompactRemove
  <2>2. CASE compaction.remove # <<>>
    <3>1. /\ compaction'.at = "removing" /\ compaction'.l0 = compaction.l0
          /\ compaction'.l1 = compaction.l1 /\ compaction'.remove = Tail(compaction.remove)
          /\ compaction.at = "removing" /\ l1' = l1
      BY <1>14, <1>t, <2>2 DEF CompactRemove, Compaction
    <3>2. Distinct(compaction'.remove) /\ Ids(compaction'.remove) \subseteq Ids(compaction.remove)
      BY <1>a, <1>t, <2>2, <3>1, DistinctParts DEF Compacting
    <3> QED BY <1>a, <3>1, <3>2 DEF Compacting
  <2> QED BY <2>1, <2>2
<1> QED BY <1>1, <1>2, <1>3, <1>4, <1>5, <1>6, <1>7, <1>8, <1>9, <1>10, <1>11, <1>12, <1>13,
           <1>14
    DEF Next, WriterStep, FreezeStep, FlushStep, CompactStep, RestartStep

\* The options do not change.
LEMMA SettingKept ==
    ASSUME Next
    PROVE  setting' = setting /\ EnableWal' = EnableWal
<1> USE DEF vars, diskVars, memoryVars, levelVars, threadVars
<1>1. setting' = setting
  <2>1. CASE WriterStep
    BY <2>1 DEF WriterStep, Write, Publish, Sync
  <2>2. CASE FreezeStep
    BY <2>2 DEF FreezeStep, FreezeCreate, FreezeSwap, FreezeSyncWal, FreezeRecord,
                FreezeSyncDir
  <2>3. CASE FlushStep
    BY <2>3 DEF FlushStep, FlushBuild, FlushInstall, FlushRemoveWal, FlushRecord,
                FlushSyncDir
  <2>4. CASE CompactStep
    BY <2>4 DEF CompactStep, CompactStart, CompactMerge, CompactInstall, CompactSyncDir,
                CompactRecord, CompactRemove
  <2>5. CASE RestartStep
    BY <2>5 DEF RestartStep, Close, CloseEnd, Crash, OpenFresh, OpenManifest, OpenRecover,
                OpenRecord, OpenSyncDir
  <2> QED BY <2>1, <2>2, <2>3, <2>4, <2>5 DEF Next
<1> QED BY <1>1 DEF EnableWal

\* Every step keeps the manifest a record of what is in memory.
LEMMA RecordingStep ==
    ASSUME IInv, Next
    PROVE  Recording'
<1> USE DEF vars, diskVars, memoryVars, levelVars, threadVars
<1>a. Typed /\ Phases /\ IdsFresh /\ Holding /\ Compacting /\ ManifestShape /\ Recording
  BY DEF IInv
<1>t. /\ imm \in Seq(Id) /\ l0 \in Seq(Id) /\ l1 \in Seq(Id) /\ mem \in Id
      /\ nextId \in Nat /\ nextId + 1 \in Nat /\ lock.id \in Id /\ lock \in Position
      /\ data \in Content /\ compaction \in Compaction /\ compaction.l0 \in Seq(Id)
      /\ manifest.mems \subseteq Nat /\ manifest.maxId \in Nat
      /\ mem \in Nat /\ lock.id \in Nat /\ manifest.mems \subseteq Id
      /\ manifest.l0 \in Seq(Id)
  <2>1. Typed
    BY <1>a
  <2>2. lock \in Position /\ data \in Content /\ compaction \in Compaction
    BY <2>1 DEF Typed
  <2>3. /\ imm \in Seq(Id) /\ l0 \in Seq(Id) /\ l1 \in Seq(Id) /\ mem \in Id
        /\ Id = 0..MaxId /\ MaxId \in Nat /\ nextId \in 1..MaxId + 1
        /\ lock.id \in Id /\ compaction.l0 \in Seq(Id) /\ manifest.mems \subseteq Id
        /\ manifest.maxId \in Id /\ manifest.l0 \in Seq(Id)
    BY <2>1, Fields
  <2>4. Id \subseteq Nat /\ nextId \in Nat /\ nextId + 1 \in Nat
    BY <2>3
  <2> QED BY <2>2, <2>3, <2>4
<1>w. EnableWal' = EnableWal
  BY SettingKept
<1>d. ASSUME status' \notin {"opening", "up", "closing"} PROVE Recording'
  BY <1>d DEF Recording, Alive
\* Steps that leave the manifest, the memtables' names and the levels alone.
<1>f. ASSUME UNCHANGED <<manifest, l0, l1, imm, mem>>, Alive, lock.at # "open.fresh",
             FlushMid' = FlushMid, CompactMid' = CompactMid,
             FlushMid => lock'.id = lock.id,
             CompactMid => compaction' = compaction,
             nextId' \in {nextId, nextId + 1},
             lock.at \in {"freeze.swapped", "freeze.synced", "open.created"}
                => lock'.at \in {"freeze.swapped", "freeze.synced", "open.created"},
             status = "closing" => status' = "closing",
             \A i \in Id : data'[i] # {} => data[i] # {} \/ i = mem
      PROVE  Recording'
  <2>1. /\ manifest.ok
        /\ IF FlushMid THEN l0 = <<lock.id>> \o manifest.l0
           ELSE manifest.l0 = IF CompactMid THEN l0 \o compaction.l0 ELSE l0
        /\ manifest.l1 = IF CompactMid THEN compaction.l1 ELSE l1
        /\ Ids(imm) \subseteq manifest.mems
        /\ FlushMid => lock.id \in manifest.mems
        /\ \/ mem \in manifest.mems
           \/ lock.at \in {"freeze.swapped", "freeze.synced", "open.created"}
           \/ status = "closing"
        /\ EnableWal => \A i \in manifest.mems : data[i] # {} =>
              i = mem \/ i \in Ids(imm) \/ (FlushMid /\ i = lock.id)
        /\ \A i \in manifest.mems : i < nextId
    BY <1>a, <1>f DEF Recording
  <2>2. \A i \in manifest.mems : i < nextId'
    <3>1. ASSUME NEW i \in manifest.mems PROVE i < nextId'
      <4>1. i < nextId /\ i \in Nat
        BY <1>t, <2>1
      <4> QED BY <1>f, <1>t, <4>1
    <3> QED BY <3>1
  <2>3. EnableWal' => \A i \in manifest'.mems : data'[i] # {} =>
              i = mem' \/ i \in Ids(imm') \/ (FlushMid' /\ i = lock'.id)
    BY <1>f, <1>t, <1>w, <2>1
  <2>4. manifest'.l1 = IF CompactMid' THEN compaction'.l1 ELSE l1'
    BY <1>f, <2>1
  <2>5. IF FlushMid' THEN l0' = <<lock'.id>> \o manifest'.l0
        ELSE manifest'.l0 = IF CompactMid' THEN l0' \o compaction'.l0 ELSE l0'
    BY <1>f, <2>1
  <2>6. FlushMid' => lock'.id \in manifest'.mems
    BY <1>f, <2>1
  <2> QED BY <1>f, <2>1, <2>2, <2>3, <2>4, <2>5, <2>6 DEF Recording
<1>1. CASE Publish \/ Sync \/ CompactStart \/ CompactMerge \/ CompactRemove
  <2>1. /\ UNCHANGED <<manifest, l0, l1, imm, mem, data, lock, status>>
        /\ compaction' = compaction \/ compaction.at # "merged"
        /\ nextId' \in {nextId, nextId + 1}
        /\ status = "up" \/ compaction.at # "idle"
    BY <1>1 DEF Publish, Sync, CompactStart, CompactMerge, CompactRemove
  <2>2. Alive /\ lock.at # "open.fresh"
    <3>1. ~Alive => compaction.at = "idle"
      BY <1>a DEF Phases, NoCompaction
    <3>2. lock.at = "open.fresh" => status = "opening" /\ compaction.at = "idle"
      BY <1>a DEF Phases, OpenPositions
    <3> QED BY <2>1, <3>1, <3>2 DEF Alive
  <2>3. CompactMid => compaction.at = "merged"
    BY <1>a DEF Holding
  <2>4. FlushMid' = FlushMid /\ CompactMid' = CompactMid
    BY <2>1 DEF FlushMid, CompactMid
  <2> QED BY <1>f, <2>1, <2>2, <2>3, <2>4
<1>2. CASE Write
  <2>1. /\ UNCHANGED <<manifest, l0, l1, imm, mem, lock, status, nextId, compaction>>
        /\ data' = [data EXCEPT ![mem] = @ \cup {ts + 1}] /\ status = "up"
    BY <1>2 DEF Write
  <2>2. \A i \in Id : data'[i] # {} => data[i] # {} \/ i = mem
    BY <1>t, <2>1 DEF Content
  <2>3. FlushMid' = FlushMid /\ CompactMid' = CompactMid
    BY <2>1 DEF FlushMid, CompactMid
  <2>4. lock.at # "open.fresh" /\ Alive
    BY <1>a, <2>1 DEF Phases, OpenPositions, Alive
  <2> QED BY <1>f, <2>1, <2>2, <2>3, <2>4
\* Steps of the holder of state_lock that write or sync files.
<1>3. CASE \/ FreezeSyncWal \/ FreezeSyncDir \/ FlushBuild \/ FlushRemoveWal \/ FlushSyncDir
           \/ CompactSyncDir
  <2>1. /\ UNCHANGED <<manifest, l0, l1, imm, mem, data, nextId, compaction, status>>
    BY <1>3 DEF FreezeSyncWal, FreezeSyncDir, FlushBuild, FlushRemoveWal, FlushSyncDir,
                CompactSyncDir
  <2>2. /\ FlushMid' = FlushMid /\ CompactMid' = CompactMid
        /\ FlushMid => lock'.id = lock.id
        /\ lock.at \in {"freeze.swapped", "freeze.synced", "open.created"}
              => lock'.at \in {"freeze.swapped", "freeze.synced", "open.created"}
        /\ lock.at \notin OpenPositions
    BY <1>3, <1>t DEF FreezeSyncWal, FreezeSyncDir, FlushBuild, FlushRemoveWal, FlushSyncDir,
       CompactSyncDir, At, NoLock, Position, FlushMid, CompactMid, CompactPositions,
       OpenPositions
  <2>3. Alive
    <3>1. lock.at # "free" \/ status \in {"up", "closing"}
      BY <1>3 DEF FreezeSyncWal, FreezeSyncDir, FlushBuild, FlushRemoveWal, FlushSyncDir,
         CompactSyncDir, Running
    <3> QED BY <1>a, <3>1 DEF Phases, Alive, NoLock
  <2>4. lock.at # "open.fresh"
    BY <2>2 DEF OpenPositions
  <2> QED BY <1>f, <2>1, <2>2, <2>3, <2>4
<1>4. CASE OpenSyncDir
  <2>1. /\ UNCHANGED <<manifest, l0, l1, imm, mem, data, nextId, compaction>>
        /\ lock.at = "open.recorded" /\ lock'.at = "free"
    BY <1>4 DEF OpenSyncDir, NoLock
  <2>2. FlushMid' = FlushMid /\ CompactMid' = CompactMid /\ ~FlushMid
    BY <2>1 DEF FlushMid, CompactMid, CompactPositions
  <2>3. Alive /\ status # "closing"
    BY <1>a, <2>1 DEF Phases, Alive, OpenPositions
  <2> QED BY <1>f, <2>1, <2>2, <2>3
<1>5. CASE FreezeCreate
  <2>1. /\ UNCHANGED <<manifest, l0, l1, imm, mem, compaction, status>>
        /\ data' = [data EXCEPT ![nextId] = {}] /\ nextId' = nextId + 1
        /\ lock.at = "free" /\ lock'.at = "freeze.created" /\ status = "up"
    BY <1>5 DEF FreezeCreate
  <2>2. FlushMid' = FlushMid /\ CompactMid' = CompactMid /\ ~FlushMid
    BY <2>1 DEF FlushMid, CompactMid, CompactPositions
  <2>3. \A i \in Id : data'[i] # {} => data[i] # {}
    BY <1>t, <2>1 DEF Content
  <2>4. Alive
    BY <2>1 DEF Alive
  <2> QED BY <1>f, <2>1, <2>2, <2>3, <2>4
<1>6. CASE FreezeSwap
  <2>1. /\ UNCHANGED <<manifest, l0, l1, data, nextId, compaction, status>>
        /\ imm' = <<mem>> \o imm /\ mem' = lock.id
        /\ lock.at = "freeze.created" /\ lock'.at = "freeze.swapped"
    BY <1>6, <1>t DEF FreezeSwap, At, Position
  <2>2. ~FlushMid /\ ~CompactMid /\ ~FlushMid' /\ ~CompactMid'
    BY <2>1 DEF FlushMid, CompactMid, CompactPositions
  <2>3. Alive /\ status # "closing"
    BY <1>a, <2>1 DEF Phases, NoLock, FlushPositions
  <2>4. /\ manifest.ok /\ manifest.l0 = l0 /\ manifest.l1 = l1
        /\ Ids(imm) \subseteq manifest.mems /\ mem \in manifest.mems
        /\ EnableWal => \A i \in manifest.mems : data[i] # {} => i = mem \/ i \in Ids(imm)
        /\ \A i \in manifest.mems : i < nextId
    BY <1>a, <2>1, <2>2, <2>3 DEF Recording
  <2>5. Ids(imm') = {mem} \cup Ids(imm)
    BY <1>t, <2>1, Prepended
  <2> QED BY <1>w, <2>1, <2>2, <2>4, <2>5 DEF Recording
<1>7. CASE FreezeRecord \/ OpenRecord
  <2>1. /\ manifest'.l0 = manifest.l0 /\ manifest'.l1 = manifest.l1
        /\ manifest'.mems = manifest.mems \cup {mem}
        /\ manifest'.ok = manifest.ok /\ manifest.ok
        /\ manifest.l0 = l0 /\ manifest.l1 = l1
        /\ lock.id = mem /\ Alive
        /\ lock.at \in {"freeze.synced", "open.created"}
        /\ lock'.at \in {"freeze.recorded", "open.recorded"}
        /\ Ids(imm) \subseteq manifest.mems
    BY <1>7, MemtableRecorded
  <2>2. /\ UNCHANGED <<l0, l1, imm, mem, data>>
        /\ \/ nextId' = nextId /\ lock.at = "freeze.synced"
           \/ nextId' = mem + 1 /\ lock.at = "open.created"
    BY <1>7, <2>1 DEF FreezeRecord, OpenRecord
  <2>3. ~FlushMid /\ ~CompactMid /\ ~FlushMid' /\ ~CompactMid'
    BY <2>1 DEF FlushMid, CompactMid, CompactPositions
  <2>4. /\ EnableWal => \A i \in manifest.mems : data[i] # {} => i = mem \/ i \in Ids(imm)
        /\ \A i \in manifest.mems : i < nextId
    BY <1>a, <2>1, <2>3 DEF Recording
  <2>5. \A i \in manifest'.mems : i < nextId'
    <3>1. mem < nextId'
      BY <1>a, <1>t, <2>2 DEF IdsFresh
    <3>2. nextId <= nextId'
      BY <1>a, <1>t, <2>2 DEF Holding, OpenPositions
    <3>3. nextId' \in Nat
      BY <1>t, <2>2
    <3>4. ASSUME NEW i \in manifest.mems PROVE i < nextId'
      <4>1. i < nextId /\ i \in Nat
        BY <1>t, <2>4
      <4> QED BY <1>t, <3>2, <3>3, <4>1
    <3> QED BY <2>1, <3>1, <3>4
  <2>6. EnableWal' => \A i \in manifest'.mems : data'[i] # {} => i = mem' \/ i \in Ids(imm')
    BY <1>w, <2>1, <2>2, <2>4
  <2> QED BY <2>1, <2>2, <2>3, <2>5, <2>6 DEF Recording
<1>8. CASE FlushInstall
  <2>1. /\ UNCHANGED <<manifest, l1, data, mem, nextId, compaction, status>>
        /\ imm' = Front(imm) /\ l0' = <<lock.id>> \o l0
        /\ lock.at = "flush.built" /\ lock'.at = "flush.installed" /\ lock'.id = lock.id
    BY <1>8, <1>t DEF FlushInstall, At, Position
  <2>2. ~FlushMid /\ ~CompactMid /\ FlushMid' /\ ~CompactMid'
    BY <2>1 DEF FlushMid, CompactMid, CompactPositions
  <2>3. Alive
    BY <1>a, <2>1 DEF Phases, NoLock
  <2>4. imm # <<>> /\ lock.id = Last(imm)
    BY <1>a, <2>1 DEF Holding
  <2>5. Ids(imm) = Ids(imm') \cup {lock.id}
    BY <1>t, <2>1, <2>4, FrontOf
  <2>6. /\ manifest.ok /\ manifest.l0 = l0 /\ manifest.l1 = l1
        /\ Ids(imm) \subseteq manifest.mems
        /\ mem \in manifest.mems \/ status = "closing"
        /\ EnableWal => \A i \in manifest.mems : data[i] # {} => i = mem \/ i \in Ids(imm)
        /\ \A i \in manifest.mems : i < nextId
    BY <1>a, <2>1, <2>2, <2>3 DEF Recording
  <2> QED BY <1>w, <2>1, <2>2, <2>5, <2>6 DEF Recording
<1>9. CASE FlushRecord
  <2>1. /\ manifest'.l0 = l0 /\ manifest'.l1 = l1
        /\ manifest'.mems = manifest.mems \ {lock.id}
        /\ manifest'.ok = TRUE
        /\ lock'.at = "flush.recorded" /\ lock.at = "flush.wal_removed" /\ Alive /\ FlushMid
    BY <1>9, FlushRecorded
  <2>2. UNCHANGED <<l0, l1, imm, mem, data, nextId, status>>
    BY <1>9 DEF FlushRecord
  <2>3. ~FlushMid' /\ ~CompactMid'
    BY <2>1 DEF FlushMid, CompactMid, CompactPositions
  <2>4. /\ Ids(imm) \subseteq manifest.mems
        /\ mem \in manifest.mems \/ status = "closing"
        /\ EnableWal => \A i \in manifest.mems : data[i] # {} =>
              i = mem \/ i \in Ids(imm) \/ i = lock.id
        /\ \A i \in manifest.mems : i < nextId
    BY <1>a, <2>1 DEF Recording
  <2>5. lock.id # mem
    <3>1. lock.id < mem
      BY <1>a, <2>1 DEF Holding
    <3> QED BY <1>t, <3>1
  <2>6. lock.id \notin Ids(imm)
    <3>1. l0 # <<>> /\ lock.id = l0[1]
      BY <1>a, <2>1 DEF Holding, FlushPositions
    <3>2. lock.id \in Ids(l0)
      BY <1>t, <3>1 DEF Ids
    <3> QED BY <1>a, <3>2 DEF IdsFresh
  <2> QED BY <1>w, <2>1, <2>2, <2>3, <2>4, <2>5, <2>6 DEF Recording
<1>10. CASE CompactInstall
  <2>1. /\ UNCHANGED <<manifest, data, imm, mem, nextId, compaction, status>>
        /\ l0' = Without(l0, compaction.l0)
        /\ lock.at = "free" /\ lock'.at = "compact.installed" /\ compaction.at = "merged"
    BY <1>10 DEF CompactInstall
  <2>2. ~FlushMid /\ ~CompactMid /\ ~FlushMid' /\ CompactMid'
    BY <2>1 DEF FlushMid, CompactMid, CompactPositions
  <2>3. Alive
    BY <1>a, <2>1 DEF Phases, NoCompaction
  <2>4. /\ manifest.ok /\ manifest.l0 = l0 /\ manifest.l1 = l1
        /\ Ids(imm) \subseteq manifest.mems
        /\ mem \in manifest.mems \/ status = "closing"
        /\ EnableWal => \A i \in manifest.mems : data[i] # {} => i = mem \/ i \in Ids(imm)
        /\ \A i \in manifest.mems : i < nextId
    BY <1>a, <2>1, <2>2, <2>3 DEF Recording
  <2>5. l0 = l0' \o compaction.l0
    BY <2>1, <2>2, InputsLast
  <2>6. compaction.l1 = l1
    BY <1>a, <2>1, <2>2 DEF Compacting
  <2> QED BY <1>w, <2>1, <2>2, <2>4, <2>5, <2>6 DEF Recording
<1>11. CASE CompactRecord
  <2>1. /\ manifest'.l0 = l0 /\ manifest'.l1 = l1
        /\ manifest'.mems = manifest.mems
        /\ manifest'.ok = TRUE
        /\ CompactMid /\ Alive /\ lock' = NoLock
    BY <1>11, CompactionRecorded
  <2>2. UNCHANGED <<l0, l1, imm, mem, data, nextId, status>>
    BY <1>11 DEF CompactRecord
  <2>3. ~FlushMid' /\ ~CompactMid' /\ ~FlushMid /\ lock.at \in CompactPositions
    BY <2>1 DEF FlushMid, CompactMid, CompactPositions, NoLock
  <2>4. /\ Ids(imm) \subseteq manifest.mems
        /\ mem \in manifest.mems \/ status = "closing"
        /\ EnableWal => \A i \in manifest.mems : data[i] # {} => i = mem \/ i \in Ids(imm)
        /\ \A i \in manifest.mems : i < nextId
    BY <1>a, <2>1, <2>3 DEF Recording, CompactPositions
  <2> QED BY <1>w, <2>1, <2>2, <2>3, <2>4 DEF Recording
<1>12. CASE Close
  <2>1. CASE EnableWal
    BY <1>12, <1>d, <2>1 DEF Close, Stopped
  <2>2. CASE ~EnableWal
    <3>1. /\ UNCHANGED <<manifest, l0, l1, compaction, lock>>
          /\ status' = "closing" /\ lock.at = "free" /\ status = "up"
      BY <1>12, <2>2 DEF Close
    <3>2. ~FlushMid /\ ~CompactMid /\ ~FlushMid' /\ ~CompactMid'
      BY <3>1 DEF FlushMid, CompactMid, CompactPositions
    <3>3. /\ manifest.ok /\ manifest.l0 = l0 /\ manifest.l1 = l1
          /\ Ids(imm) \subseteq manifest.mems /\ mem \in manifest.mems
          /\ \A i \in manifest.mems : i < nextId
      BY <1>a, <3>1, <3>2 DEF Recording, Alive
    <3>4. Ids(imm') \subseteq Ids(imm) \cup {mem} /\ nextId' \in {nextId, nextId + 1}
      <4>1. \/ imm' = imm /\ nextId' = nextId
            \/ imm' = <<mem>> \o imm /\ nextId' = nextId + 1
        BY <1>12, <2>2 DEF Close
      <4>2. Ids(<<mem>> \o imm) = {mem} \cup Ids(imm)
        BY <1>t, Prepended
      <4> QED BY <4>1, <4>2
    <3>5. \A i \in manifest.mems : i < nextId'
      <4>1. ASSUME NEW i \in manifest.mems PROVE i < nextId'
        <5>1. i < nextId /\ i \in Nat
          BY <1>t, <3>3
        <5> QED BY <1>t, <3>4, <5>1
      <4> QED BY <4>1
    <3> QED BY <1>w, <2>2, <3>1, <3>2, <3>3, <3>4, <3>5 DEF Recording
  <2> QED BY <2>1, <2>2
<1>13. CASE CloseEnd \/ Crash
  BY <1>13, <1>d DEF CloseEnd, Crash, Stopped
<1>14. CASE OpenFresh
  <2>1. lock'.at = "open.fresh" \/ status' = "failed"
    BY <1>14 DEF OpenFresh
  <2> QED BY <1>d, <2>1 DEF Recording
<1>15. CASE OpenManifest
  <2>1. /\ UNCHANGED <<l0, l1, imm, mem, data, nextId, status>>
        /\ manifest' = EmptyManifest /\ lock.at = "open.fresh" /\ lock'.at = "open.created"
    BY <1>15, <1>t DEF OpenManifest, At, Position
  <2>2. imm = <<>> /\ l0 = <<>> /\ l1 = <<>>
    BY <1>a, <2>1 DEF Holding
  <2>3. ~FlushMid' /\ ~CompactMid'
    BY <2>1 DEF FlushMid, CompactMid, CompactPositions
  <2>4. Ids(imm') = {}
    BY <2>1, <2>2, IdsOf
  <2>5. manifest'.ok /\ manifest'.l0 = <<>> /\ manifest'.l1 = <<>> /\ manifest'.mems = {}
    BY <2>1 DEF EmptyManifest
  <2> QED BY <2>1, <2>2, <2>3, <2>4, <2>5 DEF Recording
<1>16. CASE OpenRecover
  <2>1. CASE ~Recoverable
    BY <1>16, <1>d, <2>1 DEF OpenRecover
  <2>2. CASE Recoverable
    <3>1. /\ lock'.at = "open.created" /\ manifest' = manifest /\ imm' = RecoveredMemtables
          /\ l0' = manifest.l0 /\ l1' = manifest.l1
          /\ mem' = manifest.maxId + 1 /\ nextId' = manifest.maxId + 1
          /\ data' = [data EXCEPT ![manifest.maxId + 1] = {}]
          /\ status = "down" /\ ManifestFile \in files
      BY <1>16, <2>2 DEF OpenRecover
    <3>2. /\ Ids(imm') = (IF EnableWal THEN {i \in manifest.mems : data[i] # {}} ELSE {})
          /\ Recorded /\ manifest.maxId + 1 \in Id
      BY <2>2, <3>1, RecoverFinds
    <3>3. manifest.ok
      BY <3>2 DEF Recorded
    <3>4. ~FlushMid' /\ ~CompactMid'
      BY <3>1 DEF FlushMid, CompactMid, CompactPositions
    <3>5. \A i \in manifest.mems : i < nextId'
      <4>1. ASSUME NEW i \in manifest.mems PROVE i < manifest.maxId + 1
        <5>1. i <= manifest.maxId /\ i \in Nat
          BY <1>a, <1>t DEF ManifestShape
        <5> QED BY <1>t, <5>1
      <4> QED BY <3>1, <4>1
    <3>6. \A i \in Id : data'[i] # {} => data[i] # {}
      BY <1>t, <3>1 DEF Content
    <3>7. EnableWal => \A i \in manifest.mems : data'[i] # {} => i \in Ids(imm')
      BY <1>t, <3>2, <3>6
    <3> QED BY <1>w, <3>1, <3>2, <3>3, <3>4, <3>5, <3>7 DEF Recording
  <2> QED BY <2>1, <2>2
<1> QED BY <1>1, <1>2, <1>3, <1>4, <1>5, <1>6, <1>7, <1>8, <1>9, <1>10, <1>11, <1>12, <1>13,
           <1>14, <1>15, <1>16
    DEF Next, WriterStep, FreezeStep, FlushStep, CompactStep, RestartStep

\* An empty source in front changes nothing.
LEMMA BatchesEmpty ==
    ASSUME NEW f, NEW x, NEW A, f[x] = {}
    PROVE  Batches(f, {x} \cup A) = Batches(f, A)
<1>1. Batches(f, {x} \cup A) = Batches(f, {x}) \cup Batches(f, A)
  BY BatchesOf
<1>2. Batches(f, {x}) = {}
  BY BatchesOf
<1> QED BY <1>1, <1>2

\* Positions after an element was put in front.
LEMMA Shifted ==
    ASSUME NEW n \in Nat, NEW p \in 1..n + 1, NEW q \in 1..n + 1, p < q
    PROVE  /\ q \in 2..n + 1 /\ q - 1 \in 1..n
           /\ p # 1 => p \in 2..n + 1 /\ p - 1 \in 1..n /\ p - 1 < q - 1
  OBVIOUS

\* Every step keeps every batch, and the later ones before the earlier ones.
LEMMA HoldingsStep ==
    ASSUME IInv, Next
    PROVE  Holdings'
<1> USE DEF vars, diskVars, memoryVars, levelVars, threadVars
<1>a. /\ Typed /\ Phases /\ IdsFresh /\ Holding /\ Compacting /\ ManifestShape
      /\ Recording /\ Holdings
  BY DEF IInv
<1>t. /\ imm \in Seq(Id) /\ l0 \in Seq(Id) /\ l1 \in Seq(Id) /\ mem \in Id
      /\ nextId \in Nat /\ lock.id \in Id /\ lock \in Position
      /\ data \in Content /\ sst \in Content
      /\ compaction.out \in Id /\ compaction.l0 \in Seq(Id) /\ compaction.l1 \in Seq(Id)
      /\ ts \in Nat /\ Listed \subseteq Nat /\ mem \in Nat
      /\ Ids(imm) \subseteq Id /\ Ids(l0) \subseteq Id /\ Ids(l1) \subseteq Id
  <2>1. Typed
    BY <1>a
  <2>2. lock \in Position /\ data \in Content /\ sst \in Content /\ ts \in 0..MaxBatches
    BY <2>1 DEF Typed
  <2>3. /\ imm \in Seq(Id) /\ l0 \in Seq(Id) /\ l1 \in Seq(Id) /\ mem \in Id
        /\ Id = 0..MaxId /\ MaxId \in Nat /\ nextId \in 1..MaxId + 1 /\ MaxBatches \in Nat
        /\ lock.id \in Id /\ compaction.l0 \in Seq(Id) /\ compaction.l1 \in Seq(Id)
        /\ compaction.out \in Id
    BY <2>1, Fields
  <2>4. Id \subseteq Nat /\ nextId \in Nat /\ ts \in Nat
    BY <2>2, <2>3
  <2>5. Ids(imm) \subseteq Id /\ Ids(l0) \subseteq Id /\ Ids(l1) \subseteq Id
    BY <2>3, IdsOf
  <2>6. Listed \subseteq Nat
    BY <2>4, <2>5 DEF Listed
  <2> QED BY <2>2, <2>3, <2>4, <2>5, <2>6
<1>h. ASSUME Alive
      PROVE  /\ Readable = 1..Top
             /\ \A i \in Ids(imm) : data[i] # {} /\ Above(data[mem], data[i])
             /\ \A p, q \in 1..Len(imm) : p < q => Above(data[imm[p]], data[imm[q]])
             /\ \A k \in Ids(l0) \cup Ids(l1) :
                   /\ Above(data[mem], sst[k])
                   /\ \A i \in Ids(imm) : Above(data[i], sst[k])
             /\ \A p, q \in 1..Len(l0) : p < q => Above(sst[l0[p]], sst[l0[q]])
             /\ \A i \in Ids(l0), k \in Ids(l1) : Above(sst[i], sst[k])
  BY <1>a, <1>h DEF Holdings
<1>d. ASSUME status' \notin {"opening", "up", "closing"} PROVE Holdings'
  BY <1>d DEF Holdings, Alive
\* Steps that leave the memtables and the tables in memory alone.
<1>f. ASSUME Alive, UNCHANGED <<mem, imm, l0, l1>>, Top' = Top,
             \A i \in {mem} \cup Ids(imm) : data'[i] = data[i],
             \A k \in Ids(l0) \cup Ids(l1) : sst'[k] = sst[k]
      PROVE  Holdings'
  <2>1. Batches(data', {mem} \cup Ids(imm)) = Batches(data, {mem} \cup Ids(imm))
    BY <1>f, BatchesSame
  <2>2. Batches(sst', Ids(l0) \cup Ids(l1)) = Batches(sst, Ids(l0) \cup Ids(l1))
    BY <1>f, BatchesSame
  <2>3. Readable' = 1..Top'
    BY <1>f, <1>h, <2>1, <2>2 DEF Readable
  <2>4. \A p \in 1..Len(imm) : data'[imm[p]] = data[imm[p]]
    BY <1>f DEF Ids
  <2>5. \A p \in 1..Len(l0) : sst'[l0[p]] = sst[l0[p]]
    BY <1>f DEF Ids
  <2>6. \A i \in Ids(imm') : data'[i] # {} /\ Above(data'[mem'], data'[i])
    BY <1>f, <1>h
  <2>7. \A k \in Ids(l0') \cup Ids(l1') :
           /\ Above(data'[mem'], sst'[k])
           /\ \A i \in Ids(imm') : Above(data'[i], sst'[k])
    BY <1>f, <1>h
  <2>8. \A i \in Ids(l0'), k \in Ids(l1') : Above(sst'[i], sst'[k])
    BY <1>f, <1>h
  <2>9. \A p, q \in 1..Len(imm') : p < q => Above(data'[imm'[p]], data'[imm'[q]])
    BY <1>f, <1>h, <2>4
  <2>10. \A p, q \in 1..Len(l0') : p < q => Above(sst'[l0'[p]], sst'[l0'[q]])
    BY <1>f, <1>h, <2>5
  <2> QED BY <2>3, <2>6, <2>7, <2>8, <2>9, <2>10 DEF Holdings
\* Steps that put an empty memtable in front of the current one.
<1>g. ASSUME Alive, UNCHANGED <<l0, l1, sst>>, Top' = Top, imm' = <<mem>> \o imm,
             data'[mem'] = {}, data[mem] # {},
             \A i \in {mem} \cup Ids(imm) : data'[i] = data[i]
      PROVE  Holdings'
  <2>1. /\ imm' \in Seq(Id) /\ Len(imm') = Len(imm) + 1 /\ imm'[1] = mem
        /\ \A p \in 2..Len(imm) + 1 : imm'[p] = imm[p - 1]
        /\ Ids(imm') = {mem} \cup Ids(imm)
    BY <1>g, <1>t, Prepended
  <2>2. Batches(data', {mem'} \cup Ids(imm')) = Batches(data, {mem} \cup Ids(imm))
    <3>1. Batches(data', {mem'} \cup Ids(imm')) = Batches(data', Ids(imm'))
      <4>1. data'[mem'] = {}
        BY <1>g
      <4> QED BY <4>1, BatchesEmpty
    <3>2. Batches(data', Ids(imm')) = Batches(data, Ids(imm'))
      BY <1>g, <2>1, BatchesSame
    <3> QED BY <2>1, <3>1, <3>2
  <2>3. Readable' = 1..Top'
    BY <1>g, <1>h, <2>2 DEF Readable
  <2>4. \A i \in Ids(imm') : data'[i] # {} /\ Above(data'[mem'], data'[i])
    BY <1>g, <1>h, <2>1 DEF Above
  <2>5. \A k \in Ids(l0') \cup Ids(l1') :
           /\ Above(data'[mem'], sst'[k])
           /\ \A i \in Ids(imm') : Above(data'[i], sst'[k])
    BY <1>g, <1>h, <2>1 DEF Above
  <2>6. \A p, q \in 1..Len(imm') : p < q => Above(data'[imm'[p]], data'[imm'[q]])
    <3>1. ASSUME NEW p \in 1..Len(imm'), NEW q \in 1..Len(imm'), p < q
          PROVE  Above(data'[imm'[p]], data'[imm'[q]])
      <4>0. Len(imm) \in Nat /\ p \in 1..Len(imm) + 1 /\ q \in 1..Len(imm) + 1
        BY <1>t, <2>1, <3>1
      <4>1. /\ q \in 2..Len(imm) + 1 /\ q - 1 \in 1..Len(imm)
            /\ p # 1 => p \in 2..Len(imm) + 1 /\ p - 1 \in 1..Len(imm) /\ p - 1 < q - 1
        BY <3>1, <4>0, Shifted
      <4>2. imm'[q] = imm[q - 1] /\ imm[q - 1] \in Ids(imm)
        BY <2>1, <4>1 DEF Ids
      <4>3. CASE p = 1
        BY <1>g, <1>h, <2>1, <4>2, <4>3
      <4>4. CASE p # 1
        <5>1. imm'[p] = imm[p - 1] /\ imm[p - 1] \in Ids(imm)
          BY <2>1, <4>1, <4>4 DEF Ids
        <5>2. Above(data[imm[p - 1]], data[imm[q - 1]])
          BY <1>g, <1>h, <4>1, <4>4
        <5> QED BY <1>g, <4>2, <5>1, <5>2
      <4> QED BY <4>3, <4>4
    <3> QED BY <3>1
  <2>7. /\ \A p, q \in 1..Len(l0') : p < q => Above(sst'[l0'[p]], sst'[l0'[q]])
        /\ \A i \in Ids(l0'), k \in Ids(l1') : Above(sst'[i], sst'[k])
    BY <1>g, <1>h
  <2> QED BY <2>3, <2>4, <2>5, <2>6, <2>7 DEF Holdings
<1>1. CASE \/ Publish \/ Sync \/ FreezeSyncWal \/ FreezeRecord \/ FreezeSyncDir
           \/ FlushRemoveWal \/ FlushRecord \/ FlushSyncDir \/ CompactStart
           \/ CompactSyncDir \/ CompactRecord \/ CompactRemove \/ OpenManifest
           \/ OpenRecord \/ OpenSyncDir
  <2>1. UNCHANGED <<mem, imm, l0, l1, data, sst>>
    BY <1>1 DEF Publish, Sync, FreezeSyncWal, FreezeRecord, FreezeSyncDir, FlushRemoveWal,
       FlushRecord, FlushSyncDir, CompactStart, CompactSyncDir, CompactRecord,
       CompactRemove, OpenManifest, OpenRecord, OpenSyncDir
  <2>2. Top' = Top
    <3>1. CASE Publish
      BY <3>1 DEF Publish, Top
    <3>2. CASE FreezeSyncDir
      BY <3>2 DEF FreezeSyncDir, Top
    <3>3. CASE ~Publish /\ ~FreezeSyncDir
      BY <1>1, <3>3 DEF Sync, FreezeSyncWal, FreezeRecord, FlushRemoveWal,
       FlushRecord, FlushSyncDir, CompactStart, CompactSyncDir, CompactRecord,
       CompactRemove, OpenManifest, OpenRecord, OpenSyncDir, Top
    <3> QED BY <3>1, <3>2, <3>3
  <2>3. Alive
    <3>1. status = "up" \/ lock.at # "free" \/ compaction.at = "removing"
      BY <1>1 DEF Publish, Sync, FreezeSyncWal, FreezeRecord, FreezeSyncDir, FlushRemoveWal,
         FlushRecord, FlushSyncDir, CompactStart, CompactSyncDir, CompactRecord,
         CompactRemove, OpenManifest, OpenRecord, OpenSyncDir
    <3> QED BY <1>a, <3>1 DEF Phases, Alive, NoLock, NoCompaction
  <2> QED BY <1>f, <2>1, <2>2, <2>3
<1>2. CASE Write
  <2>1. /\ UNCHANGED <<mem, imm, l0, l1, sst, ts>>
        /\ data' = [data EXCEPT ![mem] = @ \cup {ts + 1}]
        /\ status = "up" /\ writer = "idle" /\ writer' = "inserted"
    BY <1>2 DEF Write
  <2>2. Alive /\ Top = ts /\ Top' = ts + 1
    BY <2>1 DEF Alive, Top
  <2>3. data'[mem] = data[mem] \cup {ts + 1}
    BY <1>t, <2>1 DEF Content
  <2>4. \A i \in Ids(imm) : data'[i] = data[i]
    <3>1. \A i \in Id : i # mem => data'[i] = data[i]
      BY <1>t, <2>1 DEF Content
    <3>2. mem \notin Ids(imm)
      BY <1>a DEF IdsFresh, Listed
    <3> QED BY <1>t, <3>1, <3>2
  <2>5. Readable = 1..ts
    BY <1>h, <2>2
  <2>6. /\ \A i \in Ids(imm) : data[i] \subseteq 1..ts
        /\ \A k \in Ids(l0) \cup Ids(l1) : sst[k] \subseteq 1..ts
    BY <2>5 DEF Readable, Batches
  <2>7. \A X \in SUBSET (1..ts) : Above(data[mem], X) => Above(data'[mem], X)
    <3>1. \A b \in 1..ts : b < ts + 1
      BY <1>t
    <3> QED BY <2>3, <3>1 DEF Above
  <2>8. Readable' = Readable \cup {ts + 1}
    <3>1. Batches(data', {mem} \cup Ids(imm)) = Batches(data, {mem} \cup Ids(imm)) \cup {ts + 1}
      <4>1. Batches(data', Ids(imm)) = Batches(data, Ids(imm))
        BY <2>4, BatchesSame
      <4>2. /\ Batches(data', {mem} \cup Ids(imm)) = data'[mem] \cup Batches(data', Ids(imm))
            /\ Batches(data, {mem} \cup Ids(imm)) = data[mem] \cup Batches(data, Ids(imm))
        BY BatchesOf
      <4> QED BY <2>3, <4>1, <4>2
    <3> QED BY <2>1, <3>1 DEF Readable
  <2>9. Readable' = 1..Top'
    <3>1. (1..ts) \cup {ts + 1} = 1..ts + 1
      BY <1>t
    <3> QED BY <2>2, <2>5, <2>8, <3>1
  <2>10. \A i \in Ids(imm') : data'[i] # {} /\ Above(data'[mem'], data'[i])
    BY <1>h, <2>1, <2>2, <2>4, <2>6, <2>7
  <2>11. \A p \in 1..Len(imm) : data'[imm[p]] = data[imm[p]]
    BY <2>4 DEF Ids
  <2>12. \A p, q \in 1..Len(imm') : p < q => Above(data'[imm'[p]], data'[imm'[q]])
    <3>1. imm' = imm /\ \A p, q \in 1..Len(imm) : p < q => Above(data[imm[p]], data[imm[q]])
      BY <1>h, <2>1, <2>2
    <3>2. \A p, q \in 1..Len(imm) : p < q => Above(data'[imm[p]], data'[imm[q]])
      BY <2>11, <3>1
    <3> QED BY <3>1, <3>2
  <2>13. \A k \in Ids(l0') \cup Ids(l1') :
            /\ Above(data'[mem'], sst'[k])
            /\ \A i \in Ids(imm') : Above(data'[i], sst'[k])
    BY <1>h, <2>1, <2>2, <2>4, <2>6, <2>7
  <2>14. /\ \A p, q \in 1..Len(l0') : p < q => Above(sst'[l0'[p]], sst'[l0'[q]])
         /\ \A i \in Ids(l0'), k \in Ids(l1') : Above(sst'[i], sst'[k])
    BY <1>h, <2>1, <2>2
  <2> QED BY <2>9, <2>10, <2>12, <2>13, <2>14 DEF Holdings
<1>3. CASE FreezeCreate
  <2>1. /\ UNCHANGED <<mem, imm, l0, l1, sst, ts>>
        /\ data' = [data EXCEPT ![nextId] = {}] /\ status = "up" /\ lock.at = "free"
        /\ writer' = writer \/ (writer = "inserted" /\ writer' = "freezing")
    BY <1>3 DEF FreezeCreate
  <2>2. Alive /\ Top' = Top
    BY <2>1 DEF Alive, Top
  <2>3. \A i \in {mem} \cup Ids(imm) : data'[i] = data[i]
    <3>1. mem < nextId /\ \A i \in Ids(imm) : i < nextId
      BY <1>a, <2>1 DEF IdsFresh, Listed
    <3>2. \A i \in Id : i # nextId => data'[i] = data[i]
      BY <1>t, <2>1 DEF Content
    <3>3. nextId \notin {mem} \cup Ids(imm)
      BY <1>t, <3>1
    <3> QED BY <1>t, <3>2, <3>3
  <2> QED BY <1>f, <2>1, <2>2, <2>3
<1>4. CASE FreezeSwap
  <2>1. /\ UNCHANGED <<l0, l1, sst, data, ts, writer>>
        /\ imm' = <<mem>> \o imm /\ mem' = lock.id /\ lock.at = "freeze.created"
    BY <1>4 DEF FreezeSwap
  <2>2. Top' = Top
    BY <2>1 DEF Top
  <2>3. Alive
    BY <1>a, <2>1 DEF Phases, NoLock
  <2>4. data[lock.id] = {} /\ data[mem] # {}
    BY <1>a, <2>1 DEF Holding
  <2> QED BY <1>g, <2>1, <2>2, <2>3, <2>4
<1>5. CASE FlushBuild
  <2>1. /\ UNCHANGED <<mem, imm, l0, l1, data, ts, writer>> /\ imm # <<>>
        /\ sst' = [sst EXCEPT ![Last(imm)] = data[Last(imm)]] /\ Alive
    BY <1>5 DEF FlushBuild, Running, Alive
  <2>2. Top' = Top
    BY <2>1 DEF Top
  <2>3. Last(imm) \notin Ids(l0) \cup Ids(l1)
    BY <1>a, <1>t, <2>1, FrontOf DEF IdsFresh
  <2>4. \A i \in Id : i # Last(imm) => sst'[i] = sst[i]
    BY <1>t, <2>1 DEF Content
  <2>5. \A k \in Ids(l0) \cup Ids(l1) : sst'[k] = sst[k]
    BY <1>t, <2>3, <2>4
  <2> QED BY <1>f, <2>1, <2>2, <2>5
<1>6. CASE FlushInstall
  <2>1. /\ UNCHANGED <<mem, l1, data, sst, ts, writer>>
        /\ imm' = Front(imm) /\ l0' = <<lock.id>> \o l0 /\ lock.at = "flush.built"
    BY <1>6 DEF FlushInstall
  <2>2. Top' = Top
    BY <2>1 DEF Top
  <2>3. Alive
    BY <1>a, <2>1 DEF Phases, NoLock
  <2>4. imm # <<>> /\ lock.id = Last(imm) /\ sst[lock.id] = data[lock.id]
    BY <1>a, <2>1 DEF Holding
  <2>5. /\ imm' \in Seq(Id) /\ Len(imm') = Len(imm) - 1 /\ Len(imm) \in Nat \ {0}
        /\ \A p \in 1..Len(imm) - 1 : imm'[p] = imm[p]
        /\ lock.id = imm[Len(imm)] /\ lock.id \in Ids(imm)
        /\ Ids(imm) = Ids(imm') \cup {lock.id}
    BY <1>t, <2>1, <2>4, FrontOf
  <2>6. /\ l0' \in Seq(Id) /\ Len(l0') = Len(l0) + 1 /\ l0'[1] = lock.id
        /\ \A p \in 2..Len(l0) + 1 : l0'[p] = l0[p - 1]
        /\ Ids(l0') = {lock.id} \cup Ids(l0)
    <3>1. lock.id \in Id /\ l0 \in Seq(Id) /\ l0' = <<lock.id>> \o l0
      BY <1>t, <2>1
    <3> QED BY <3>1, Prepended
  <2>7. \A i \in Ids(imm') : Above(data[i], data[lock.id])
    <3>1. ASSUME NEW p \in 1..Len(imm') PROVE Above(data[imm'[p]], data[lock.id])
      <4>1. p \in 1..Len(imm) /\ p < Len(imm) /\ Len(imm) \in 1..Len(imm)
            /\ p \in 1..Len(imm) - 1
        BY <2>5
      <4> QED BY <1>h, <2>3, <2>5, <4>1
    <3> QED BY <3>1 DEF Ids
  <2>8. Readable' = Readable
    <3>1. Batches(data, {mem} \cup Ids(imm))
             = Batches(data, {mem} \cup Ids(imm')) \cup data[lock.id]
      <4>1. {mem} \cup Ids(imm) = ({mem} \cup Ids(imm')) \cup {lock.id}
        BY <2>5
      <4> QED BY <4>1, BatchesOf
    <3>2. Batches(sst, Ids(l0') \cup Ids(l1)) = sst[lock.id] \cup Batches(sst, Ids(l0) \cup Ids(l1))
      <4>1. Ids(l0') \cup Ids(l1) = {lock.id} \cup (Ids(l0) \cup Ids(l1))
        BY <2>6
      <4> QED BY <4>1, BatchesOf
    <3> QED BY <2>1, <2>4, <3>1, <3>2 DEF Readable
  <2>9. Readable' = 1..Top'
    BY <1>h, <2>2, <2>3, <2>8
  <2>10. \A i \in Ids(imm') : data'[i] # {} /\ Above(data'[mem'], data'[i])
    BY <1>h, <2>1, <2>3, <2>5
  <2>11. \A p, q \in 1..Len(imm') : p < q => Above(data'[imm'[p]], data'[imm'[q]])
    <3>1. \A p \in 1..Len(imm') : p \in 1..Len(imm) /\ p \in 1..Len(imm) - 1
      BY <2>5
    <3> QED BY <1>h, <2>1, <2>3, <2>5, <3>1
  <2>12. \A k \in Ids(l0') \cup Ids(l1') :
            /\ Above(data'[mem'], sst'[k])
            /\ \A i \in Ids(imm') : Above(data'[i], sst'[k])
    BY <1>h, <2>1, <2>3, <2>4, <2>5, <2>6, <2>7
  <2>13. \A p, q \in 1..Len(l0') : p < q => Above(sst'[l0'[p]], sst'[l0'[q]])
    <3>1. ASSUME NEW p \in 1..Len(l0'), NEW q \in 1..Len(l0'), p < q
          PROVE  Above(sst[l0'[p]], sst[l0'[q]])
      <4>0. Len(l0) \in Nat /\ p \in 1..Len(l0) + 1 /\ q \in 1..Len(l0) + 1
        BY <1>t, <2>6, <3>1
      <4>1. /\ q \in 2..Len(l0) + 1 /\ q - 1 \in 1..Len(l0)
            /\ p # 1 => p \in 2..Len(l0) + 1 /\ p - 1 \in 1..Len(l0) /\ p - 1 < q - 1
        BY <3>1, <4>0, Shifted
      <4>2. l0'[q] = l0[q - 1] /\ l0[q - 1] \in Ids(l0)
        BY <2>6, <4>1 DEF Ids
      <4>3. CASE p = 1
        BY <1>h, <2>3, <2>4, <2>5, <2>6, <4>2, <4>3
      <4>4. CASE p # 1
        BY <1>h, <2>3, <2>6, <4>1, <4>2, <4>4
      <4> QED BY <4>3, <4>4
    <3> QED BY <2>1, <3>1
  <2>14. \A i \in Ids(l0'), k \in Ids(l1') : Above(sst'[i], sst'[k])
    BY <1>h, <2>1, <2>3, <2>4, <2>5, <2>6
  <2> QED BY <2>9, <2>10, <2>11, <2>12, <2>13, <2>14 DEF Holdings
<1>7. CASE CompactMerge
  <2>1. /\ UNCHANGED <<mem, imm, l0, l1, data, ts, writer>> /\ compaction.at = "merging"
        /\ sst' = [sst EXCEPT ![nextId] =
                      Batches(sst, Ids(compaction.l0) \cup Ids(compaction.l1))]
    BY <1>7 DEF CompactMerge
  <2>2. Top' = Top
    BY <2>1 DEF Top
  <2>3. Alive
    BY <1>a, <2>1 DEF Phases, NoCompaction
  <2>4. \A i \in Listed : i # nextId
    BY <1>a, <1>t DEF IdsFresh
  <2>5. \A i \in Id : i # nextId => sst'[i] = sst[i]
    BY <1>t, <2>1 DEF Content
  <2>6. \A k \in Ids(l0) \cup Ids(l1) : sst'[k] = sst[k]
    BY <1>t, <2>4, <2>5 DEF Listed
  <2> QED BY <1>f, <2>1, <2>2, <2>3, <2>6
<1>8. CASE CompactInstall
  <2>1. /\ UNCHANGED <<mem, imm, data, sst, ts, writer>>
        /\ compaction.at = "merged" /\ lock.at = "free"
        /\ l0' = Without(l0, compaction.l0) /\ l1' = <<compaction.out>>
    BY <1>8 DEF CompactInstall
  <2>2. Top' = Top
    BY <2>1 DEF Top
  <2>3. Alive
    BY <1>a, <2>1 DEF Phases, NoCompaction
  <2>4. ~CompactMid
    BY <2>1 DEF CompactMid, CompactPositions
  <2>5. l0' \in Seq(Id) /\ l0 = l0' \o compaction.l0
    BY <2>1, <2>4, InputsLast
  <2>6. /\ Ids(l0) = Ids(l0') \cup Ids(compaction.l0) /\ Ids(l1') = {compaction.out}
    BY <1>t, <2>1, <2>5, IdsOf
  <2>7. /\ compaction.l1 = l1
        /\ sst[compaction.out] = Batches(sst, Ids(compaction.l0) \cup Ids(l1))
    BY <1>a, <2>1, <2>4 DEF Compacting
  <2>8. \A b \in sst[compaction.out] : \E j \in Ids(compaction.l0) \cup Ids(l1) : b \in sst[j]
    BY <2>7 DEF Batches
  <2>9. Readable' = Readable
    <3>1. Batches(sst, Ids(l0') \cup Ids(l1')) = Batches(sst, Ids(l0) \cup Ids(l1))
      <4>1. Batches(sst, Ids(l0') \cup {compaction.out})
               = Batches(sst, Ids(l0') \cup (Ids(compaction.l0) \cup Ids(l1)))
        <5> DEFINE A == Ids(l0')
                   B == Ids(compaction.l0) \cup Ids(l1)
                   x == compaction.out
        <5>1. sst[x] = Batches(sst, B)
          BY <2>7
        <5> HIDE DEF A, B, x
        <5>2. Batches(sst, A \cup {x}) = Batches(sst, A) \cup sst[x]
          BY BatchesOf
        <5>3. Batches(sst, A \cup B) = Batches(sst, A) \cup Batches(sst, B)
          BY BatchesOf
        <5>4. Batches(sst, A \cup {x}) = Batches(sst, A \cup B)
          BY <5>1, <5>2, <5>3
        <5> QED BY <5>4 DEF A, B, x
      <4>2. Ids(l0) \cup Ids(l1) = Ids(l0') \cup (Ids(compaction.l0) \cup Ids(l1))
        BY <2>6
      <4> QED BY <2>6, <4>1, <4>2
    <3> QED BY <2>1, <3>1 DEF Readable
  <2>10. Readable' = 1..Top'
    BY <1>h, <2>2, <2>3, <2>9
  <2>11. \A i \in Ids(imm') : data'[i] # {} /\ Above(data'[mem'], data'[i])
    BY <1>h, <2>1, <2>3
  <2>12. \A p, q \in 1..Len(imm') : p < q => Above(data'[imm'[p]], data'[imm'[q]])
    BY <1>h, <2>1, <2>3
  <2>13. \A X : (\A j \in Ids(compaction.l0) \cup Ids(l1) : Above(X, sst[j]))
                   => Above(X, sst[compaction.out])
    BY <2>8 DEF Above
  <2>14. \A k \in Ids(l0') \cup Ids(l1') :
            /\ Above(data'[mem'], sst'[k])
            /\ \A i \in Ids(imm') : Above(data'[i], sst'[k])
    BY <1>h, <2>1, <2>3, <2>6, <2>13
  <2>15. /\ Len(l0') \in Nat /\ Len(compaction.l0) \in Nat
         /\ Len(l0) = Len(l0') + Len(compaction.l0)
         /\ \A p \in 1..Len(l0') : l0[p] = l0'[p]
         /\ \A p \in 1..Len(compaction.l0) : l0[Len(l0') + p] = compaction.l0[p]
    <3>1. compaction.l0 \in Seq(Id)
      BY <1>t
    <3> QED BY <2>5, <3>1
  <2>16. \A p, q \in 1..Len(l0') : p < q => Above(sst'[l0'[p]], sst'[l0'[q]])
    <3>1. \A p \in 1..Len(l0') : p \in 1..Len(l0)
      BY <2>15
    <3> QED BY <1>h, <2>1, <2>3, <2>15, <3>1
  <2>17. \A i \in Ids(l0'), j \in Ids(compaction.l0) : Above(sst[i], sst[j])
    <3>1. ASSUME NEW p \in 1..Len(l0'), NEW q \in 1..Len(compaction.l0)
          PROVE  Above(sst[l0'[p]], sst[compaction.l0[q]])
      <4>1. p \in 1..Len(l0) /\ Len(l0') + q \in 1..Len(l0) /\ p < Len(l0') + q
        BY <2>15
      <4> QED BY <1>h, <2>3, <2>15, <4>1
    <3> QED BY <3>1 DEF Ids
  <2>18. \A i \in Ids(l0'), k \in Ids(l1') : Above(sst'[i], sst'[k])
    BY <1>h, <2>1, <2>3, <2>6, <2>13, <2>17
  <2> QED BY <2>10, <2>11, <2>12, <2>14, <2>16, <2>18 DEF Holdings
<1>9. CASE Close
  <2>1. CASE EnableWal
    BY <1>9, <1>d, <2>1 DEF Close, Stopped
  <2>2. CASE ~EnableWal
    <3>1. /\ UNCHANGED <<l0, l1, sst, ts, writer>> /\ status = "up" /\ lock.at = "free"
      BY <1>9, <2>2 DEF Close
    <3>2. Alive /\ Top' = Top
      BY <3>1 DEF Alive, Top
    <3>3. CASE data[mem] = {}
      <4>1. UNCHANGED <<imm, mem, data>>
        BY <1>9, <2>2, <3>3 DEF Close
      <4> QED BY <1>f, <3>1, <3>2, <4>1
    <3>4. CASE data[mem] # {}
      <4>1. /\ imm' = <<mem>> \o imm /\ mem' = nextId /\ nextId <= MaxId
            /\ data' = [data EXCEPT ![nextId] = {}]
        BY <1>9, <2>2, <3>4 DEF Close, IdLeft
      <4>2. nextId \in Id
        BY <1>a, <1>t, <4>1, Fields
      <4>3. mem < nextId /\ \A i \in Ids(imm) : i < nextId
        BY <1>a, <3>1 DEF IdsFresh, Listed
      <4>4. nextId \notin {mem} \cup Ids(imm)
        BY <1>t, <4>3
      <4>5. data'[nextId] = {} /\ \A i \in Id : i # nextId => data'[i] = data[i]
        BY <1>t, <4>1, <4>2 DEF Content
      <4>6. \A i \in {mem} \cup Ids(imm) : data'[i] = data[i]
        BY <1>t, <4>4, <4>5
      <4> QED BY <1>g, <3>1, <3>2, <3>4, <4>1, <4>5, <4>6
    <3> QED BY <3>3, <3>4
  <2> QED BY <2>1, <2>2
<1>10. CASE CloseEnd \/ Crash
  BY <1>10, <1>d DEF CloseEnd, Crash, Stopped
<1>11. CASE OpenFresh
  <2>1. CASE ~Recoverable
    BY <1>11, <1>d, <2>1 DEF OpenFresh
  <2>2. CASE Recoverable
    <3>1. /\ UNCHANGED <<mem, imm, l0, l1, ts, writer>> /\ status = "down"
          /\ data' = [data EXCEPT ![0] = {}]
      BY <1>11, <2>2 DEF OpenFresh
    <3>2. mem = 0 /\ imm = <<>> /\ l0 = <<>> /\ l1 = <<>> /\ ts = 0 /\ writer = "idle"
      BY <1>a, <3>1 DEF Phases, Alive
    <3>3. data'[0] = {}
      BY <1>t, <3>1, <3>2 DEF Content
    <3>4. Ids(imm') = {} /\ Ids(l0') = {} /\ Ids(l1') = {}
      BY <3>1, <3>2, IdsOf
    <3>5. Readable' = {}
      <4>1. Readable' = Batches(data', {0}) \cup Batches(sst', {})
        BY <3>1, <3>2, <3>4 DEF Readable
      <4> QED BY <3>3, <4>1 DEF Batches
    <3>6. Top' = 0 /\ 1..0 = {}
      BY <3>1, <3>2 DEF Top
    <3> QED BY <3>1, <3>2, <3>4, <3>5, <3>6 DEF Holdings
  <2> QED BY <2>1, <2>2
<1>12. CASE OpenRecover
  <2>1. CASE ~Recoverable
    BY <1>12, <1>d, <2>1 DEF OpenRecover
  <2>2. CASE Recoverable
    <3>1. /\ imm' = RecoveredMemtables /\ UNCHANGED <<sst, writer>>
          /\ l0' = manifest.l0 /\ l1' = manifest.l1 /\ ts' = LatestOf(Recovered)
          /\ mem' = manifest.maxId + 1
          /\ data' = [data EXCEPT ![manifest.maxId + 1] = {}]
          /\ status = "down" /\ ManifestFile \in files
      BY <1>12, <2>2 DEF OpenRecover
    <3>2. /\ imm' \in Seq(Id)
          /\ Ids(imm') = (IF EnableWal THEN {i \in manifest.mems : data[i] # {}} ELSE {})
          /\ \A p, q \in 1..Len(imm') : p < q => imm'[q] < imm'[p]
          /\ Recovered = 1..ts'
          /\ Recorded /\ manifest.maxId + 1 \in Id
      BY <2>2, <3>1, RecoverFinds
    <3>3. data'[mem'] = {} /\ \A i \in Id : i # mem' => data'[i] = data[i]
      BY <1>t, <3>1, <3>2 DEF Content
    <3>4. \A i \in Ids(imm') : data'[i] = data[i] /\ data[i] # {}
      <4>1. Ids(imm') \subseteq Id /\ \A i \in Ids(imm') : data[i] # {}
        BY <3>2, IdsOf
      <4>2. \A i \in Ids(imm') : i < mem'
        BY IdsStep DEF IdsFresh
      <4>3. Id \subseteq Nat
        BY <1>a, Fields
      <4>4. \A i \in Ids(imm') : i # mem'
        <5>1. mem' \in Nat
          BY <3>1, <3>2, <4>3
        <5> QED BY <4>1, <4>2, <4>3, <5>1
      <4> QED BY <3>3, <4>1, <4>4
    <3>5. writer' = "idle" /\ Top' = ts'
      BY <1>a, <3>1 DEF Phases, Alive, Top
    <3>6. Recovered = Batches(sst, RecordedSsts)
                      \cup (IF EnableWal THEN Batches(data, manifest.mems) ELSE {})
      BY <2>2, <3>1 DEF Recovered
    <3>7. Batches(data', {mem'} \cup Ids(imm'))
             = (IF EnableWal THEN Batches(data, manifest.mems) ELSE {})
      <4>1. Batches(data', {mem'} \cup Ids(imm')) = Batches(data', Ids(imm'))
        BY <3>3, BatchesEmpty
      <4>2. Batches(data', Ids(imm')) = Batches(data, Ids(imm'))
        BY <3>4, BatchesSame
      <4>3. CASE EnableWal
        <5>1. Batches(data, {i \in manifest.mems : data[i] # {}}) = Batches(data, manifest.mems)
          BY DEF Batches
        <5> QED BY <3>2, <4>1, <4>2, <4>3, <5>1
      <4>4. CASE ~EnableWal
        <5>1. Batches(data, {}) = {}
          BY BatchesOf
        <5> QED BY <3>2, <4>1, <4>2, <4>4, <5>1
      <4> QED BY <4>3, <4>4
    <3>8. RecordedSsts = Ids(l0') \cup Ids(l1')
      BY <3>1 DEF RecordedSsts
    <3>9. Readable' = 1..Top'
      BY <3>1, <3>2, <3>5, <3>6, <3>7, <3>8 DEF Readable
    <3>10. \A i \in Ids(imm') : data'[i] # {} /\ Above(data'[mem'], data'[i])
      BY <3>3, <3>4 DEF Above
    <3>11. \A i \in Ids(imm') : EnableWal /\ i \in manifest.mems
      BY <3>2
    <3>12. \A p, q \in 1..Len(imm') : p < q => Above(data'[imm'[p]], data'[imm'[q]])
      <4>1. \A p \in 1..Len(imm') : imm'[p] \in Ids(imm')
        BY DEF Ids
      <4>2. EnableWal => \A i, j \in manifest.mems : j < i => Above(data[i], data[j])
        BY <3>2 DEF Recorded
      <4> QED BY <3>2, <3>4, <3>11, <4>1, <4>2
    <3>13. \A k \in Ids(l0') \cup Ids(l1') :
              /\ Above(data'[mem'], sst'[k])
              /\ \A i \in Ids(imm') : Above(data'[i], sst'[k])
      <4>1. EnableWal => \A i \in manifest.mems, k \in RecordedSsts : Above(data[i], sst[k])
        BY <3>2 DEF Recorded
      <4>2. \A k : Above(data'[mem'], sst'[k])
        BY <3>3 DEF Above
      <4> QED BY <3>1, <3>4, <3>8, <3>11, <4>1, <4>2
    <3>14. /\ \A p, q \in 1..Len(l0') : p < q => Above(sst'[l0'[p]], sst'[l0'[q]])
           /\ \A i \in Ids(l0'), k \in Ids(l1') : Above(sst'[i], sst'[k])
      BY <3>1, <3>2 DEF Recorded
    <3> QED BY <3>9, <3>10, <3>12, <3>13, <3>14 DEF Holdings
  <2> QED BY <2>1, <2>2
<1> QED BY <1>1, <1>2, <1>3, <1>4, <1>5, <1>6, <1>7, <1>8, <1>9, <1>10, <1>11, <1>12
    DEF Next, WriterStep, FreezeStep, FlushStep, CompactStep, RestartStep

\* Every step keeps what is safe of each log a prefix of it, and a frozen log safe.
LEMMA LogsStep ==
    ASSUME IInv, Next
    PROVE  Logs'
<1> USE DEF vars, diskVars, memoryVars, levelVars, threadVars
<1>a. /\ Typed /\ Phases /\ IdsFresh /\ Holding /\ Recording /\ Holdings /\ Logs
      /\ OnDisk /\ ManifestShape
  BY DEF IInv
<1>t. /\ imm \in Seq(Id) /\ mem \in Id /\ nextId \in Nat /\ lock.id \in Id
      /\ lock \in Position /\ data \in Content /\ Safe \in Content /\ ts \in Nat
      /\ Listed \subseteq Nat /\ mem \in Nat /\ Ids(imm) \subseteq Id /\ lock.id \in Nat
      /\ Id \subseteq Nat
  <2>1. Typed
    BY <1>a
  <2>2. lock \in Position /\ data \in Content /\ ts \in 0..MaxBatches
    BY <2>1 DEF Typed
  <2>3. /\ imm \in Seq(Id) /\ mem \in Id /\ l0 \in Seq(Id) /\ l1 \in Seq(Id)
        /\ Id = 0..MaxId /\ MaxId \in Nat /\ nextId \in 1..MaxId + 1 /\ MaxBatches \in Nat
        /\ lock.id \in Id
    BY <2>1, Fields
  <2>4. Id \subseteq Nat /\ nextId \in Nat /\ ts \in Nat
    BY <2>2, <2>3
  <2>5. Ids(imm) \subseteq Id /\ Ids(l0) \subseteq Id /\ Ids(l1) \subseteq Id
    BY <2>3, IdsOf
  <2>6. Listed \subseteq Nat
    BY <2>4, <2>5 DEF Listed
  <2>7. written \in Content /\ synced \in Content
    BY <2>1 DEF Typed
  <2>8. Safe \in Content
    BY <2>7 DEF Safe
  <2> QED BY <2>2, <2>3, <2>4, <2>5, <2>6, <2>8
<1>w. EnableWal' = EnableWal /\ setting' = setting
  BY SettingKept
<1>c. SUFFICES ASSUME EnableWal
               PROVE  /\ \A i \in Id : /\ Safe'[i] \subseteq data'[i]
                                       /\ \A a \in data'[i], b \in Safe'[i] :
                                             a < b => a \in Safe'[i]
                      /\ \A p \in 1..Len(imm') :
                            Safe'[imm'[p]] = data'[imm'[p]]
                            \/ (p = 1 /\ lock'.at = "freeze.swapped")
                      /\ FlushMid' => Safe'[lock'.id] = data'[lock'.id]
  BY <1>w DEF Logs
<1>l. /\ \A i \in Id : /\ Safe[i] \subseteq data[i]
                       /\ \A a \in data[i], b \in Safe[i] : a < b => a \in Safe[i]
      /\ \A p \in 1..Len(imm) :
            Safe[imm[p]] = data[imm[p]] \/ (p = 1 /\ lock.at = "freeze.swapped")
      /\ FlushMid => Safe[lock.id] = data[lock.id]
  BY <1>a, <1>c DEF Logs
<1>s. /\ UNCHANGED <<written, synced>> => Safe' = Safe
      /\ \A i, x : /\ written' = [written EXCEPT ![i] = x]
                   /\ synced' = [synced EXCEPT ![i] = x]
                   => Safe' = [Safe EXCEPT ![i] = x]
  BY <1>w DEF Safe
<1>p. \A p \in 1..Len(imm) : imm[p] \in Ids(imm) /\ imm[p] \in Id
  BY <1>t DEF Ids
<1>1. CASE \/ Publish \/ FreezeRecord \/ FreezeSyncDir
           \/ FlushBuild \/ FlushRemoveWal \/ FlushRecord \/ FlushSyncDir
           \/ CompactStart \/ CompactMerge \/ CompactInstall \/ CompactSyncDir
           \/ CompactRecord \/ CompactRemove \/ OpenManifest \/ OpenRecord \/ OpenSyncDir
  <2>1. UNCHANGED <<imm, data, written, synced>>
    BY <1>1 DEF Publish, FreezeRecord, FreezeSyncDir, FlushBuild, FlushRemoveWal,
       FlushRecord, FlushSyncDir, CompactStart, CompactMerge, CompactInstall,
       CompactSyncDir, CompactRecord, CompactRemove, OpenManifest, OpenRecord, OpenSyncDir
  <2>2. /\ lock.at = "freeze.swapped" => lock' = lock
        /\ FlushMid' => FlushMid /\ lock'.id = lock.id
    BY <1>1, <1>t DEF Publish, FreezeRecord, FreezeSyncDir, FlushBuild, FlushRemoveWal,
       FlushRecord, FlushSyncDir, CompactStart, CompactMerge, CompactInstall,
       CompactSyncDir, CompactRecord, CompactRemove, OpenManifest, OpenRecord, OpenSyncDir,
       NoLock, At, Position, FlushMid
  <2> QED BY <1>l, <1>s, <2>1, <2>2
<1>2. CASE Write
  <2>1. /\ UNCHANGED <<imm, written, synced, lock>> /\ status = "up" /\ writer = "idle"
        /\ data' = [data EXCEPT ![mem] = @ \cup {ts + 1}]
    BY <1>2 DEF Write
  <2>2. Safe' = Safe /\ FlushMid' = FlushMid
    BY <1>s, <2>1 DEF FlushMid
  <2>3. /\ data'[mem] = data[mem] \cup {ts + 1}
        /\ \A i \in Id : i # mem => data'[i] = data[i]
    BY <1>t, <2>1 DEF Content
  <2>4. data[mem] \subseteq 1..ts
    <3>1. Readable = 1..ts
      BY <1>a, <2>1 DEF Holdings, Alive, Top
    <3> QED BY <3>1 DEF Readable, Batches
  <2>5. \A b \in Safe[mem] : ~(ts + 1 < b)
    <3>1. \A b \in 1..ts : ~(ts + 1 < b)
      BY <1>t
    <3> QED BY <1>l, <1>t, <2>4, <3>1
  <2>6. \A i \in Id : /\ Safe'[i] \subseteq data'[i]
                      /\ \A a \in data'[i], b \in Safe'[i] : a < b => a \in Safe'[i]
    <3>1. ASSUME NEW i \in Id
          PROVE  /\ Safe'[i] \subseteq data'[i]
                 /\ \A a \in data'[i], b \in Safe'[i] : a < b => a \in Safe'[i]
      <4>1. CASE i = mem
        BY <1>l, <1>t, <2>2, <2>3, <2>5, <4>1
      <4>2. CASE i # mem
        BY <1>l, <2>2, <2>3, <4>2
      <4> QED BY <4>1, <4>2
    <3> QED BY <3>1
  <2>7. \A p \in 1..Len(imm) : imm[p] # mem
    BY <1>a, <1>p DEF IdsFresh, Listed
  <2>8. FlushMid => lock.id # mem
    <3>1. FlushMid => lock.id < mem
      BY <1>a DEF Holding
    <3> QED BY <1>t, <3>1
  <2> QED BY <1>l, <1>p, <1>t, <2>1, <2>2, <2>3, <2>6, <2>7, <2>8
<1>3. CASE Sync
  <2>1. /\ UNCHANGED <<imm, data, lock>>
        /\ written' = [written EXCEPT ![mem] = data[mem]]
        /\ synced' = [synced EXCEPT ![mem] = data[mem]]
    BY <1>3, <1>c DEF Sync, SyncLog
  <2>2. Safe' = [Safe EXCEPT ![mem] = data[mem]] /\ FlushMid' = FlushMid
    BY <1>s, <2>1 DEF FlushMid
  <2>3. Safe'[mem] = data[mem] /\ \A i \in Id : i # mem => Safe'[i] = Safe[i]
    BY <1>t, <2>2 DEF Content
  <2>4. \A i \in Id : /\ Safe'[i] \subseteq data'[i]
                      /\ \A a \in data'[i], b \in Safe'[i] : a < b => a \in Safe'[i]
    BY <1>l, <2>1, <2>3
  <2>5. \A i \in Id : Safe[i] = data[i] => Safe'[i] = data'[i]
    BY <2>1, <2>3
  <2> QED BY <1>l, <1>p, <1>t, <2>1, <2>2, <2>4, <2>5
<1>4. CASE FreezeCreate
  <2>1. /\ imm' = imm /\ status = "up" /\ lock.at = "free" /\ lock'.at = "freeze.created"
        /\ data' = [data EXCEPT ![nextId] = {}]
        /\ written' = [written EXCEPT ![nextId] = {}]
        /\ synced' = [synced EXCEPT ![nextId] = {}]
    BY <1>4 DEF FreezeCreate
  <2>2. Safe' = [Safe EXCEPT ![nextId] = {}] /\ ~FlushMid'
    BY <1>s, <2>1 DEF FlushMid
  <2>3. \A i \in Id : IF i = nextId THEN Safe'[i] = {} /\ data'[i] = {}
                      ELSE Safe'[i] = Safe[i] /\ data'[i] = data[i]
    BY <1>t, <2>1, <2>2 DEF Content
  <2>4. \A i \in Id : /\ Safe'[i] \subseteq data'[i]
                      /\ \A a \in data'[i], b \in Safe'[i] : a < b => a \in Safe'[i]
    BY <1>l, <2>3
  <2>5. \A p \in 1..Len(imm) : Safe[imm[p]] = data[imm[p]]
    BY <1>l, <2>1
  <2>6. \A i \in Id : Safe[i] = data[i] => Safe'[i] = data'[i]
    BY <2>3
  <2>7. \A p \in 1..Len(imm') : Safe'[imm'[p]] = data'[imm'[p]]
    BY <1>p, <2>1, <2>5, <2>6
  <2> QED BY <2>2, <2>4, <2>7
<1>5. CASE FreezeSwap
  <2>1. /\ UNCHANGED <<data, written, synced>> /\ imm' = <<mem>> \o imm
        /\ lock.at = "freeze.created" /\ lock'.at = "freeze.swapped"
    BY <1>5, <1>t DEF FreezeSwap, At, Position
  <2>2. Safe' = Safe /\ ~FlushMid'
    BY <1>s, <2>1 DEF FlushMid
  <2>3. Len(imm') = Len(imm) + 1 /\ \A p \in 2..Len(imm) + 1 : imm'[p] = imm[p - 1]
    BY <1>t, <2>1, Prepended
  <2>4. \A p \in 1..Len(imm) : Safe[imm[p]] = data[imm[p]]
    BY <1>l, <2>1
  <2>5. ASSUME NEW p \in 1..Len(imm'), p # 1 PROVE Safe'[imm'[p]] = data'[imm'[p]]
    <3>1. p \in 2..Len(imm) + 1 /\ p - 1 \in 1..Len(imm)
      <4>1. Len(imm) \in Nat
        BY <1>t
      <4> QED BY <2>3, <2>5, <4>1
    <3> QED BY <2>1, <2>2, <2>3, <2>4, <3>1
  <2> QED BY <1>l, <2>1, <2>2, <2>5
<1>6. CASE FreezeSyncWal
  <2>1. /\ UNCHANGED <<data, imm>> /\ imm # <<>>
        /\ written' = [written EXCEPT ![Head(imm)] = data[Head(imm)]]
        /\ synced' = [synced EXCEPT ![Head(imm)] = data[Head(imm)]]
        /\ lock.at = "freeze.swapped" /\ lock'.at = "freeze.synced"
    BY <1>6, <1>a, <1>t DEF FreezeSyncWal, SyncLog, At, Position, Holding
  <2>2. Head(imm) = imm[1] /\ Head(imm) \in Id
    BY <1>t, <2>1
  <2>3. Safe' = [Safe EXCEPT ![imm[1]] = data[imm[1]]] /\ ~FlushMid'
    BY <1>s, <2>1, <2>2 DEF FlushMid
  <2>4. \A i \in Id : Safe'[i] = IF i = imm[1] THEN data[i] ELSE Safe[i]
    BY <1>t, <2>3 DEF Content
  <2>5. \A i \in Id : /\ Safe'[i] \subseteq data'[i]
                      /\ \A a \in data'[i], b \in Safe'[i] : a < b => a \in Safe'[i]
    BY <1>l, <2>1, <2>4
  <2>6. ASSUME NEW p \in 1..Len(imm) PROVE Safe'[imm[p]] = data[imm[p]]
    BY <1>l, <1>p, <2>4, <2>6
  <2> QED BY <2>1, <2>3, <2>5, <2>6
<1>7. CASE FlushInstall
  <2>1. /\ UNCHANGED <<data, written, synced>> /\ imm' = Front(imm) /\ lock'.id = lock.id
        /\ lock.at = "flush.built" /\ lock'.at = "flush.installed"
    BY <1>7, <1>t DEF FlushInstall, At, Position
  <2>2. Safe' = Safe
    BY <1>s, <2>1
  <2>3. imm # <<>> /\ lock.id = Last(imm)
    BY <1>a, <2>1 DEF Holding
  <2>4. /\ Len(imm') = Len(imm) - 1 /\ Len(imm) \in Nat \ {0}
        /\ \A p \in 1..Len(imm) - 1 : imm'[p] = imm[p]
        /\ lock.id = imm[Len(imm)]
    BY <1>t, <2>1, <2>3, FrontOf
  <2>5. \A p \in 1..Len(imm) : Safe[imm[p]] = data[imm[p]]
    BY <1>l, <2>1
  <2>6. Safe'[lock'.id] = data'[lock'.id]
    BY <2>1, <2>2, <2>4, <2>5
  <2>7. \A p \in 1..Len(imm') : Safe'[imm'[p]] = data'[imm'[p]]
    <3>1. \A p \in 1..Len(imm') : p \in 1..Len(imm) - 1 /\ p \in 1..Len(imm)
      BY <2>4
    <3> QED BY <2>1, <2>2, <2>4, <2>5, <3>1
  <2> QED BY <1>l, <2>1, <2>2, <2>6, <2>7
<1>8. CASE Close
  <2>1. /\ data' = data /\ imm' = <<>> /\ lock' = NoLock
        /\ written' = [written EXCEPT ![mem] = data[mem]]
        /\ synced' = [synced EXCEPT ![mem] = data[mem]]
    BY <1>8, <1>c DEF Close, SyncLog, Stopped
  <2>2. Safe' = [Safe EXCEPT ![mem] = data[mem]]
    BY <1>s, <2>1
  <2>3. \A i \in Id : Safe'[i] = IF i = mem THEN data[i] ELSE Safe[i]
    BY <1>t, <2>2 DEF Content
  <2>4. \A i \in Id : /\ Safe'[i] \subseteq data'[i]
                      /\ \A a \in data'[i], b \in Safe'[i] : a < b => a \in Safe'[i]
    BY <1>l, <2>1, <2>3
  <2>5. ~FlushMid' /\ 1..Len(imm') = {}
    BY <2>1 DEF FlushMid, NoLock
  <2> QED BY <2>4, <2>5
<1>9. CASE CloseEnd
  BY <1>9, <1>a, <1>c DEF CloseEnd, Phases
<1>10. CASE Crash
  <2>1. /\ imm' = <<>> /\ lock' = NoLock /\ written' = data'
        /\ setting.crash = "power" => synced' = data'
    BY <1>10 DEF Crash, Stopped
  <2>2. Safe' = data'
    BY <1>w, <2>1 DEF Safe
  <2>3. ~FlushMid' /\ 1..Len(imm') = {}
    BY <2>1 DEF FlushMid, NoLock
  <2> QED BY <2>2, <2>3
<1>11. CASE OpenFresh
  <2>1. imm' = imm /\ imm = <<>> /\ lock.at = "free"
    BY <1>11, <1>a DEF OpenFresh, Phases, Alive, NoLock
  <2>2. ~FlushMid' /\ 1..Len(imm') = {}
    <3>1. lock' = lock \/ lock'.at = "open.fresh"
      BY <1>11 DEF OpenFresh
    <3> QED BY <2>1, <3>1 DEF FlushMid
  <2>3. CASE UNCHANGED <<data, written, synced>>
    BY <1>l, <1>s, <2>2, <2>3
  <2>4. CASE /\ data' = [data EXCEPT ![0] = {}]
             /\ written' = [written EXCEPT ![0] = {}]
             /\ synced' = [synced EXCEPT ![0] = {}]
    <3>1. Safe' = [Safe EXCEPT ![0] = {}]
      BY <1>s, <2>4
    <3>2. \A i \in Id : IF i = 0 THEN Safe'[i] = {} /\ data'[i] = {}
                        ELSE Safe'[i] = Safe[i] /\ data'[i] = data[i]
      BY <1>t, <2>4, <3>1 DEF Content
    <3> QED BY <1>l, <2>2, <3>2
  <2> QED BY <1>11, <2>3, <2>4 DEF OpenFresh
<1>12. CASE OpenRecover
  <2>1. status = "down" /\ ManifestFile \in files /\ imm = <<>> /\ lock.at = "free"
    BY <1>12, <1>a DEF OpenRecover, Phases, Alive, NoLock
  <2>2. CASE ~Recoverable
    <3>1. UNCHANGED <<data, written, synced, imm, lock>>
      BY <1>12, <2>2 DEF OpenRecover
    <3>2. ~FlushMid' /\ 1..Len(imm') = {}
      BY <2>1, <3>1 DEF FlushMid
    <3> QED BY <1>l, <1>s, <3>1, <3>2
  <2>3. CASE Recoverable
    <3>1. /\ imm' = RecoveredMemtables /\ lock'.at = "open.created"
          /\ mem' = manifest.maxId + 1
          /\ data' = [data EXCEPT ![mem'] = {}]
          /\ written' = [written EXCEPT ![mem'] = {}]
          /\ synced' = [synced EXCEPT ![mem'] = {}]
      BY <1>12, <2>3 DEF OpenRecover
    <3>2. /\ imm' \in Seq(Id) /\ manifest.maxId + 1 \in Id
          /\ Ids(imm') = {i \in manifest.mems : data[i] # {}}
      BY <1>c, <2>1, <2>3, <3>1, RecoverFinds
    <3>3. Safe' = [Safe EXCEPT ![mem'] = {}] /\ ~FlushMid'
      BY <1>s, <3>1 DEF FlushMid
    <3>4. \A i \in Id : IF i = mem' THEN Safe'[i] = {} /\ data'[i] = {}
                        ELSE Safe'[i] = Safe[i] /\ data'[i] = data[i]
      BY <1>t, <3>1, <3>3 DEF Content
    <3>5. \A i \in Id : /\ Safe'[i] \subseteq data'[i]
                        /\ \A a \in data'[i], b \in Safe'[i] : a < b => a \in Safe'[i]
      BY <1>l, <3>4
    <3>6. \A i \in manifest.mems : Safe[i] = data[i]
      BY <1>a, <1>c, <2>1 DEF OnDisk, Alive
    <3>7. \A p \in 1..Len(imm') : imm'[p] \in Id /\ imm'[p] \in manifest.mems
      BY <3>2 DEF Ids
    <3> QED BY <3>3, <3>4, <3>5, <3>6, <3>7
  <2> QED BY <2>2, <2>3
<1> QED BY <1>1, <1>2, <1>3, <1>4, <1>5, <1>6, <1>7, <1>8, <1>9, <1>10, <1>11, <1>12
    DEF Next, WriterStep, FreezeStep, FlushStep, CompactStep, RestartStep

\* Every step keeps the recorded inputs of an installed compaction in order.
LEMMA InputsStep ==
    ASSUME IInv, Next
    PROVE  Inputs'
<1> USE DEF vars, diskVars, memoryVars, levelVars, threadVars
<1>a. /\ Typed /\ Phases /\ Holding /\ Compacting /\ Holdings /\ Inputs
  BY DEF IInv
<1>t. /\ compaction.l0 \in Seq(Id) /\ compaction.l1 \in Seq(Id) /\ l0 \in Seq(Id)
      /\ lock \in Position
  <2>1. Typed
    BY <1>a
  <2> QED BY <2>1, Fields DEF Typed
<1>1. CASE CompactInstall
  <2>1. /\ compaction' = compaction /\ sst' = sst
        /\ compaction.at = "merged" /\ lock.at = "free"
    BY <1>1 DEF CompactInstall
  <2>2. ~CompactMid
    BY <2>1 DEF CompactMid, CompactPositions
  <2>3. Alive
    BY <1>a, <2>1 DEF Phases, NoCompaction
  <2>4. PICK u \in Seq(Id) : l0 = u \o compaction.l0
    BY <2>1, <2>2, InputsLast
  <2>5. /\ Len(u) \in Nat /\ Len(compaction.l0) \in Nat
        /\ Len(l0) = Len(u) + Len(compaction.l0)
        /\ \A p \in 1..Len(compaction.l0) : l0[Len(u) + p] = compaction.l0[p]
    BY <1>t, <2>4
  <2>6. ASSUME NEW p \in 1..Len(compaction.l0), NEW q \in 1..Len(compaction.l0), p < q
        PROVE  Above(sst[compaction.l0[p]], sst[compaction.l0[q]])
    <3>1. /\ Len(u) + p \in 1..Len(l0) /\ Len(u) + q \in 1..Len(l0)
          /\ Len(u) + p < Len(u) + q
      BY <2>5, <2>6
    <3>2. Above(sst[l0[Len(u) + p]], sst[l0[Len(u) + q]])
      BY <1>a, <2>3, <3>1 DEF Holdings
    <3> QED BY <2>5, <3>2
  <2>7. Ids(compaction.l0) \subseteq Ids(l0) /\ compaction.l1 = l1
    BY <2>1, <2>2, InputsListed
  <2>8. \A i \in Ids(compaction.l0), k \in Ids(compaction.l1) : Above(sst[i], sst[k])
    BY <1>a, <2>3, <2>7 DEF Holdings
  <2> QED BY <2>1, <2>6, <2>8 DEF Inputs
<1>2. CASE ~CompactInstall
  <2>1. CompactMid' => /\ CompactMid /\ sst' = sst
                       /\ compaction' = compaction
    <3>1. CASE \/ WriterStep \/ CompactStep
      <4>1. CompactMid => compaction.at = "merged"
        BY <1>a DEF Holding
      <4> QED BY <1>2, <1>t, <3>1, <4>1 DEF WriterStep, Write, Publish, Sync, CompactStep,
         CompactStart, CompactMerge, CompactSyncDir, CompactRecord, CompactRemove, At,
         NoLock, Position, CompactMid, CompactPositions
    <3>2. CASE FreezeStep \/ FlushStep
      BY <1>t, <3>2 DEF FreezeStep, FreezeCreate, FreezeSwap, FreezeSyncWal, FreezeRecord,
         FreezeSyncDir, FlushStep, FlushBuild, FlushInstall, FlushRemoveWal, FlushRecord,
         FlushSyncDir, At, NoLock, Position, CompactMid, CompactPositions
    <3>3. CASE RestartStep
      <4>1. CASE OpenFresh \/ OpenRecover
        <5>1. lock = NoLock
          BY <1>a, <4>1 DEF OpenFresh, OpenRecover, Phases, Alive
        <5> QED BY <4>1, <5>1 DEF OpenFresh, OpenRecover, NoLock, CompactMid,
                                  CompactPositions
      <4>2. CASE ~OpenFresh /\ ~OpenRecover
        BY <1>t, <3>3, <4>2 DEF RestartStep, Close, CloseEnd, Crash, Stopped, OpenManifest,
           OpenRecord, OpenSyncDir, At, NoLock, Position, CompactMid, CompactPositions
      <4> QED BY <4>1, <4>2
    <3> QED BY <3>1, <3>2, <3>3 DEF Next
  <2> QED BY <1>a, <2>1 DEF Inputs
<1> QED BY <1>1, <1>2

\* What is left of a gapless set of batches when the latest ones go has no gap.
LEMMA GaplessPrefix ==
    ASSUME NEW n \in Nat, NEW A, NEW B, A \cup B = 1..n, Above(A, B)
    PROVE  \E m \in 0..n : B = 1..m
<1>1. CASE A = {}
  BY <1>1
<1>2. CASE A # {}
  <2>1. A \subseteq Nat /\ A \subseteq 1..n
    OBVIOUS
  <2>2. PICK a \in A : \A x \in A : ~(x < a)
    <3> DEFINE Less == {p \in Nat \X Nat : p[1] < p[2]}
    <3>1. IsWellFoundedOn(Less, Nat)
      BY NatLessThanWellFounded DEF OpToRel
    <3> HIDE DEF Less
    <3>2. PICK a \in A : \A x \in A : ~(<<x, a>> \in Less)
      BY <1>2, <2>1, <3>1, WFMin
    <3> QED BY <2>1, <3>2 DEF Less
  <2>3. \A x \in A : ~(x < a)
    BY <2>2
  <2>4. B = 1..a - 1
    <3>1. ASSUME NEW b \in B PROVE b \in 1..a - 1
      <4>1. b \in 1..n /\ b < a /\ a \in Nat
        BY <2>1 DEF Above
      <4> QED BY <4>1
    <3>2. ASSUME NEW b \in 1..a - 1 PROVE b \in B
      <4>1. b \in 1..n /\ b < a
        BY <2>1
      <4> QED BY <2>3, <4>1
    <3> QED BY <3>1, <3>2
  <2>5. a - 1 \in 0..n
    BY <2>1
  <2> QED BY <2>4, <2>5
<1> QED BY <1>1, <1>2

\* The recorded tables hold what the tables in memory hold, but for a flushed
\* memtable's that is not recorded yet.
LEMMA RecordedHolds ==
    ASSUME IInv, Alive, lock.at # "open.fresh"
    PROVE  Batches(sst, RecordedSsts) \cup (IF FlushMid THEN data[lock.id] ELSE {})
              = Batches(sst, Ids(l0) \cup Ids(l1))
<1>a. Typed /\ Holding /\ Compacting /\ Recording
  BY DEF IInv
<1>t. /\ l0 \in Seq(Id) /\ compaction.l0 \in Seq(Id) /\ compaction.out \in Id
      /\ manifest.l0 \in Seq(Id) /\ lock.id \in Id
  BY <1>a, Fields
<1>m. ~(FlushMid /\ CompactMid)
  BY DEF FlushMid, CompactMid, CompactPositions
<1>f. FlushMid => /\ l0 = <<lock.id>> \o manifest.l0 /\ manifest.l1 = l1
                  /\ sst[lock.id] = data[lock.id]
  BY <1>a, <1>m DEF Recording, Holding
<1>c. CompactMid => /\ manifest.l0 = l0 \o compaction.l0 /\ manifest.l1 = compaction.l1
                    /\ l1 = <<compaction.out>>
                    /\ sst[compaction.out] =
                          Batches(sst, Ids(compaction.l0) \cup Ids(compaction.l1))
  BY <1>a, <1>m DEF Recording, Holding, Compacting
<1>n. ~FlushMid /\ ~CompactMid => manifest.l0 = l0 /\ manifest.l1 = l1
  BY <1>a DEF Recording
<1>1. FlushMid => Ids(l0) = {lock.id} \cup Ids(manifest.l0)
  <2>1. Ids(<<lock.id>> \o manifest.l0) = {lock.id} \cup Ids(manifest.l0)
    BY <1>t, Prepended
  <2> QED BY <1>f, <2>1
<1>2. CompactMid => /\ RecordedSsts = Ids(l0) \cup (Ids(compaction.l0) \cup Ids(compaction.l1))
                    /\ Ids(l1) = {compaction.out}
  <2>1. /\ Ids(l0 \o compaction.l0) = Ids(l0) \cup Ids(compaction.l0)
        /\ Ids(<<compaction.out>>) = {compaction.out}
    BY <1>t, IdsOf
  <2> QED BY <1>c, <2>1 DEF RecordedSsts
<1>3. CASE FlushMid
  <2>1. Ids(l0) \cup Ids(l1) = RecordedSsts \cup {lock.id}
    BY <1>1, <1>f, <1>3 DEF RecordedSsts
  <2>2. Batches(sst, RecordedSsts \cup {lock.id}) = Batches(sst, RecordedSsts) \cup sst[lock.id]
    BY DEF Batches
  <2> QED BY <1>f, <1>3, <2>1, <2>2
<1>4. CASE CompactMid
  <2> DEFINE A == Ids(l0)
             B == Ids(compaction.l0) \cup Ids(compaction.l1)
             x == compaction.out
  <2>1. RecordedSsts = A \cup B /\ Ids(l1) = {x} /\ sst[x] = Batches(sst, B)
    BY <1>2, <1>c, <1>4
  <2> HIDE DEF A, B, x
  <2>2. Batches(sst, A \cup {x}) = Batches(sst, A) \cup sst[x]
    BY DEF Batches
  <2>3. Batches(sst, A \cup B) = Batches(sst, A) \cup Batches(sst, B)
    BY BatchesOf
  <2>4. Batches(sst, A \cup B) = Batches(sst, A \cup {x})
    BY <2>1, <2>2, <2>3
  <2> QED BY <1>m, <1>4, <2>1, <2>4 DEF A
<1>5. CASE ~FlushMid /\ ~CompactMid
  BY <1>n, <1>5 DEF RecordedSsts
<1> QED BY <1>3, <1>4, <1>5

\* What the manifest records of a running engine is what a crash may need: the
\* sources are in order, without a gap, and only the newest log can be unsafe.
LEMMA AliveRecorded ==
    ASSUME IInv, Alive, lock.at # "open.fresh"
    PROVE  Recorded
<1>a. /\ Typed /\ Phases /\ IdsFresh /\ Holding /\ Compacting /\ Recording /\ Holdings
      /\ Inputs /\ Logs
  BY DEF IInv
<1>t. /\ imm \in Seq(Id) /\ l0 \in Seq(Id) /\ l1 \in Seq(Id) /\ mem \in Id
      /\ lock.id \in Id /\ manifest.l0 \in Seq(Id) /\ manifest.l1 \in Seq(Id)
      /\ manifest.mems \subseteq Id /\ Id \subseteq Nat /\ Ids(imm) \subseteq Id
      /\ compaction.out \in Id /\ compaction.l0 \in Seq(Id) /\ compaction.l1 \in Seq(Id)
  <2>1. Typed
    BY <1>a
  <2>2. /\ imm \in Seq(Id) /\ l0 \in Seq(Id) /\ l1 \in Seq(Id) /\ mem \in Id
        /\ lock.id \in Id /\ manifest.l0 \in Seq(Id) /\ manifest.l1 \in Seq(Id)
        /\ manifest.mems \subseteq Id /\ Id = 0..MaxId /\ MaxId \in Nat
        /\ compaction.out \in Id /\ compaction.l0 \in Seq(Id) /\ compaction.l1 \in Seq(Id)
    BY <2>1, Fields
  <2>3. Ids(imm) \subseteq Id /\ Id \subseteq Nat
    BY <2>2, IdsOf
  <2> QED BY <2>2, <2>3
<1>h. /\ Readable = 1..Top
      /\ \A i \in Ids(imm) : data[i] # {} /\ Above(data[mem], data[i])
      /\ \A p, q \in 1..Len(imm) : p < q => Above(data[imm[p]], data[imm[q]])
      /\ \A k \in Ids(l0) \cup Ids(l1) :
            /\ Above(data[mem], sst[k])
            /\ \A i \in Ids(imm) : Above(data[i], sst[k])
      /\ \A p, q \in 1..Len(l0) : p < q => Above(sst[l0[p]], sst[l0[q]])
      /\ \A i \in Ids(l0), k \in Ids(l1) : Above(sst[i], sst[k])
  BY <1>a DEF Holdings
<1>m. ~(FlushMid /\ CompactMid)
  BY DEF FlushMid, CompactMid, CompactPositions
<1>f. FlushMid => /\ l0 = <<lock.id>> \o manifest.l0 /\ manifest.l1 = l1
                  /\ sst[lock.id] = data[lock.id] /\ lock.id < mem
                  /\ lock.id \in manifest.mems /\ \A i \in Ids(imm) : lock.id < i
  BY <1>a, <1>m DEF Recording, Holding
<1>c. CompactMid => /\ manifest.l0 = l0 \o compaction.l0 /\ manifest.l1 = compaction.l1
                    /\ l1 = <<compaction.out>> /\ compaction.at = "merged"
                    /\ sst[compaction.out] =
                          Batches(sst, Ids(compaction.l0) \cup Ids(compaction.l1))
  BY <1>a, <1>m DEF Recording, Holding, Compacting
<1>n. ~FlushMid /\ ~CompactMid => manifest.l0 = l0 /\ manifest.l1 = l1
  BY <1>a DEF Recording
\* The recorded tables, one by one, against the memtables.
<1>1. ASSUME FlushMid
      PROVE  /\ Len(l0) = Len(manifest.l0) + 1 /\ l0[1] = lock.id
             /\ \A p \in 1..Len(manifest.l0) : l0[p + 1] = manifest.l0[p]
             /\ Ids(l0) = {lock.id} \cup Ids(manifest.l0)
  <2>1. lock.id \in Id /\ manifest.l0 \in Seq(Id) /\ l0 = <<lock.id>> \o manifest.l0
    BY <1>1, <1>f, <1>t
  <2> QED BY <2>1, Prepended
<1>2. ASSUME CompactMid
      PROVE  /\ RecordedSsts = Ids(l0) \cup (Ids(compaction.l0) \cup Ids(compaction.l1))
             /\ Ids(l1) = {compaction.out}
             /\ \A X : Above(X, sst[compaction.out])
                   => \A k \in Ids(compaction.l0) \cup Ids(compaction.l1) : Above(X, sst[k])
  <2>1. Ids(manifest.l0) = Ids(l0) \cup Ids(compaction.l0) /\ Ids(l1) = {compaction.out}
    BY <1>2, <1>c, <1>t, IdsOf
  <2>2. \A k \in Ids(compaction.l0) \cup Ids(compaction.l1) : sst[k] \subseteq sst[compaction.out]
    BY <1>2, <1>c DEF Batches
  <2> QED BY <1>2, <1>c, <2>1, <2>2 DEF RecordedSsts, Above
<1>3. \A X : (\A k \in Ids(l0) \cup Ids(l1) : Above(X, sst[k]))
                => \A k \in RecordedSsts : Above(X, sst[k])
  <2>1. CASE FlushMid
    BY <1>1, <1>f, <2>1 DEF RecordedSsts
  <2>2. CASE CompactMid
    BY <1>2, <2>2
  <2>3. CASE ~FlushMid /\ ~CompactMid
    BY <1>n, <2>3 DEF RecordedSsts
  <2> QED BY <2>1, <2>2, <2>3
<1>4. \A k \in RecordedSsts : /\ Above(data[mem], sst[k])
                              /\ \A i \in Ids(imm) : Above(data[i], sst[k])
  BY <1>h, <1>3
<1>5. ASSUME FlushMid
      PROVE  \A k \in RecordedSsts : Above(data[lock.id], sst[k])
  <2>1. ASSUME NEW p \in 1..Len(manifest.l0)
        PROVE  Above(sst[lock.id], sst[manifest.l0[p]])
    <3>1. Len(manifest.l0) \in Nat
      BY <1>t
    <3>2. 1 \in 1..Len(l0) /\ p + 1 \in 1..Len(l0) /\ 1 < p + 1
      BY <1>1, <1>5, <3>1
    <3>3. Above(sst[l0[1]], sst[l0[p + 1]])
      BY <1>h, <3>2
    <3> QED BY <1>1, <1>5, <3>3
  <2>2. \A k \in Ids(l1) : Above(sst[lock.id], sst[k])
    BY <1>1, <1>5, <1>h
  <2>3. \A k \in Ids(manifest.l0) : Above(sst[lock.id], sst[k])
    BY <2>1 DEF Ids
  <2> QED BY <1>5, <1>f, <2>2, <2>3 DEF RecordedSsts
\* The recorded tables hold what the tables in memory hold, but for a flushed
\* memtable's that is not recorded yet.
<1>6. Batches(sst, RecordedSsts) \cup (IF FlushMid THEN data[lock.id] ELSE {})
         = Batches(sst, Ids(l0) \cup Ids(l1))
  BY RecordedHolds
<1>7. Top \in Nat /\ Top <= MaxBatches
  <2>1. ts \in 0..MaxBatches /\ MaxBatches \in Nat
    BY <1>a, DurabilityAssumption DEF Typed
  <2>2. writer # "idle" => ts < MaxBatches
    BY <1>a DEF Phases
  <2> QED BY <2>1, <2>2 DEF Top
\* The recorded memtables.
<1>8. ASSUME EnableWal, NEW i \in manifest.mems, data[i] # {}
      PROVE  i = mem \/ i \in Ids(imm) \/ (FlushMid /\ i = lock.id)
  BY <1>8, <1>a DEF Recording
<1>9. \E n \in 0..MaxBatches : RecordedBatches = 1..n
  <2> DEFINE late == IF EnableWal THEN (IF mem \in manifest.mems THEN {} ELSE data[mem])
                     ELSE Batches(data, {mem} \cup Ids(imm))
                          \cup (IF FlushMid THEN data[lock.id] ELSE {})
  <2>1. late \cup RecordedBatches = Readable
    <3>1. CASE EnableWal
      <4>1. RecordedBatches = Batches(sst, RecordedSsts) \cup Batches(data, manifest.mems)
        BY <3>1 DEF RecordedBatches
      <4>2. Ids(imm) \subseteq manifest.mems
        BY <1>a DEF Recording
      <4>3. Batches(data, manifest.mems) \subseteq
               Batches(data, {mem} \cup Ids(imm)) \cup (IF FlushMid THEN data[lock.id] ELSE {})
        BY <1>8, <3>1 DEF Batches
      <4>4. Batches(data, {mem} \cup Ids(imm)) \cup (IF FlushMid THEN data[lock.id] ELSE {})
               \subseteq late \cup Batches(data, manifest.mems)
        BY <1>f, <3>1, <4>2 DEF Batches
      <4>5. late \subseteq Batches(data, {mem} \cup Ids(imm))
        BY <3>1 DEF Batches
      <4>6. Readable = Batches(data, {mem} \cup Ids(imm)) \cup Batches(sst, Ids(l0) \cup Ids(l1))
        BY DEF Readable
      <4> HIDE DEF late
      <4> QED BY <1>6, <4>1, <4>3, <4>4, <4>5, <4>6
    <3>2. CASE ~EnableWal
      BY <1>6, <3>2 DEF RecordedBatches, Readable
    <3> QED BY <3>1, <3>2
  <2>2. Above(late, RecordedBatches)
    <3>1. CASE EnableWal
      <4>1. ASSUME mem \notin manifest.mems, NEW a \in data[mem], NEW b \in RecordedBatches
            PROVE  b < a
        <5>1. CASE b \in Batches(sst, RecordedSsts)
          BY <1>4, <4>1, <5>1 DEF Batches, Above
        <5>2. CASE b \in Batches(data, manifest.mems)
          <6>1. PICK i \in manifest.mems : b \in data[i]
            BY <5>2 DEF Batches
          <6>2. i \in Ids(imm) \/ (FlushMid /\ i = lock.id)
            BY <1>8, <3>1, <4>1, <6>1
          <6>3. CASE i \in Ids(imm)
            BY <1>h, <4>1, <6>1, <6>3 DEF Above
          <6>4. CASE FlushMid /\ i = lock.id
            <7>1. Above(data[mem], data[i])
              BY <1>h, <1>1, <1>f, <6>4
            <7> QED BY <4>1, <6>1, <7>1 DEF Above
          <6> QED BY <6>2, <6>3, <6>4
        <5> QED BY <3>1, <4>1, <5>1, <5>2 DEF RecordedBatches
      <4> QED BY <3>1, <4>1 DEF Above
    <3>2. CASE ~EnableWal
      <4>1. RecordedBatches = Batches(sst, RecordedSsts)
        BY <3>2 DEF RecordedBatches
      <4>2. ASSUME NEW a \in late, NEW k \in RecordedSsts PROVE \A b \in sst[k] : b < a
        <5>1. CASE a \in data[mem]
          BY <1>4, <5>1 DEF Above
        <5>2. CASE \E i \in Ids(imm) : a \in data[i]
          BY <1>4, <5>2 DEF Above
        <5>3. CASE FlushMid /\ a \in data[lock.id]
          BY <1>5, <5>3 DEF Above
        <5> QED BY <3>2, <4>2, <5>1, <5>2, <5>3 DEF Batches
      <4> QED BY <4>1, <4>2 DEF Above, Batches
    <3> QED BY <3>1, <3>2
  <2> HIDE DEF late
  <2>3. PICK m \in 0..Top : RecordedBatches = 1..m
    BY <1>h, <1>7, <2>1, <2>2, GaplessPrefix
  <2>4. m \in 0..MaxBatches
    BY <1>7, DurabilityAssumption
  <2> QED BY <2>3, <2>4
\* The order of the recorded memtables.
<1>10. ASSUME EnableWal, NEW i \in manifest.mems, NEW j \in manifest.mems, j < i,
              data[i] # {}, data[j] # {}
       PROVE  /\ Above(data[i], data[j])
              /\ Safe[j] = data[j]
  <2>1. i \in Nat /\ j \in Nat /\ mem \in Nat /\ lock.id \in Nat
    BY <1>t
  <2>2. \A k \in Ids(imm) : k < mem /\ k \in Nat
    BY <1>a, <1>t DEF IdsFresh
  <2>3. j # mem
    <3>1. i = mem \/ i < mem
      BY <1>8, <1>10, <1>f, <2>2
    <3> QED BY <1>10, <2>1, <3>1
  <2>4. CASE j \in Ids(imm)
    <3>1. i = mem \/ i \in Ids(imm)
      <4>1. FlushMid /\ i = lock.id => i < j
        BY <1>f, <2>4
      <4> QED BY <1>8, <1>10, <2>1, <4>1
    <3>2. PICK q \in 1..Len(imm) : j = imm[q]
      BY <2>4 DEF Ids
    <3>3. CASE i = mem
      <4>1. Above(data[i], data[j])
        BY <1>h, <2>4, <3>3
      <4>2. lock.at # "freeze.swapped"
        BY <1>a, <3>3 DEF Holding
      <4>3. Safe[j] = data[j]
        BY <1>10, <1>a, <3>2, <4>2 DEF Logs
      <4> QED BY <4>1, <4>3
    <3>4. CASE i \in Ids(imm)
      <4>1. PICK p \in 1..Len(imm) : i = imm[p]
        BY <3>4 DEF Ids
      <4>2. p < q
        <5>1. \A x, y \in 1..Len(imm) : x < y => imm[y] < imm[x]
          BY <1>a DEF IdsFresh
        <5>2. q < p => i < j
          BY <3>2, <4>1, <5>1
        <5>3. p # q
          BY <1>10, <2>1, <3>2, <4>1
        <5>4. p \in Nat /\ q \in Nat
          OBVIOUS
        <5> QED BY <1>10, <2>1, <5>2, <5>3, <5>4
      <4>3. q # 1
        BY <4>2
      <4>4. Safe[j] = data[j]
        BY <1>10, <1>a, <3>2, <4>3 DEF Logs
      <4> QED BY <1>h, <3>2, <4>1, <4>2, <4>4
    <3> QED BY <3>1, <3>3, <3>4
  <2>5. CASE FlushMid /\ j = lock.id
    <3>1. i = mem \/ i \in Ids(imm)
      BY <1>8, <1>10, <2>1, <2>5
    <3>2. lock.id \in Ids(l0) /\ sst[lock.id] = data[lock.id]
      BY <1>1, <1>f, <2>5
    <3>3. Safe[j] = data[j]
      BY <1>10, <1>a, <2>5 DEF Logs
    <3>4. Above(data[i], sst[lock.id])
      BY <1>h, <3>1, <3>2
    <3> QED BY <2>5, <3>2, <3>3, <3>4
  <2> QED BY <1>8, <1>10, <2>3, <2>4, <2>5
<1>11. EnableWal =>
          /\ \A i, j \in manifest.mems : j < i => Above(data[i], data[j])
          /\ \A i, j \in manifest.mems : j < i /\ data[i] # {} => Safe[j] = data[j]
  <2>1. ASSUME EnableWal, NEW i \in manifest.mems, NEW j \in manifest.mems, j < i
        PROVE  /\ Above(data[i], data[j])
               /\ data[i] # {} => Safe[j] = data[j]
    <3>1. CASE data[i] = {}
      BY <3>1 DEF Above
    <3>2. CASE data[j] = {}
      <4>1. Safe[j] \subseteq data[j]
        BY <1>a, <1>t, <2>1 DEF Logs
      <4> QED BY <3>2, <4>1 DEF Above
    <3>3. CASE data[i] # {} /\ data[j] # {}
      BY <1>10, <2>1, <3>3
    <3> QED BY <3>1, <3>2, <3>3
  <2> QED BY <2>1
<1>12. EnableWal => \A i \in manifest.mems, k \in RecordedSsts : Above(data[i], sst[k])
  <2>1. ASSUME EnableWal, NEW i \in manifest.mems, NEW k \in RecordedSsts
        PROVE  Above(data[i], sst[k])
    <3>1. CASE data[i] = {}
      BY <3>1 DEF Above
    <3>2. CASE data[i] # {}
      BY <1>4, <1>5, <1>8, <2>1, <3>2
    <3> QED BY <3>1, <3>2
  <2> QED BY <2>1
\* The order of the recorded tables.
<1>13. /\ \A p, q \in 1..Len(manifest.l0) :
             p < q => Above(sst[manifest.l0[p]], sst[manifest.l0[q]])
       /\ \A i \in Ids(manifest.l0), k \in Ids(manifest.l1) : Above(sst[i], sst[k])
  <2>1. CASE FlushMid
    <3>1. ASSUME NEW p \in 1..Len(manifest.l0), NEW q \in 1..Len(manifest.l0), p < q
          PROVE  Above(sst[manifest.l0[p]], sst[manifest.l0[q]])
      <4>1. Len(manifest.l0) \in Nat
        BY <1>t
      <4>2. p + 1 \in 1..Len(l0) /\ q + 1 \in 1..Len(l0) /\ p + 1 < q + 1
        BY <1>1, <2>1, <3>1, <4>1
      <4>3. Above(sst[l0[p + 1]], sst[l0[q + 1]])
        BY <1>h, <4>2
      <4> QED BY <1>1, <2>1, <4>3
    <3> QED BY <1>1, <1>f, <1>h, <2>1, <3>1
  <2>2. CASE CompactMid
    <3>1. /\ Len(l0) \in Nat /\ Len(compaction.l0) \in Nat
          /\ Len(manifest.l0) = Len(l0) + Len(compaction.l0)
          /\ \A p \in 1..Len(l0) : manifest.l0[p] = l0[p]
          /\ \A p \in 1..Len(compaction.l0) : manifest.l0[Len(l0) + p] = compaction.l0[p]
      <4>1. /\ l0 \in Seq(Id) /\ compaction.l0 \in Seq(Id)
            /\ manifest.l0 = l0 \o compaction.l0
        BY <1>c, <1>t, <2>2
      <4> QED BY <4>1
    <3>2. \A i \in Ids(l0) : \A k \in Ids(compaction.l0) \cup Ids(compaction.l1) :
             Above(sst[i], sst[k])
      BY <1>2, <1>h, <2>2
    <3>3. /\ \A p, q \in 1..Len(compaction.l0) :
                p < q => Above(sst[compaction.l0[p]], sst[compaction.l0[q]])
          /\ \A i \in Ids(compaction.l0), k \in Ids(compaction.l1) : Above(sst[i], sst[k])
      BY <1>a, <2>2 DEF Inputs
    <3>4. ASSUME NEW p \in 1..Len(manifest.l0), NEW q \in 1..Len(manifest.l0), p < q
          PROVE  Above(sst[manifest.l0[p]], sst[manifest.l0[q]])
      <4> DEFINE n == Len(l0)
                 m == Len(compaction.l0)
      <4>1. n \in Nat /\ m \in Nat /\ p \in 1..n + m /\ q \in 1..n + m /\ p < q
        BY <3>1, <3>4
      <4> HIDE DEF n, m
      <4>2. CASE q \in 1..n
        <5>1. p \in 1..n
          BY <4>1, <4>2
        <5> QED BY <1>h, <3>1, <4>1, <4>2, <5>1 DEF n
      <4>3. CASE q \notin 1..n /\ p \in 1..n
        <5>1. q - n \in 1..m /\ n + (q - n) = q
          BY <4>1, <4>3
        <5>2. manifest.l0[q] = compaction.l0[q - n] /\ manifest.l0[p] = l0[p]
          BY <3>1, <4>3, <5>1 DEF n, m
        <5>3. l0[p] \in Ids(l0) /\ compaction.l0[q - n] \in Ids(compaction.l0)
          BY <4>3, <5>1 DEF Ids, n, m
        <5> QED BY <3>2, <5>2, <5>3
      <4>4. CASE p \notin 1..n
        <5>1. /\ q - n \in 1..m /\ n + (q - n) = q /\ p - n \in 1..m /\ n + (p - n) = p
              /\ p - n < q - n
          BY <4>1, <4>4
        <5>2. manifest.l0[q] = compaction.l0[q - n] /\ manifest.l0[p] = compaction.l0[p - n]
          BY <3>1, <5>1 DEF n, m
        <5>3. Above(sst[compaction.l0[p - n]], sst[compaction.l0[q - n]])
          BY <3>3, <5>1 DEF m
        <5> QED BY <5>2, <5>3
      <4> QED BY <4>2, <4>3, <4>4
    <3>5. Ids(manifest.l0) = Ids(l0) \cup Ids(compaction.l0)
      BY <1>c, <1>t, <2>2, IdsOf
    <3> QED BY <1>c, <2>2, <3>2, <3>3, <3>4, <3>5
  <2>3. CASE ~FlushMid /\ ~CompactMid
    BY <1>n, <1>h, <2>3
  <2> QED BY <2>1, <2>2, <2>3
<1>14. manifest.ok
  BY <1>a DEF Recording
<1> QED BY <1>9, <1>11, <1>12, <1>13, <1>14 DEF Recorded

\* A crash leaves a prefix of each log, with all that is safe of it.
LEMMA CrashCuts ==
    ASSUME IInv, Crash
    PROVE  /\ manifest' = manifest /\ sst' = sst /\ written' = data' /\ EnableWal' = EnableWal
           /\ Safe' = data'
           /\ EnableWal => \A i \in Id :
                 /\ Safe[i] \subseteq data'[i] /\ data'[i] \subseteq data[i]
                 /\ \A a \in data[i], b \in data'[i] : a < b => a \in data'[i]
           /\ status' = "down" /\ Alive
           /\ lock.at # "open.fresh" \/ ManifestFile \notin files'
           /\ manifest.maxId < MaxId
<1>a. Typed /\ Logs /\ Phases /\ Directory
  BY DEF IInv
<1>1. /\ manifest' = manifest /\ sst' = sst /\ setting' = setting /\ written' = data'
      /\ setting.crash = "power" => synced' = data'
      /\ status' = "down" /\ Alive /\ manifest.maxId < MaxId
  BY DEF Crash, Stopped, Alive, RoomToReopen
<1>2. Safe' = data' /\ EnableWal' = EnableWal
  BY <1>1 DEF Safe, EnableWal
<1>3. ASSUME EnableWal, NEW i \in Id
      PROVE  /\ Safe[i] \subseteq data'[i] /\ data'[i] \subseteq data[i]
             /\ \A a \in data[i], b \in data'[i] : a < b => a \in data'[i]
  <2> DEFINE partial == {j \in Id : data[j] # Safe[j]}
  <2>1. PICK cut \in [partial -> 0..MaxBatches] :
           data' = [j \in Id |-> IF j \in partial
                                 THEN {b \in data[j] : b \in Safe[j] \/ b <= cut[j]}
                                 ELSE data[j]]
    BY <1>3 DEF Crash, Safe
  <2>2. data'[i] = IF data[i] # Safe[i] THEN {b \in data[i] : b \in Safe[i] \/ b <= cut[i]}
                   ELSE data[i]
    BY <2>1
  <2>3. /\ Safe[i] \subseteq data[i]
        /\ \A a \in data[i], b \in Safe[i] : a < b => a \in Safe[i]
    BY <1>a, <1>3 DEF Logs
  <2>4. data[i] \subseteq Nat
    <3>1. data \in Content
      BY <1>a DEF Typed
    <3> QED BY <3>1 DEF Content
  <2>5. data[i] # Safe[i] => cut[i] \in Nat
    <3>1. MaxBatches \in Nat
      BY DurabilityAssumption
    <3> QED BY <2>1, <3>1
  <2> HIDE DEF partial
  <2>6. ASSUME NEW a \in data[i], NEW b \in data'[i], a < b, data[i] # Safe[i]
        PROVE  a \in data'[i]
    <3>1. b \in data[i] /\ (b \in Safe[i] \/ b <= cut[i])
      BY <2>2, <2>6
    <3>2. b <= cut[i] => a <= cut[i]
      BY <2>4, <2>5, <2>6, <3>1
    <3>3. a \in Safe[i] \/ a <= cut[i]
      BY <2>3, <2>6, <3>1, <3>2
    <3> QED BY <2>2, <2>6, <3>3
  <2> QED BY <2>2, <2>3, <2>6
<1>4. lock.at # "open.fresh" \/ ManifestFile \notin files'
  <2>1. lock.at = "open.fresh" => ManifestFile \notin files /\ ManifestFile \notin durable
    BY <1>a DEF Directory
  <2>2. PICK undone \in SUBSET ((files \ durable) \cup (durable \ files)) :
           files' = (files \ undone) \cup (undone \ files)
    BY DEF Crash
  <2> QED BY <2>1, <2>2
<1> QED BY <1>1, <1>2, <1>3, <1>4

\* What the manifest records survives a crash.
LEMMA CrashKeepsRecorded ==
    ASSUME IInv, Crash, Recorded
    PROVE  Recorded'
<1>t. manifest.mems \subseteq Id /\ MaxBatches \in Nat
  BY Fields DEF IInv
<1>1. /\ manifest' = manifest /\ sst' = sst /\ EnableWal' = EnableWal /\ Safe' = data'
      /\ RecordedSsts' = RecordedSsts
  BY CrashCuts DEF RecordedSsts
<1>2. EnableWal => \A i \in manifest.mems :
         /\ Safe[i] \subseteq data'[i] /\ data'[i] \subseteq data[i]
         /\ \A a \in data[i], b \in data'[i] : a < b => a \in data'[i]
  BY <1>t, CrashCuts
<1>3. /\ manifest.ok
      /\ EnableWal =>
            /\ \A i, j \in manifest.mems : j < i => Above(data[i], data[j])
            /\ \A i \in manifest.mems, k \in RecordedSsts : Above(data[i], sst[k])
            /\ \A i, j \in manifest.mems : j < i /\ data[i] # {} => Safe[j] = data[j]
      /\ \A p, q \in 1..Len(manifest.l0) :
            p < q => Above(sst[manifest.l0[p]], sst[manifest.l0[q]])
      /\ \A i \in Ids(manifest.l0), k \in Ids(manifest.l1) : Above(sst[i], sst[k])
  BY DEF Recorded
<1>4. PICK n \in 0..MaxBatches : RecordedBatches = 1..n
  BY DEF Recorded
<1>5. \E m \in 0..MaxBatches : RecordedBatches' = 1..m
  <2>1. CASE ~EnableWal
    <3>1. RecordedBatches' = RecordedBatches
      BY <1>1, <2>1 DEF RecordedBatches
    <3> QED BY <1>4, <3>1
  <2>2. CASE EnableWal
    <3> DEFINE lost == UNION {data[i] \ data'[i] : i \in manifest.mems}
    <3>1. /\ RecordedBatches = Batches(sst, RecordedSsts) \cup Batches(data, manifest.mems)
          /\ RecordedBatches' = Batches(sst, RecordedSsts) \cup Batches(data', manifest.mems)
      BY <1>1, <2>2 DEF RecordedBatches
    <3>2. Batches(data, manifest.mems) = lost \cup Batches(data', manifest.mems)
      BY <1>2, <2>2 DEF Batches
    <3>3. lost \cup RecordedBatches' = 1..n
      BY <1>4, <3>1, <3>2
    <3>4. ASSUME NEW i \in manifest.mems, NEW a \in data[i], a \notin data'[i],
                 NEW b \in RecordedBatches'
          PROVE  b < a
      <4>1. CASE b \in Batches(sst, RecordedSsts)
        BY <1>3, <2>2, <3>4, <4>1 DEF Batches, Above
      <4>2. CASE b \in Batches(data', manifest.mems)
        <5>1. PICK j \in manifest.mems : b \in data'[j]
          BY <4>2 DEF Batches
        <5>2. b \in data[j] /\ i \in Nat /\ j \in Nat
          <6>1. Id \subseteq Nat
            <7>1. Id = 0..MaxId /\ MaxId \in Nat
              BY Fields DEF IInv
            <7> QED BY <7>1
          <6> QED BY <1>2, <1>t, <2>2, <5>1, <6>1
        <5>3. CASE j < i
          BY <1>3, <2>2, <3>4, <5>2, <5>3 DEF Above
        <5>4. CASE j = i
          <6>1. ~(a < b) /\ a # b
            BY <1>2, <2>2, <3>4, <5>1, <5>4
          <6>2. a \in Nat /\ b \in Nat
            <7>1. data \in Content
              BY DEF IInv, Typed
            <7> QED BY <1>t, <3>4, <5>2, <7>1 DEF Content
          <6> QED BY <6>1, <6>2
        <5>5. CASE i < j
          <6>1. Safe[i] = data[i]
            BY <1>3, <2>2, <5>2, <5>5
          <6>2. data[i] \subseteq data'[i]
            BY <1>2, <2>2, <6>1
          <6> QED BY <3>4, <6>2
        <5> QED BY <5>2, <5>3, <5>4, <5>5
      <4> QED BY <3>1, <3>4, <4>1, <4>2
    <3>5. Above(lost, RecordedBatches')
      BY <3>4 DEF Above
    <3> HIDE DEF lost
    <3>6. n \in Nat
      BY <1>4, <1>t
    <3>7. PICK m \in 0..n : RecordedBatches' = 1..m
      BY <3>3, <3>5, <3>6, GaplessPrefix
    <3>8. m \in 0..MaxBatches
      BY <1>4, <1>t
    <3> QED BY <3>7, <3>8
  <2> QED BY <2>1, <2>2
<1>6. EnableWal =>
         /\ \A i, j \in manifest.mems : j < i => Above(data'[i], data'[j])
         /\ \A i \in manifest.mems, k \in RecordedSsts : Above(data'[i], sst[k])
  <2>1. ASSUME EnableWal, NEW i \in manifest.mems, NEW j \in manifest.mems, j < i
        PROVE  Above(data'[i], data'[j])
    BY <1>2, <1>3, <2>1 DEF Above
  <2>2. ASSUME EnableWal, NEW i \in manifest.mems, NEW k \in RecordedSsts
        PROVE  Above(data'[i], sst[k])
    BY <1>2, <1>3, <2>2 DEF Above
  <2> QED BY <2>1, <2>2
<1> QED BY <1>1, <1>3, <1>5, <1>6 DEF Recorded

\* Every step keeps what an engine that is down finds on the disk.
LEMMA OnDiskStep ==
    ASSUME IInv, Next
    PROVE  OnDisk'
<1> USE DEF vars, diskVars, memoryVars, levelVars, threadVars
<1>a. /\ Typed /\ Phases /\ Holding /\ Recording /\ Logs /\ OnDisk
  BY DEF IInv
<1>w. EnableWal' = EnableWal /\ setting' = setting
  BY SettingKept
<1>t. /\ imm \in Seq(Id) /\ mem \in Id /\ data \in Content /\ Safe \in Content
      /\ manifest.mems \subseteq Id
  <2>1. Typed
    BY <1>a
  <2>2. data \in Content /\ written \in Content /\ synced \in Content
    BY <2>1 DEF Typed
  <2>3. imm \in Seq(Id) /\ mem \in Id /\ manifest.mems \subseteq Id
    BY <2>1, Fields
  <2> QED BY <2>2, <2>3 DEF Safe
<1>d. ASSUME Alive' PROVE OnDisk'
  BY <1>d DEF OnDisk
<1>u. ASSUME UNCHANGED <<status, files, manifest, data, written, synced, sst>> PROVE OnDisk'
  <2>1. Safe' = Safe
    BY <1>u, <1>w DEF Safe
  <2>2. RecordedBatches' = RecordedBatches /\ RecordedSsts' = RecordedSsts
    BY <1>u, <1>w DEF RecordedBatches, RecordedSsts
  <2>3. Recorded' = Recorded
    BY <1>u, <1>w, <2>1, <2>2 DEF Recorded
  <2> QED BY <1>a, <1>u, <1>w, <2>1, <2>3 DEF OnDisk, Alive
\* The steps of a running engine.
<1>1. CASE WriterStep \/ FreezeStep \/ FlushStep \/ CompactStep
  <2>1. Alive
    <3>1. status \in {"up", "closing"} \/ lock.at # "free" \/ compaction.at # "idle"
      BY <1>1 DEF WriterStep, FreezeStep, FlushStep, CompactStep, Write, Publish, Sync,
         FreezeCreate, FreezeSwap, FreezeSyncWal, FreezeRecord, FreezeSyncDir,
         FlushBuild, FlushInstall, FlushRemoveWal, FlushRecord, FlushSyncDir, Running,
         CompactStart, CompactMerge, CompactInstall, CompactSyncDir, CompactRecord,
         CompactRemove
    <3> QED BY <1>a, <3>1 DEF Phases, Alive, NoLock, NoCompaction
  <2>2. status' = status
    BY <1>1 DEF WriterStep, FreezeStep, FlushStep, CompactStep, Write, Publish, Sync,
       FreezeCreate, FreezeSwap, FreezeSyncWal, FreezeRecord, FreezeSyncDir,
       FlushBuild, FlushInstall, FlushRemoveWal, FlushRecord, FlushSyncDir,
       CompactStart, CompactMerge, CompactInstall, CompactSyncDir, CompactRecord,
       CompactRemove
  <2> QED BY <1>d, <2>1, <2>2 DEF Alive
<1>2. CASE OpenManifest \/ OpenRecord
  <2>1. status' = status /\ lock.at \in OpenPositions
    BY <1>2 DEF OpenManifest, OpenRecord, OpenPositions
  <2> QED BY <1>a, <1>d, <2>1 DEF Phases, Alive
<1>3. CASE OpenSyncDir
  BY <1>3, <1>d DEF OpenSyncDir, Alive
<1>4. CASE OpenFresh
  <2>1. CASE Recoverable
    BY <1>4, <1>d, <2>1 DEF OpenFresh, Alive
  <2>2. CASE ~Recoverable
    <3>1. ManifestFile \notin files'
      BY <1>4, <2>2 DEF OpenFresh
    <3> QED BY <3>1 DEF OnDisk
  <2> QED BY <2>1, <2>2
<1>5. CASE OpenRecover
  <2>1. CASE Recoverable
    BY <1>5, <1>d, <2>1 DEF OpenRecover, Alive
  <2>2. CASE ~Recoverable
    <3>1. /\ UNCHANGED <<files, manifest, data, written, synced, sst>>
          /\ status = "down" /\ status' = "failed"
      BY <1>5, <2>2 DEF OpenRecover
    <3>2. Safe' = Safe
      BY <3>1, <1>w DEF Safe
    <3>3. RecordedBatches' = RecordedBatches /\ RecordedSsts' = RecordedSsts
      BY <3>1, <1>w DEF RecordedBatches, RecordedSsts
    <3>4. Recorded' = Recorded
      BY <3>1, <1>w, <3>2, <3>3 DEF Recorded
    <3> QED BY <1>a, <1>w, <3>1, <3>2, <3>4 DEF OnDisk, Alive
  <2> QED BY <2>1, <2>2
<1>6. CASE Close
  <2>1. CASE ~EnableWal
    BY <1>6, <1>d, <2>1 DEF Close, Alive
  <2>2. CASE EnableWal
    <3>1. /\ UNCHANGED <<manifest, data, sst>> /\ status = "up" /\ lock.at = "free"
          /\ manifest.maxId < MaxId
          /\ written' = [written EXCEPT ![mem] = data[mem]]
          /\ synced' = [synced EXCEPT ![mem] = data[mem]]
      BY <1>6, <2>2 DEF Close, SyncLog, RoomToReopen
    <3>2. Safe' = [Safe EXCEPT ![mem] = data[mem]]
      BY <1>w, <3>1 DEF Safe
    <3>3. \A i \in Id : Safe'[i] = IF i = mem THEN data[i] ELSE Safe[i]
      BY <1>t, <3>2 DEF Content
    <3>4. Recorded
      BY <3>1, AliveRecorded DEF Alive
    <3>5. \A i \in manifest.mems : Safe'[i] = data[i]
      <4>1. ASSUME NEW i \in manifest.mems, i # mem PROVE Safe[i] = data[i]
        <5>1. CASE data[i] = {}
          BY <1>a, <1>t, <2>2, <5>1 DEF Logs
        <5>2. CASE data[i] # {}
          <6>1. ~FlushMid
            BY <3>1 DEF FlushMid
          <6>2. i \in Ids(imm)
            BY <1>a, <2>2, <3>1, <4>1, <5>2, <6>1 DEF Recording, Alive
          <6>3. PICK p \in 1..Len(imm) : i = imm[p]
            BY <6>2 DEF Ids
          <6> QED BY <1>a, <2>2, <3>1, <6>3 DEF Logs
        <5> QED BY <5>1, <5>2
      <4> QED BY <1>t, <3>3, <4>1
    <3>6. RecordedBatches' = RecordedBatches /\ RecordedSsts' = RecordedSsts
      BY <1>w, <3>1 DEF RecordedBatches, RecordedSsts
    <3>7. Recorded'
      BY <1>w, <3>1, <3>4, <3>5, <3>6 DEF Recorded
    <3> QED BY <1>w, <3>1, <3>5, <3>7 DEF OnDisk
  <2> QED BY <2>1, <2>2
<1>7. CASE CloseEnd
  <2>1. /\ UNCHANGED <<manifest, data, sst>> /\ status = "closing" /\ lock.at = "free"
    BY <1>7 DEF CloseEnd
  <2>2. ~EnableWal /\ manifest.maxId < MaxId
    BY <1>a, <2>1 DEF Phases
  <2>3. Recorded
    BY <2>1, AliveRecorded DEF Alive
  <2>4. RecordedBatches' = RecordedBatches /\ RecordedSsts' = RecordedSsts
    BY <1>w, <2>1 DEF RecordedBatches, RecordedSsts
  <2>5. Recorded'
    BY <1>w, <2>1, <2>2, <2>3, <2>4 DEF Recorded
  <2> QED BY <1>w, <2>1, <2>2, <2>5 DEF OnDisk
<1>8. CASE Crash
  <2>1. CASE ManifestFile \notin files'
    BY <2>1 DEF OnDisk
  <2>2. CASE ManifestFile \in files'
    <3>1. /\ Alive /\ lock.at # "open.fresh" /\ manifest' = manifest
          /\ manifest.maxId < MaxId /\ Safe' = data'
      BY <1>8, <2>2, CrashCuts
    <3>2. Recorded'
      BY <1>8, <3>1, AliveRecorded, CrashKeepsRecorded
    <3> QED BY <3>1, <3>2 DEF OnDisk
  <2> QED BY <2>1, <2>2
<1> QED BY <1>1, <1>2, <1>3, <1>4, <1>5, <1>6, <1>7, <1>8 DEF Next, RestartStep

\* Every step keeps the names that have to be in the directory.
LEMMA DirectoryStep ==
    ASSUME IInv, Next
    PROVE  Directory'
<1> USE DEF vars, diskVars, memoryVars, levelVars, threadVars
<1>a. Typed /\ Phases /\ Holding /\ Compacting /\ Recording /\ Directory
  BY DEF IInv
<1>t. /\ compaction \in Compaction /\ compaction.l0 \in Seq(Id) /\ compaction.l1 \in Seq(Id)
      /\ compaction.remove \in Seq(Id) /\ compaction.out \in Id
      /\ lock \in Position /\ nextId \in Nat
  <2>1. Typed
    BY <1>a
  <2>2. nextId \in 1..MaxId + 1 /\ MaxId \in Nat
    BY <2>1, Fields
  <2> QED BY <2>1, <2>2, Fields DEF Typed
<1>n. /\ \A i, j : Sst(i) # Wal(j) /\ (Sst(i) = Sst(j) => i = j)
      /\ \A i : ManifestFile # Wal(i) /\ ManifestFile # Sst(i)
  BY DEF Sst, Wal, ManifestFile
<1>i. \A i \in Ids(manifest.l1) : Sst(i) \in durable /\ Sst(i) \in files
  BY <1>a DEF Directory, CompactedFilesDurable
<1>m. lock.at = "compact.dir_synced" => compaction.at = "merged"
  BY <1>a DEF Holding, CompactMid, CompactPositions
\* The steps that leave the names of SSTs and of the manifest where they are.
<1>f. ASSUME \A x \in files : x \in files' \/ \E i : x = Wal(i),
             \A x \in files' : x \in files \/ \E i : x = Wal(i) \/ x = Sst(i),
             durable' \in {durable, files, files'},
             manifest'.l1 = manifest.l1,
             lock'.at # "open.fresh",
             compaction'.at = "merged" =>
                compaction.at = "merged" /\ compaction'.out = compaction.out,
             lock'.at = "compact.dir_synced" =>
                lock.at = "compact.dir_synced" /\ compaction'.out = compaction.out
      PROVE  Directory'
  <2>1. \A i : Sst(i) \in files => Sst(i) \in files'
    BY <1>f, <1>n
  <2>2. ManifestFile \in files => ManifestFile \in files'
    BY <1>f, <1>n
  <2>3. ManifestFile \in durable' => ManifestFile \in files'
    BY <1>a, <1>f, <2>2 DEF Directory
  <2>4. compaction'.at = "merged" => Sst(compaction'.out) \in files'
    BY <1>a, <1>f, <2>1 DEF Directory
  <2>5. lock'.at = "compact.dir_synced" => Sst(compaction'.out) \in durable'
    BY <1>a, <1>f, <1>m, <2>1 DEF Directory
  <2>6. \A i \in Ids(manifest'.l1) : Sst(i) \in durable' \cap files'
    BY <1>f, <1>i, <2>1
  <2> QED BY <1>f, <2>3, <2>4, <2>5, <2>6 DEF Directory, CompactedFilesDurable
<1>1. CASE WriterStep
  <2>1. /\ UNCHANGED <<files, durable, manifest, lock, compaction>> /\ status = "up"
    BY <1>1 DEF WriterStep, Write, Publish, Sync
  <2>2. lock.at # "open.fresh"
    BY <1>a, <2>1 DEF Phases, OpenPositions
  <2> QED BY <1>f, <2>1, <2>2
<1>2. CASE FreezeStep
  <2>1. /\ \A x \in files : x \in files'
        /\ \A x \in files' : x \in files \/ \E i : x = Wal(i) \/ x = Sst(i)
        /\ durable' \in {durable, files}
        /\ compaction' = compaction
        /\ lock'.at \in {"free"} \cup FreezePositions
    BY <1>2, <1>t DEF FreezeStep, FreezeCreate, FreezeSwap, FreezeSyncWal, FreezeRecord,
       FreezeSyncDir, At, NoLock, Position, Create, SyncDir, FreezePositions
  <2>2. manifest'.l1 = manifest.l1
    <3>1. CASE FreezeRecord
      BY <3>1, MemtableRecorded
    <3>2. CASE ~FreezeRecord
      BY <1>2, <3>2 DEF FreezeStep, FreezeCreate, FreezeSwap, FreezeSyncWal, FreezeSyncDir
    <3> QED BY <3>1, <3>2
  <2>3. lock'.at \notin {"open.fresh", "compact.dir_synced"}
    BY <2>1 DEF FreezePositions
  <2> QED BY <1>f, <2>1, <2>2, <2>3
<1>3. CASE FlushStep
  <2>1. /\ \A x \in files : x \in files' \/ \E i : x = Wal(i)
        /\ \A x \in files' : x \in files \/ \E i : x = Wal(i) \/ x = Sst(i)
        /\ durable' \in {durable, files}
        /\ compaction' = compaction
        /\ lock'.at \in {"free"} \cup FlushPositions
    BY <1>3, <1>t DEF FlushStep, FlushBuild, FlushInstall, FlushRemoveWal, FlushRecord,
       FlushSyncDir, At, NoLock, Position, Create, SyncDir, FlushPositions
  <2>2. manifest'.l1 = manifest.l1
    <3>1. CASE FlushRecord
      BY <3>1, FlushRecorded
    <3>2. CASE ~FlushRecord
      BY <1>3, <3>2 DEF FlushStep, FlushBuild, FlushInstall, FlushRemoveWal, FlushSyncDir
    <3> QED BY <3>1, <3>2
  <2>3. lock'.at \notin {"open.fresh", "compact.dir_synced"}
    BY <2>1 DEF FlushPositions
  <2> QED BY <1>f, <2>1, <2>2, <2>3
\* A compaction.
<1>4. CASE CompactStart \/ CompactInstall
  <2>1. /\ UNCHANGED <<files, durable, manifest>>
        /\ \/ lock' = lock /\ compaction'.at = "merging" /\ status = "up"
              /\ compaction.at = "idle"
           \/ lock'.at = "compact.installed" /\ compaction' = compaction
    <3>1. CompactStart => compaction'.at = "merging"
      BY DEF CompactStart, NoCompaction
    <3> QED BY <1>4, <3>1 DEF CompactStart, CompactInstall
  <2>2. lock'.at \notin {"open.fresh", "compact.dir_synced"}
    <3>1. status = "up" => lock.at # "open.fresh"
      BY <1>a DEF Phases, OpenPositions
    <3> QED BY <1>m, <2>1, <3>1
  <2> QED BY <1>f, <2>1, <2>2
<1>5. CASE CompactMerge
  <2>1. /\ files' = files \cup {Sst(nextId)} /\ UNCHANGED <<durable, manifest, lock>>
        /\ compaction.at = "merging" /\ compaction'.out = nextId
    BY <1>5, <1>t DEF CompactMerge, Create, Compaction
  <2>2. lock.at \notin {"open.fresh", "compact.dir_synced"}
    <3>1. Alive /\ status # "opening"
      BY <1>a, <2>1 DEF Phases, NoCompaction
    <3> QED BY <1>a, <1>m, <2>1, <3>1 DEF Phases, OpenPositions
  <2> QED BY <1>a, <1>i, <2>1, <2>2 DEF Directory, CompactedFilesDurable
<1>6. CASE CompactSyncDir
  <2>1. /\ UNCHANGED <<files, manifest, compaction>> /\ durable' = files
        /\ lock'.at = "compact.dir_synced" /\ lock.at = "compact.installed"
    BY <1>6, <1>t DEF CompactSyncDir, SyncDir, At, Position
  <2>2. compaction.at = "merged"
    BY <1>a, <2>1 DEF Holding, CompactMid, CompactPositions
  <2> QED BY <1>a, <1>i, <2>1, <2>2 DEF Directory, CompactedFilesDurable
<1>7. CASE CompactRecord
  <2>1. /\ UNCHANGED <<files, durable>> /\ lock' = NoLock /\ compaction'.at = "removing"
        /\ lock.at = "compact.dir_synced"
    BY <1>7, <1>t DEF CompactRecord, Compaction
  <2>2. Ids(manifest'.l1) = {compaction.out}
    BY <1>7, <1>t, CompactionRecorded, IdsOf
  <2>3. Sst(compaction.out) \in durable /\ Sst(compaction.out) \in files
    BY <1>a, <1>m, <2>1 DEF Directory
  <2>4. \A i \in Ids(manifest'.l1) : Sst(i) \in durable' \cap files'
    BY <2>1, <2>2, <2>3
  <2> QED BY <1>a, <2>1, <2>4 DEF Directory, CompactedFilesDurable, NoLock
<1>8. CASE CompactRemove
  <2>1. /\ compaction.at = "removing" /\ UNCHANGED <<manifest, lock>>
    BY <1>8 DEF CompactRemove
  <2>2. lock.at \notin {"open.fresh"} \cup CompactPositions
    <3>1. Alive /\ status # "opening"
      BY <1>a, <2>1 DEF Phases, NoCompaction
    <3>2. ~CompactMid
      BY <1>a, <2>1 DEF Holding
    <3> QED BY <1>a, <3>1, <3>2 DEF Phases, OpenPositions, CompactMid
  <2>3. manifest.l1 = l1
    <3>1. Alive /\ ~CompactMid
      BY <1>a, <2>1, <2>2 DEF Phases, NoCompaction, CompactMid
    <3> QED BY <1>a, <2>2, <3>1 DEF Recording
  <2>4. CASE compaction.remove # <<>>
    <3>1. /\ files' = files \ {Sst(Head(compaction.remove))} /\ durable' = durable
          /\ compaction'.at = "removing"
      BY <1>8, <1>t, <2>1, <2>4 DEF CompactRemove, Compaction
    <3>2. Head(compaction.remove) \in Ids(compaction.remove)
      BY <1>t, <2>4 DEF Ids
    <3>3. Head(compaction.remove) \notin Ids(manifest.l1)
      BY <1>a, <2>1, <2>3, <3>2 DEF Compacting
    <3>4. \A i \in Ids(manifest.l1) : Sst(i) \in files'
      BY <1>i, <1>n, <3>1, <3>3
    <3>5. ManifestFile \in files => ManifestFile \in files'
      BY <1>n, <3>1
    <3>6. lock'.at \notin {"open.fresh", "compact.dir_synced"}
      BY <2>1, <2>2 DEF CompactPositions
    <3> QED BY <1>a, <1>i, <2>1, <3>1, <3>4, <3>5, <3>6 DEF Directory, CompactedFilesDurable
  <2>5. CASE compaction.remove = <<>>
    <3>1. /\ files' = files /\ durable' = files /\ compaction'.at = "idle"
      BY <1>8, <2>5 DEF CompactRemove, SyncDir, NoCompaction
    <3>2. lock'.at \notin {"open.fresh", "compact.dir_synced"}
      BY <2>1, <2>2 DEF CompactPositions
    <3> QED BY <1>f, <2>1, <3>1, <3>2
  <2> QED BY <2>4, <2>5
\* Stopping and opening.
<1>9. CASE Close \/ CloseEnd
  <2>1. /\ UNCHANGED <<files, manifest>> /\ durable' = files
        /\ \/ lock' = NoLock /\ compaction' = NoCompaction
           \/ lock' = lock /\ compaction' = compaction /\ lock.at = "free"
    BY <1>9 DEF Close, CloseEnd, Stopped, SyncDir
  <2> QED BY <1>f, <2>1 DEF NoLock, NoCompaction
<1>10. CASE Crash
  <2>1. /\ manifest' = manifest /\ lock' = NoLock /\ compaction' = NoCompaction
        /\ durable' \in {durable, files'}
    BY <1>10 DEF Crash, Stopped
  <2>2. PICK undone \in IF setting.crash = "power"
                        THEN SUBSET ((files \ durable) \cup (durable \ files)) ELSE {{}} :
           files' = (files \ undone) \cup (undone \ files)
    BY <1>10 DEF Crash
  <2>3. \A x : x \in files /\ x \in durable => x \in files'
    BY <2>2
  <2>4. ManifestFile \in durable' => ManifestFile \in files'
    BY <1>a, <2>1, <2>3 DEF Directory
  <2>5. \A i \in Ids(manifest'.l1) : Sst(i) \in durable' \cap files'
    BY <1>i, <2>1, <2>3
  <2> QED BY <2>1, <2>4, <2>5 DEF Directory, CompactedFilesDurable, NoLock, NoCompaction
<1>11. CASE OpenFresh
  <2>1. CASE Recoverable
    <3>1. /\ files' = files \cup {Wal(0)} \/ files' = files
          /\ UNCHANGED <<durable, manifest, compaction>> /\ lock'.at = "open.fresh"
          /\ ManifestFile \notin files
      BY <1>11, <2>1 DEF OpenFresh, Create
    <3>2. ManifestFile \notin files' /\ \A x \in files : x \in files'
      BY <1>n, <3>1
    <3> QED BY <1>a, <1>i, <3>1, <3>2 DEF Directory, CompactedFilesDurable
  <2>2. CASE ~Recoverable
    BY <1>11, <1>a, <2>2 DEF OpenFresh, Directory, CompactedFilesDurable
  <2> QED BY <2>1, <2>2
<1>12. CASE OpenManifest
  <2>1. /\ files' = files \cup {ManifestFile} /\ UNCHANGED <<durable, compaction>>
        /\ manifest'.l1 = <<>> /\ lock'.at = "open.created"
    BY <1>12, <1>t DEF OpenManifest, Create, EmptyManifest, At, Position
  <2>2. Ids(manifest'.l1) = {}
    BY <2>1, IdsOf
  <2> QED BY <1>a, <2>1, <2>2 DEF Directory, CompactedFilesDurable
<1>13. CASE OpenRecover
  <2>1. CASE Recoverable
    <3>1. /\ files' = files \cup {Wal(manifest.maxId + 1)} \/ files' = files
          /\ UNCHANGED <<durable, manifest, compaction>> /\ lock'.at = "open.created"
      BY <1>13, <2>1 DEF OpenRecover, Create
    <3>2. \A x \in files' : x \in files \/ \E i : x = Wal(i)
      BY <3>1
    <3> QED BY <1>f, <3>1, <3>2
  <2>2. CASE ~Recoverable
    BY <1>13, <1>a, <2>2 DEF OpenRecover, Directory, CompactedFilesDurable
  <2> QED BY <2>1, <2>2
<1>14. CASE OpenRecord
  <2>1. /\ UNCHANGED <<files, durable, compaction>> /\ lock'.at = "open.recorded"
    BY <1>14, <1>t DEF OpenRecord, At, Position
  <2>2. manifest'.l1 = manifest.l1
    BY <1>14, MemtableRecorded
  <2> QED BY <1>f, <2>1, <2>2
<1>15. CASE OpenSyncDir
  <2>1. /\ UNCHANGED <<files, manifest, compaction>> /\ durable' = files /\ lock' = NoLock
    BY <1>15 DEF OpenSyncDir, SyncDir
  <2> QED BY <1>f, <2>1 DEF NoLock
<1> QED BY <1>1, <1>2, <1>3, <1>4, <1>5, <1>6, <1>7, <1>8, <1>9, <1>10, <1>11, <1>12,
           <1>13, <1>14, <1>15 DEF Next, CompactStep, RestartStep

\* The invariant holds of the empty directory.
LEMMA InitIInv == Init => IInv
<1> SUFFICES ASSUME Init PROVE IInv
  OBVIOUS
<1>1. /\ files = {} /\ durable = {} /\ manifest = EmptyManifest
      /\ data = [i \in Id |-> {}] /\ torn = {}
      /\ written = [i \in Id |-> {}] /\ synced = [i \in Id |-> {}]
      /\ sst = [i \in Id |-> {}] /\ status = "down"
      /\ mem = 0 /\ imm = <<>> /\ l0 = <<>> /\ l1 = <<>> /\ nextId = 1 /\ ts = 0
      /\ lock = NoLock /\ writer = "idle" /\ compaction = NoCompaction
      /\ promised = 0 /\ crashes = 0 /\ setting \in Settings
  BY DEF Init
<1>2. MaxId \in Nat \ {0} /\ MaxBatches \in Nat /\ 0 \in Id /\ 1 \in Id /\ setting.crashes \in Nat
  BY <1>1, DurabilityAssumption DEF Id, Setting
<1>3. /\ lock.at = "free" /\ lock.id = 0 /\ compaction.at = "idle" /\ compaction.out = 0
      /\ compaction.l0 = <<>> /\ compaction.l1 = <<>> /\ compaction.remove = <<>>
  BY <1>1 DEF NoLock, NoCompaction
<1>4. /\ manifest.l0 = <<>> /\ manifest.l1 = <<>> /\ manifest.mems = {} /\ manifest.maxId = 1
      /\ manifest.ok = TRUE
  BY <1>1 DEF EmptyManifest
<1>5. Ids(<<>>) = {} /\ Len(<<>>) = 0 /\ Distinct(<<>>)
  BY IdsOf DEF Distinct
<1>6. ~Alive /\ ~FlushMid /\ ~CompactMid /\ ManifestFile \notin files
      /\ lock.at \notin FreezePositions \cup FlushPositions \cup OpenPositions
  BY <1>1, <1>3 DEF Alive, FlushMid, CompactMid, FreezePositions, FlushPositions,
                    CompactPositions, OpenPositions
<1>7. Listed = {} /\ RecordedSsts = {}
  BY <1>1, <1>4, <1>5 DEF Listed, RecordedSsts
<1>8. Typed
  <2>1. manifest \in Manifest
    BY <1>1, <1>2 DEF EmptyManifest, Manifest
  <2>2. lock \in Position
    BY <1>1, <1>2 DEF NoLock, Position, Positions
  <2>3. compaction \in Compaction
    BY <1>1, <1>2 DEF NoCompaction, Compaction
  <2>4. data \in Content /\ written \in Content /\ synced \in Content /\ sst \in Content
    BY <1>1 DEF Content
  <2> QED BY <1>1, <1>2, <2>1, <2>2, <2>3, <2>4 DEF Typed
<1>9. Phases
  BY <1>1, <1>6 DEF Phases
<1>10. IdsFresh
  BY <1>1, <1>5, <1>7 DEF IdsFresh
<1>11. Holding
  BY <1>3, <1>6 DEF Holding, FreezePositions, FlushPositions, OpenPositions
<1>12. Compacting
  BY <1>3, <1>5 DEF Compacting
<1>13. ManifestShape
  BY <1>4, <1>5, <1>7 DEF ManifestShape
<1>14. Recording /\ Holdings /\ Inputs /\ OnDisk
  BY <1>6 DEF Recording, Holdings, Inputs, OnDisk
<1>15. Logs
  <2>1. \A i \in Id : data[i] = {} /\ Safe[i] = {}
    BY <1>1 DEF Safe
  <2> QED BY <1>1, <1>6, <2>1 DEF Logs
<1>16. Directory
  BY <1>1, <1>3, <1>4, <1>5, <1>6 DEF Directory, CompactedFilesDurable
<1> QED BY <1>8, <1>9, <1>10, <1>11, <1>12, <1>13, <1>14, <1>15, <1>16 DEF IInv

\* A step that changes nothing keeps the invariant.
LEMMA StutterIInv ==
    ASSUME IInv, UNCHANGED vars
    PROVE  IInv'
<1> USE DEF vars, diskVars, memoryVars, levelVars, threadVars
<1>1. /\ Alive' = Alive /\ FlushMid' = FlushMid /\ CompactMid' = CompactMid
      /\ EnableWal' = EnableWal /\ Safe' = Safe /\ Listed' = Listed
      /\ RecordedSsts' = RecordedSsts /\ Top' = Top /\ Readable' = Readable
  BY DEF Alive, FlushMid, CompactMid, EnableWal, Safe, Listed, RecordedSsts, Top, Readable
<1>2. RecordedBatches' = RecordedBatches
  BY <1>1 DEF RecordedBatches
<1>3. Recorded' = Recorded
  BY <1>1, <1>2 DEF Recorded
<1>4. Typed' /\ Phases'
  BY <1>1 DEF IInv, Typed, Phases
<1>5. IdsFresh' /\ Holding' /\ Compacting'
  <2>1. IdsFresh'
    BY <1>1 DEF IInv, IdsFresh
  <2>2. Holding'
    BY <1>1 DEF IInv, Holding
  <2>3. Compacting'
    BY <1>1 DEF IInv, Compacting
  <2> QED BY <2>1, <2>2, <2>3
<1>6. ManifestShape' /\ Recording'
  BY <1>1 DEF IInv, ManifestShape, Recording
<1>7. Holdings' /\ Inputs'
  BY <1>1 DEF IInv, Holdings, Inputs
<1>8. Logs' /\ OnDisk' /\ Directory'
  BY <1>1, <1>3 DEF IInv, Logs, OnDisk, Directory, CompactedFilesDurable
<1> QED BY <1>4, <1>5, <1>6, <1>7, <1>8 DEF IInv

\* The invariant is inductive.
LEMMA IInvStep ==
    ASSUME IInv, Next
    PROVE  IInv'
BY TypedStep, PhasesStep, IdsStep, HoldingStep, CompactingStep, ManifestStep, RecordingStep,
   HoldingsStep, InputsStep, LogsStep, OnDiskStep, DirectoryStep DEF IInv

\* The invariant holds in every reachable state.
LEMMA Invariance == Spec => []IInv
<1>1. IInv /\ [Next]_vars => IInv'
  BY IInvStep, StutterIInv
<1> QED BY <1>1, InitIInv, PTL DEF Spec

(***************************************************************************)
(* Whatever the settings, every variable keeps its type; in particular no  *)
(* list of memtables or SSTs in memory, in the manifest or in a compaction *)
(* ever grows beyond the ids there are, because none names an id twice     *)
(* (lsm_storage.rs next_sst_id, open; compact.rs trigger_compaction).      *)
(***************************************************************************)
THEOREM TypesHold == Spec => []TypeOK
<1>1. IInv => TypeOK
  <2> SUFFICES ASSUME IInv PROVE TypeOK
    OBVIOUS
  <2>1. Typed
    BY DEF IInv
  <2>2. /\ imm \in Seq(Id) /\ l0 \in Seq(Id) /\ l1 \in Seq(Id)
        /\ manifest.l0 \in Seq(Id) /\ manifest.l1 \in Seq(Id)
        /\ compaction.l0 \in Seq(Id) /\ compaction.l1 \in Seq(Id)
        /\ compaction.remove \in Seq(Id) /\ Id \subseteq Nat
    <3>1. Id = 0..MaxId /\ MaxId \in Nat
      BY <2>1, Fields
    <3>2. Id \subseteq Nat
      BY <3>1
    <3> QED BY <2>1, <3>2, Fields
  <2>3. ASSUME NEW s \in Seq(Id), Len(s) <= 1 PROVE Distinct(s)
    <3>1. Len(s) \in Nat
      OBVIOUS
    <3> QED BY <2>3, <3>1 DEF Distinct
  <2>4. Distinct(imm)
    <3>1. ASSUME NEW p \in 1..Len(imm), NEW q \in 1..Len(imm), imm[p] = imm[q], p # q
          PROVE  FALSE
      <4>1. imm[p] \in Nat /\ p \in Nat /\ q \in Nat
        <5>1. imm[p] \in Id /\ Len(imm) \in Nat
          BY <2>2
        <5>2. imm[p] \in Nat
          BY <2>2, <5>1
        <5>3. p \in Nat /\ q \in Nat
          BY <5>1
        <5> QED BY <5>2, <5>3
      <4>2. \A x, y \in 1..Len(imm) : x < y => imm[y] < imm[x]
        BY DEF IInv, IdsFresh
      <4>3. p < q \/ q < p
        BY <3>1, <4>1
      <4>4. imm[p] < imm[p]
        BY <3>1, <4>2, <4>3
      <4> QED BY <4>1, <4>4
    <3> QED BY <3>1 DEF Distinct
  <2>5. /\ Distinct(l0) /\ Distinct(l1) /\ Distinct(manifest.l0) /\ Distinct(manifest.l1)
        /\ Distinct(compaction.l0) /\ Distinct(compaction.l1) /\ Distinct(compaction.remove)
    BY <2>2, <2>3 DEF IInv, IdsFresh, ManifestShape, Compacting
  <2>6. /\ IdSeq(imm) /\ IdSeq(l0) /\ IdSeq(l1) /\ IdSeq(manifest.l0) /\ IdSeq(manifest.l1)
        /\ IdSeq(compaction.l0) /\ IdSeq(compaction.l1) /\ IdSeq(compaction.remove)
    BY <2>2, <2>4, <2>5, DistinctIsShort
  <2>7. /\ manifest.mems \subseteq Id /\ manifest.maxId \in Id /\ manifest.ok \in BOOLEAN
        /\ compaction.out \in Id /\ lock.id \in Id /\ lock.at \in Positions
    BY <2>1, Fields
  <2>8. compaction.at \in {"idle", "merging", "merged", "removing"}
    <3>1. compaction \in Compaction
      BY <2>1 DEF Typed
    <3> QED BY <3>1 DEF Compaction
  <2> QED BY <2>1, <2>6, <2>7, <2>8 DEF Typed, TypeOK, Content
<1> QED BY <1>1, Invariance, PTL

(***************************************************************************)
(* No freeze, flush, compaction, crash or recovery makes the engine lose a *)
(* batch or use a commit timestamp twice, wherever the crashes come and    *)
(* whatever they leave of the logs: a running engine holds the batches up  *)
(* to the latest timestamp, and the one being written (lsm_storage.rs,     *)
(* compact.rs, manifest.rs, wal.rs).                                       *)
(***************************************************************************)
THEOREM NothingIsLost == Spec => []NothingLost
<1>1. IInv => NothingLost
  BY DEF IInv, Holdings, NothingLost, Alive, Top
<1> QED BY <1>1, Invariance, PTL

(***************************************************************************)
(* Whenever state_lock is free, replaying the manifest would give what is  *)
(* in memory, whatever ran or crashed before: each of freeze, flush and    *)
(* compaction changes the state first and writes its record afterwards,    *)
(* and state_lock keeps the two together (lsm_storage.rs                   *)
(* force_freeze_memtable, force_flush_next_imm_memtable; compact.rs).      *)
(***************************************************************************)
THEOREM ManifestIsMemory == Spec => []ManifestMatches
<1>1. IInv => ManifestMatches
  <2> SUFFICES ASSUME IInv, status = "up", lock.at = "free" PROVE ManifestMatches
    BY DEF ManifestMatches
  <2>1. Alive /\ ~FlushMid /\ ~CompactMid /\ lock.at # "open.fresh"
    BY DEF Alive, FlushMid, CompactMid, CompactPositions
  <2>2. /\ manifest.ok /\ manifest.l0 = l0 /\ manifest.l1 = l1
        /\ Ids(imm) \subseteq manifest.mems /\ mem \in manifest.mems
        /\ EnableWal => \A i \in manifest.mems : data[i] # {} => i = mem \/ i \in Ids(imm)
        /\ \A i \in manifest.mems : i < nextId
    BY <2>1 DEF IInv, Recording
  <2>3. \A i \in Ids(imm) : data[i] # {}
    BY <2>1 DEF IInv, Holdings
  <2>4. \A i \in RecordedSsts : i < nextId
    BY <2>2 DEF IInv, IdsFresh, RecordedSsts, Listed
  <2>5. EnableWal => {mem} \cup {i \in manifest.mems : data[i] # {}} = {mem} \cup Ids(imm)
    BY <2>2, <2>3
  <2> QED BY <2>2, <2>4, <2>5 DEF ManifestMatches
<1> QED BY <1>1, Invariance, PTL

(***************************************************************************)
(* Whatever the manifest records as the output of a compaction was in the  *)
(* directory at its last sync and still is, whatever a crash undoes: the   *)
(* directory is synced between the installation and the record, and no     *)
(* input that is removed afterwards is an output (compact.rs               *)
(* trigger_compaction).                                                    *)
(***************************************************************************)
THEOREM CompactedFilesStay == Spec => []CompactedFilesDurable
<1>1. IInv => CompactedFilesDurable
  BY DEF IInv, Directory
<1> QED BY <1>1, Invariance, PTL

\* A sequence of sets of batches, the latest batches first.
Descends(s) == \A p, q \in 1..Len(s) : p < q => Above(s[p], s[q])

\* Two such sequences make one if everything in the first is later.
LEMMA DescendsJoined ==
    ASSUME NEW s \in Seq(SUBSET (1..MaxBatches)), NEW t \in Seq(SUBSET (1..MaxBatches)),
           Descends(s), Descends(t), \A A \in Ids(s), B \in Ids(t) : Above(A, B)
    PROVE  /\ s \o t \in Seq(SUBSET (1..MaxBatches)) /\ Descends(s \o t)
           /\ Ids(s \o t) = Ids(s) \cup Ids(t)
<1>1. /\ s \o t \in Seq(SUBSET (1..MaxBatches))
      /\ Len(s) \in Nat /\ Len(t) \in Nat /\ Len(s \o t) = Len(s) + Len(t)
      /\ \A p \in 1..Len(s) : (s \o t)[p] = s[p]
      /\ \A p \in 1..Len(t) : (s \o t)[Len(s) + p] = t[p]
  OBVIOUS
<1>2. \A p \in 1..Len(s \o t) :
         \/ p \in 1..Len(s) /\ (s \o t)[p] = s[p]
         \/ /\ p - Len(s) \in 1..Len(t) /\ Len(s) < p
            /\ (s \o t)[p] = t[p - Len(s)]
  <2>1. ASSUME NEW p \in 1..Len(s \o t), p \notin 1..Len(s)
        PROVE  /\ p - Len(s) \in 1..Len(t) /\ Len(s) < p
               /\ (s \o t)[p] = t[p - Len(s)]
    <3>1. p - Len(s) \in 1..Len(t) /\ Len(s) < p /\ Len(s) + (p - Len(s)) = p
      BY <1>1, <2>1
    <3> QED BY <1>1, <3>1
  <2> QED BY <1>1, <2>1
<1>3. ASSUME NEW p \in 1..Len(s \o t), NEW q \in 1..Len(s \o t), p < q
      PROVE  Above((s \o t)[p], (s \o t)[q])
  <2>1. CASE q \in 1..Len(s)
    <3>1. p \in 1..Len(s)
      BY <1>1, <1>3, <2>1
    <3> QED BY <1>1, <1>3, <2>1, <3>1 DEF Descends
  <2>2. CASE q \notin 1..Len(s) /\ p \in 1..Len(s)
    <3>1. (s \o t)[p] \in Ids(s) /\ (s \o t)[q] \in Ids(t)
      BY <1>2, <2>2, <1>1 DEF Ids
    <3> QED BY <3>1
  <2>3. CASE q \notin 1..Len(s) /\ p \notin 1..Len(s)
    <3>1. /\ p - Len(s) \in 1..Len(t) /\ q - Len(s) \in 1..Len(t)
          /\ (s \o t)[p] = t[p - Len(s)] /\ (s \o t)[q] = t[q - Len(s)]
      BY <1>2, <2>3
    <3>2. p - Len(s) < q - Len(s)
      BY <1>1, <1>3
    <3> QED BY <3>1, <3>2 DEF Descends
  <2> QED BY <2>1, <2>2, <2>3
<1>4. Ids(s \o t) = Ids(s) \cup Ids(t)
  <2>1. \A p \in 1..Len(s) : p \in 1..Len(s \o t)
    BY <1>1
  <2>2. \A p \in 1..Len(t) : Len(s) + p \in 1..Len(s \o t)
    BY <1>1
  <2>3. Ids(s) \subseteq Ids(s \o t)
    BY <1>1, <2>1 DEF Ids
  <2>4. Ids(t) \subseteq Ids(s \o t)
    BY <1>1, <2>2 DEF Ids
  <2>5. Ids(s \o t) \subseteq Ids(s) \cup Ids(t)
    BY <1>2 DEF Ids
  <2> QED BY <2>3, <2>4, <2>5
<1> QED BY <1>1, <1>3, <1>4 DEF Descends

\* The batches of a list of memtables or SSTs, one set for each.
LEMMA ContentsOf ==
    ASSUME NEW content \in Content, NEW s \in Seq(Id),
           \A p, q \in 1..Len(s) : p < q => Above(content[s[p]], content[s[q]])
    PROVE  /\ [i \in 1..Len(s) |-> content[s[i]]] \in Seq(SUBSET (1..MaxBatches))
           /\ Descends([i \in 1..Len(s) |-> content[s[i]]])
           /\ \A A \in Ids([i \in 1..Len(s) |-> content[s[i]]]) :
                 \E i \in Ids(s) : A = content[i]
<1> DEFINE c == [i \in 1..Len(s) |-> content[s[i]]]
<1>1. Len(s) \in Nat /\ \A i \in 1..Len(s) : s[i] \in Id
  OBVIOUS
<1>2. \A i \in 1..Len(s) : content[s[i]] \in SUBSET (1..MaxBatches)
  BY <1>1 DEF Content
<1>3. c \in Seq(SUBSET (1..MaxBatches)) /\ Len(c) = Len(s)
  BY <1>1, <1>2
<1>4. \A i \in 1..Len(s) : c[i] = content[s[i]]
  OBVIOUS
<1> HIDE DEF c
<1>5. Descends(c)
  BY <1>3, <1>4 DEF Descends
<1>6. ASSUME NEW A \in Ids(c) PROVE \E i \in Ids(s) : A = content[i]
  <2>1. PICK p \in 1..Len(s) : A = c[p]
    BY <1>3 DEF Ids
  <2>2. s[p] \in Ids(s)
    BY DEF Ids
  <2> QED BY <1>4, <2>1, <2>2
<1> QED BY <1>3, <1>5, <1>6 DEF c

(***************************************************************************)
(* In a running engine a newer memtable or SST always holds later batches  *)
(* than what is behind it, the current memtable first and level 1 last:    *)
(* that is what lets a read stop at the first source that has the key.  A  *)
(* flush that raced a compaction, a crash and the order in which open      *)
(* rebuilds the memtables do not break it (lsm_storage.rs, compact.rs).    *)
(***************************************************************************)
THEOREM LatestIsFirst == Spec => []LatestFirst
<1>1. IInv => LatestFirst
  <2> DEFINE F == <<data[mem]>>
             M == [i \in 1..Len(imm) |-> data[imm[i]]]
             L == [i \in 1..Len(l0) |-> sst[l0[i]]]
             B == [i \in 1..Len(l1) |-> sst[l1[i]]]
  <2> SUFFICES ASSUME IInv, status \in {"up", "closing"}
               PROVE  \A i, j \in 1..Len(F \o M \o L \o B) : i < j =>
                         \A a \in (F \o M \o L \o B)[i], b \in (F \o M \o L \o B)[j] : a > b
    BY DEF LatestFirst
  <2>t. /\ data \in Content /\ sst \in Content /\ mem \in Id
        /\ imm \in Seq(Id) /\ l0 \in Seq(Id) /\ l1 \in Seq(Id) /\ MaxBatches \in Nat
    <3>1. Typed
      BY DEF IInv
    <3> QED BY <3>1, Fields DEF Typed
  <2>a. /\ \A i \in Ids(imm) : Above(data[mem], data[i])
        /\ \A p, q \in 1..Len(imm) : p < q => Above(data[imm[p]], data[imm[q]])
        /\ \A k \in Ids(l0) \cup Ids(l1) :
              /\ Above(data[mem], sst[k])
              /\ \A i \in Ids(imm) : Above(data[i], sst[k])
        /\ \A p, q \in 1..Len(l0) : p < q => Above(sst[l0[p]], sst[l0[q]])
        /\ \A i \in Ids(l0), k \in Ids(l1) : Above(sst[i], sst[k])
    BY DEF IInv, Holdings, Alive
  <2>1. /\ F \in Seq(SUBSET (1..MaxBatches)) /\ Descends(F)
        /\ \A A \in Ids(F) : A = data[mem]
    <3>1. data[mem] \in SUBSET (1..MaxBatches)
      BY <2>t DEF Content
    <3>2. Len(F) = 1 /\ F[1] = data[mem]
      OBVIOUS
    <3>3. Descends(F)
      BY <3>2 DEF Descends
    <3> QED BY <3>1, <3>2, <3>3 DEF Ids
  <2>2. /\ M \in Seq(SUBSET (1..MaxBatches)) /\ Descends(M)
        /\ \A A \in Ids(M) : \E i \in Ids(imm) : A = data[i]
    BY <2>t, <2>a, ContentsOf
  <2>3. /\ L \in Seq(SUBSET (1..MaxBatches)) /\ Descends(L)
        /\ \A A \in Ids(L) : \E i \in Ids(l0) : A = sst[i]
    BY <2>t, <2>a, ContentsOf
  <2>4. /\ B \in Seq(SUBSET (1..MaxBatches)) /\ Descends(B)
        /\ \A A \in Ids(B) : \E i \in Ids(l1) : A = sst[i]
    <3>1. Len(l1) \in Nat /\ Len(l1) <= 1
      BY <2>t DEF IInv, IdsFresh
    <3>2. \A p, q \in 1..Len(l1) : p < q => Above(sst[l1[p]], sst[l1[q]])
      BY <3>1
    <3> QED BY <2>t, <3>2, ContentsOf
  <2> HIDE DEF F, M, L, B
  <2>5. /\ F \o M \in Seq(SUBSET (1..MaxBatches)) /\ Descends(F \o M)
        /\ Ids(F \o M) = Ids(F) \cup Ids(M)
    <3>1. \A X \in Ids(F), Y \in Ids(M) : Above(X, Y)
      BY <2>a, <2>1, <2>2
    <3> QED BY <2>1, <2>2, <3>1, DescendsJoined
  <2>6. /\ F \o M \o L \in Seq(SUBSET (1..MaxBatches)) /\ Descends(F \o M \o L)
        /\ Ids(F \o M \o L) = Ids(F) \cup Ids(M) \cup Ids(L)
    <3>1. \A X \in Ids(F \o M), Y \in Ids(L) : Above(X, Y)
      BY <2>a, <2>1, <2>2, <2>3, <2>5
    <3> QED BY <2>3, <2>5, <3>1, DescendsJoined
  <2>7. /\ F \o M \o L \o B \in Seq(SUBSET (1..MaxBatches)) /\ Descends(F \o M \o L \o B)
    <3>1. \A X \in Ids(F \o M \o L), Y \in Ids(B) : Above(X, Y)
      BY <2>a, <2>1, <2>2, <2>3, <2>4, <2>6
    <3> QED BY <2>4, <2>6, <3>1, DescendsJoined
  <2>8. ASSUME NEW i \in 1..Len(F \o M \o L \o B), NEW j \in 1..Len(F \o M \o L \o B), i < j,
               NEW a \in (F \o M \o L \o B)[i], NEW b \in (F \o M \o L \o B)[j]
        PROVE  a > b
    <3>1. b < a
      BY <2>7, <2>8 DEF Descends, Above
    <3> QED BY <3>1
  <2> QED BY <2>8
<1> QED BY <1>1, Invariance, PTL
=============================================================================
