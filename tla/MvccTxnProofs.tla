--------------------------- MODULE MvccTxnProofs ----------------------------
(***************************************************************************)
(* Proofs about MvccTxn in three parts, each resting on the one before:    *)
(* the inductive invariant Inv of types, locks, readers and the table of   *)
(* committed transactions; StoreInv, that transactions read snapshots;     *)
(* and ReadInv, that commits are serializable and SnapshotStore is         *)
(* implemented.                                                            *)
(***************************************************************************)
EXTENDS MvccTxn, FiniteSetTheorems, WellFoundedInduction, TLAPS

WritingPcs == {"writing", "freezing", "publishing"}

\* The watermark counts each open transaction at its read timestamp.
ReadersExact ==
    \A t \in Ts : readers[t] = Cardinality({c \in open : readTs[c] = t})

\* Every batch that has been started finds a timestamp left.
RoomLeft == ts + Cardinality(Writers) <= MaxTs

\* What holding each lock means in terms of the clients' positions.
LocksHeld ==
    /\ \A c \in Client : writeLock = c <=> pc[c] \in WritingPcs
    /\ \A c \in Client :
         commitLock = c <=> c \in open /\ pc[c] \in WritingPcs \cup {"batching", "recording"}

\* Where clients with and without a transaction can be.
Positions ==
    \A c \in Client :
        /\ c \in open => pc[c] # "idle"
        /\ c \notin open => pc[c] \in WritingPcs \cup {"idle", "batching"}
        /\ Serializable /\ c \notin open => pc[c] = "idle"
        /\ pc[c] = "recording" => Serializable

\* Timestamps taken by writers, and what they still have to insert.
BatchesFollow ==
    \A c \in Client :
        /\ readTs[c] <= ts
        /\ pc[c] \in WritingPcs => batchTs[c] = ts + 1
        /\ pc[c] = "recording" => /\ batchTs[c] = ts
                                  /\ ts > 0
                                  /\ log[ts] = local[c]
        /\ pc[c] = "writing" => pending[c] \subseteq WrittenBy(local[c])

Inv ==
    /\ TypeOK
    /\ ReadersExact
    /\ RoomLeft
    /\ LocksHeld
    /\ Positions
    /\ BatchesFollow

-----------------------------------------------------------------------------
(* Operators.                                                              *)

\* A non-empty set of naturals has a least element.
LEMMA MinExists ==
    ASSUME NEW S \in SUBSET Nat, S # {}
    PROVE  /\ Min(S) \in S
           /\ \A x \in S : Min(S) <= x
<1> DEFINE Less == {ss \in Nat \X Nat : ss[1] < ss[2]}
<1>1. IsWellFoundedOn(Less, Nat)
  BY NatLessThanWellFounded DEF OpToRel
<1>2. PICK m \in S : \A y \in S : ~ (<<y, m>> \in Less)
  BY <1>1, WFMin
<1>3. \A x \in S : m <= x
  <2> SUFFICES ASSUME NEW x \in S PROVE m <= x
    OBVIOUS
  <2>1. m \in Nat /\ x \in Nat
    BY <1>2
  <2>2. ~ (x < m)
    BY <1>2, <2>1
  <2> QED BY <2>1, <2>2
<1> QED BY <1>2, <1>3 DEF Min

\* A non-empty set of naturals with an upper bound has a greatest element.
LEMMA MaxExists ==
    ASSUME NEW S \in SUBSET Nat, S # {}, NEW n \in Nat, \A x \in S : x <= n
    PROVE  \E m \in S : \A x \in S : x <= m
<1> DEFINE D == {n - x : x \in S}
<1>1. D \in SUBSET Nat /\ D # {}
  <2>1. \A x \in S : n - x \in Nat
    OBVIOUS
  <2> QED BY <2>1
<1>2. Min(D) \in D /\ \A d \in D : Min(D) <= d
  BY <1>1, MinExists
<1>3. PICK m \in S : Min(D) = n - m
  BY <1>2
<1>4. \A x \in S : x <= m
  <2> SUFFICES ASSUME NEW x \in S PROVE x <= m
    OBVIOUS
  <2>1. n - m <= n - x
    BY <1>2, <1>3
  <2> QED BY <2>1
<1> QED BY <1>4

\* The watermark is a timestamp, and never above that of a registered reader.
LEMMA WatermarkBound ==
    ASSUME TypeOK
    PROVE  /\ Watermark \in Ts
           /\ \A t \in Ts : readers[t] > 0 => Watermark <= t
<1> DEFINE held == {t \in Ts : readers[t] > 0}
<1>1. held \in SUBSET Nat
  BY DEF Ts
<1>2. CASE held = {}
  BY <1>2 DEF Watermark, TypeOK
<1>3. CASE held # {}
  <2>1. Min(held) \in held /\ \A t \in held : Min(held) <= t
    BY <1>1, <1>3, MinExists
  <2>2. Watermark = Min(held)
    BY <1>3 DEF Watermark
  <2> QED BY <2>1, <2>2
<1> QED BY <1>2, <1>3

\* A read returns a value or the empty value.
LEMMA VisibleType ==
    ASSUME NEW S \in SUBSET Version, NEW k \in Key, NEW t \in Ts, MaxTs \in Nat
    PROVE  Visible(S, k, t) \in Value \cup {Empty}
<1> DEFINE candidates == {v \in S : v.key = k /\ v.ts <= t}
           stamps == {v.ts : v \in candidates}
<1>1. CASE candidates = {}
  BY <1>1 DEF Visible
<1>2. CASE candidates # {}
  <2>1. stamps \in SUBSET Nat /\ stamps # {}
    BY <1>2 DEF Version
  <2>2. \A x \in stamps : x <= t
    BY DEF Version
  <2>3. t \in Nat
    BY DEF Ts
  <2>4. PICK m \in stamps : \A x \in stamps : x <= m
    BY <2>1, <2>2, <2>3, MaxExists
  <2>5. \E v \in candidates : \A u \in candidates : u.ts <= v.ts
    BY <2>4
  <2>6. (CHOOSE v \in candidates : \A u \in candidates : u.ts <= v.ts) \in Version
    BY <2>5
  <2> QED BY <1>2, <2>6 DEF Visible, Version
<1> QED BY <1>1, <1>2

\* A compaction only drops versions.
LEMMA CompactedSubset ==
    ASSUME NEW S, NEW w
    PROVE  Compacted(S, w) \subseteq S
BY DEF Compacted, KeepOfKey

\* A reader of a state merges versions only.
LEMMA VersionsType ==
    ASSUME TypeOK, NEW s \in State, MaxTables \in Nat
    PROVE  Versions(s) \in SUBSET Version
<1>1. \A i \in s.oldest..s.mem : i \in TableId
  BY DEF State, TableId
<1>2. \A i \in s.oldest..s.mem : tables[i] \in SUBSET Version
  BY <1>1 DEF TypeOK
<1> QED BY <1>2 DEF Versions, State

-----------------------------------------------------------------------------
(* Initial states.                                                         *)

\* The invariant holds at the start.
LEMMA InitInv == Init => Inv
<1> SUFFICES ASSUME Init PROVE Inv
  OBVIOUS
<1> USE MvccTxnAssumption
<1>1. TypeOK
  BY DEF Init, TypeOK, Ts, TableId, State, Version, NoState, Idle, Batch,
         NoBatch, Unread
<1>2. ReadersExact
  <2>1. \A t \in Ts : {c \in open : readTs[c] = t} = {}
    BY DEF Init
  <2> QED BY <2>1, FS_EmptySet DEF Init, ReadersExact
<1>3. RoomLeft
  <2>1. Writers = {}
    BY DEF Init, Writers
  <2> QED BY <2>1, FS_EmptySet DEF Init, RoomLeft
<1>4. LocksHeld /\ Positions /\ BatchesFollow
  BY DEF Init, LocksHeld, Positions, BatchesFollow, WritingPcs, Ts
<1> QED BY <1>1, <1>2, <1>3, <1>4 DEF Inv


-----------------------------------------------------------------------------
(* Type correctness.                                                       *)

\* Freezing below the bound keeps the engine state well formed.
LEMMA FreezeType ==
    ASSUME NEW s \in State, s.mem < MaxTables, MaxTables \in Nat
    PROVE  [s EXCEPT !.mem = @ + 1] \in State
<1>1. s.mem + 1 \in TableId
  BY DEF State, TableId
<1> QED BY <1>1 DEF State

\* What the end of a write changes, on each of its paths.
LEMMA ReturnCases ==
    ASSUME NEW c \in Client, NEW ok \in BOOLEAN, ReturnFromWrite(c, ok)
    PROVE  /\ writeLock' = NoClient
           /\ pending' = [pending EXCEPT ![c] = {}]
           /\ \/ /\ c \in open /\ Serializable /\ ok
                 /\ pc' = [pc EXCEPT ![c] = "recording"]
                 /\ UNCHANGED <<commitLock, batchTs, local>>
              \/ /\ c \in open /\ ~(Serializable /\ ok)
                 /\ pc' = [pc EXCEPT ![c] = "finished"]
                 /\ commitLock' = NoClient
                 /\ batchTs' = [batchTs EXCEPT ![c] = 0]
                 /\ local' = local
              \/ /\ c \notin open
                 /\ pc' = [pc EXCEPT ![c] = "idle"]
                 /\ commitLock' = commitLock
                 /\ batchTs' = [batchTs EXCEPT ![c] = 0]
                 /\ local' = [local EXCEPT ![c] = NoBatch]
<1>1. CASE c \in open /\ Serializable /\ ok
  BY <1>1, Zenon DEF ReturnFromWrite, Goto
<1>2. CASE c \in open /\ ~(Serializable /\ ok)
  BY <1>2, Zenon DEF ReturnFromWrite, Goto
<1>3. CASE c \notin open
  BY <1>3, Zenon DEF ReturnFromWrite, Goto
<1> QED BY <1>1, <1>2, <1>3

\* Every step keeps the types.
LEMMA TypeStep == Inv /\ [Next]_vars => TypeOK'
<1> SUFFICES ASSUME Inv, [Next]_vars
             PROVE  TypeOK'
  OBVIOUS
<1> USE MvccTxnAssumption DEF Inv, mvccVars, storeVars, txnVars, stepVars, Goto
<1>0. TypeOK
  OBVIOUS
<1>1. ASSUME NEW c \in Client, NewTxn(c)
      PROVE  TypeOK'
  <2>1. readers' \in [Ts -> Nat]
    <3>1. ts \in Ts /\ readers[ts] + 1 \in Nat
      BY <1>0 DEF TypeOK
    <3> QED BY <1>0, <1>1, <3>1 DEF TypeOK, NewTxn
  <2>2. open' \subseteq Client /\ readTs' \in [Client -> Ts]
    BY <1>0, <1>1 DEF TypeOK, NewTxn
  <2> QED BY <1>0, <1>1, <2>1, <2>2 DEF TypeOK, NewTxn
<1>2. ASSUME NEW c \in Client, NEW k \in Key, NEW v \in Value, Put(c, k, v)
      PROVE  TypeOK'
  BY <1>0, <1>2 DEF TypeOK, Put, Batch, WrittenBy
<1>3. ASSUME NEW c \in Client, NEW k \in Key, Delete(c, k)
      PROVE  TypeOK'
  BY <1>0, <1>3 DEF TypeOK, Delete, Put, Batch, WrittenBy
<1>4. ASSUME NEW c \in Client, NEW k \in Key, GetLocal(c, k)
      PROVE  TypeOK'
  BY <1>0, <1>4 DEF TypeOK, GetLocal, TrackRead
<1>5. ASSUME NEW c \in Client, NEW k \in Key, GetStart(c, k)
      PROVE  TypeOK'
  BY <1>0, <1>5 DEF TypeOK, GetStart, TrackRead
<1>6. ASSUME NEW c \in Client, GetFinish(c)
      PROVE  TypeOK'
  <2>1. \A k \in Key : Visible(Versions(snapshot[c]), k, readTs[c]) \in Value \cup {Empty}
    <3>1. snapshot[c] \in State /\ readTs[c] \in Ts
      BY <1>0 DEF TypeOK
    <3>2. Versions(snapshot[c]) \in SUBSET Version
      BY <1>0, <3>1, VersionsType
    <3> QED BY <3>1, <3>2, VisibleType
  <2>2. seen' \in [Client -> [Key -> Value \cup {Empty, NotRead}]]
    <3>1. PICK k \in target[c] :
            seen' = [seen EXCEPT ![c][k] = Visible(Versions(snapshot[c]), k, readTs[c])]
      BY <1>6 DEF GetFinish
    <3>2. k \in Key
      BY <1>0, <3>1 DEF TypeOK
    <3> HIDE DEF Visible, Versions
    <3> QED BY <1>0, <2>1, <3>1, <3>2 DEF TypeOK
  <2>3. NoState \in State
    BY DEF NoState, State, TableId
  <2> QED BY <1>0, <1>6, <2>2, <2>3 DEF TypeOK, GetFinish
<1>7. ASSUME NEW c \in Client, Drop(c)
      PROVE  TypeOK'
  <2>1. readers[readTs[c]] > 0
    <3>1. IsFiniteSet({d \in open : readTs[d] = readTs[c]})
      BY <1>0, FS_Subset DEF TypeOK
    <3>2. Cardinality({d \in open : readTs[d] = readTs[c]}) # 0
      BY <1>7, <3>1, FS_EmptySet DEF Drop
    <3> QED BY <1>0, <1>7, <3>1, <3>2, FS_CardinalityType DEF TypeOK, ReadersExact
  <2>2. readers' \in [Ts -> Nat]
    <3>1. readTs[c] \in Ts /\ readers[readTs[c]] - 1 \in Nat
      BY <1>0, <2>1 DEF TypeOK
    <3> QED BY <1>0, <1>7, <3>1 DEF TypeOK, Drop
  <2>3. 0 \in Ts /\ NoBatch \in Batch /\ Unread \in [Key -> Value \cup {Empty, NotRead}]
    BY DEF Ts, NoBatch, Batch, Unread
  <2> QED BY <1>0, <1>7, <2>2, <2>3 DEF TypeOK, Drop
<1>8. ASSUME NEW c \in Client, Commit(c)
      PROVE  TypeOK'
  BY <1>0, <1>8 DEF TypeOK, Commit
<1>9. ASSUME NEW c \in Client, Validate(c)
      PROVE  TypeOK'
  BY <1>0, <1>9 DEF TypeOK, Validate
<1>10. ASSUME NEW c \in Client, Record(c)
      PROVE  TypeOK'
  <2>1. 0 \in Ts /\ batchTs[c] \in 1..MaxTs
    BY <1>0, <1>10 DEF TypeOK, Record, BatchesFollow, Ts
  <2>2. Hashes(WrittenBy(local[c])) \in SUBSET HashVal
    BY DEF Hashes, WrittenBy
  <2>3. committedTxns' \subseteq [ts : 1..MaxTs, hashes : SUBSET HashVal]
    BY <1>0, <1>10, <2>1, <2>2 DEF TypeOK, Record
  <2> QED BY <1>0, <1>10, <2>1, <2>3 DEF TypeOK, Record
<1>11. ASSUME NEW c \in Client, WriteBatch(c)
      PROVE  TypeOK'
  BY <1>0, <1>11 DEF TypeOK, WriteBatch
<1>12. ASSUME NEW c \in Client, StartBatch(c)
      PROVE  TypeOK'
  <2>1. 0 <= ts /\ ts < MaxTs
    <3>1. IsFiniteSet(Writers)
      BY FS_Subset DEF Writers
    <3>2. Cardinality(Writers) # 0
      BY <1>12, <3>1, FS_EmptySet DEF Writers, StartBatch
    <3> QED BY <1>0, <3>1, <3>2, FS_CardinalityType DEF TypeOK, Ts, RoomLeft
  <2>2. ts + 1 \in Ts
    BY <1>0, <2>1 DEF TypeOK, Ts
  <2>3. WrittenBy(local[c]) \in SUBSET Key
    BY DEF WrittenBy
  <2> QED BY <1>0, <1>12, <2>2, <2>3 DEF TypeOK, StartBatch
<1>13. ASSUME NEW c \in Client, NEW k \in Key, PutEntry(c, k)
      PROVE  TypeOK'
  <2>1. [key |-> k, ts |-> batchTs[c], val |-> local[c][k]] \in Version
    <3>1. batchTs[c] \in 1..MaxTs
      BY <1>0, <1>13 DEF TypeOK, PutEntry, BatchesFollow, WritingPcs, Ts
    <3>2. local[c][k] \in Value \cup {Empty}
      BY <1>0, <1>13 DEF TypeOK, PutEntry, BatchesFollow, WrittenBy, Batch
    <3> QED BY <3>1, <3>2 DEF Version
  <2>2. state.mem \in TableId
    BY <1>0 DEF TypeOK, State
  <2>3. tables' \in [TableId -> SUBSET Version]
    BY <1>0, <1>13, <2>1, <2>2 DEF TypeOK, PutEntry
  <2>4. pending' \in [Client -> SUBSET Key]
    BY <1>0, <1>13 DEF TypeOK, PutEntry
  <2> QED BY <1>0, <1>13, <2>3, <2>4 DEF TypeOK, PutEntry
<1>14. ASSUME NEW c \in Client, TryFreeze(c)
      PROVE  TypeOK'
  <2>1. state' \in State /\ UNCHANGED <<tables, compaction>>
    BY <1>0, <1>14, FreezeType DEF TypeOK, TryFreeze, FreezeMemtable
  <2> QED BY <1>0, <1>14, <2>1 DEF TypeOK, TryFreeze
<1>15. ASSUME NEW c \in Client, Publish(c)
      PROVE  TypeOK'
  <2>1. 0 \in Ts /\ NoBatch \in Batch
    BY DEF Ts, NoBatch, Batch
  <2>2. log' \in [1..MaxTs -> Batch]
    BY <1>0, <1>15 DEF TypeOK, Publish
  <2>3. ReturnFromWrite(c, TRUE)
    BY <1>15 DEF Publish
  <2>4. /\ writeLock' \in Client \cup {NoClient}
        /\ commitLock' \in Client \cup {NoClient}
        /\ pending' \in [Client -> SUBSET Key]
    BY <1>0, <2>3, ReturnCases DEF TypeOK
  <2>5. /\ batchTs' \in [Client -> Ts] /\ local' \in [Client -> Batch]
        /\ pc' \in [Client -> {"idle", "active", "reading", "locking", "batching",
                             "writing", "freezing", "publishing", "recording",
                             "finished"}]
    <3>1. /\ batchTs' = batchTs \/ batchTs' = [batchTs EXCEPT ![c] = 0]
          /\ local' = local \/ local' = [local EXCEPT ![c] = NoBatch]
      BY <2>3, ReturnCases
    <3>2. \E l \in {"recording", "finished", "idle"} : pc' = [pc EXCEPT ![c] = l]
      BY <2>3, ReturnCases
    <3>3. batchTs' \in [Client -> Ts]
      <4>1. CASE batchTs' = batchTs
        BY <1>0, <4>1 DEF TypeOK
      <4>2. CASE batchTs' = [batchTs EXCEPT ![c] = 0]
        BY <1>0, <2>1, <4>2 DEF TypeOK
      <4> QED BY <3>1, <4>1, <4>2
    <3>4. local' \in [Client -> Batch]
      <4>1. CASE local' = local
        BY <1>0, <4>1 DEF TypeOK
      <4>2. CASE local' = [local EXCEPT ![c] = NoBatch]
        BY <1>0, <2>1, <4>2 DEF TypeOK
      <4> QED BY <3>1, <4>1, <4>2
    <3> QED BY <1>0, <3>2, <3>3, <3>4 DEF TypeOK
  <2>6. ts' \in Ts
    BY <1>0, <1>15 DEF TypeOK, Publish
  <2> QED BY <1>0, <1>15, <2>2, <2>4, <2>5, <2>6 DEF TypeOK, Publish
<1>16. ASSUME NEW c \in Client, FailWrite(c)
      PROVE  TypeOK'
  <2>1. 0 \in Ts /\ NoBatch \in Batch
    BY DEF Ts, NoBatch, Batch
  <2>2. errors' \in 0..MaxWriteErrors
    BY <1>0, <1>16 DEF TypeOK, FailWrite
  <2>3. ReturnFromWrite(c, FALSE)
    BY <1>16 DEF FailWrite
  <2>4. /\ writeLock' \in Client \cup {NoClient}
        /\ commitLock' \in Client \cup {NoClient}
        /\ pending' \in [Client -> SUBSET Key]
    BY <1>0, <2>3, ReturnCases DEF TypeOK
  <2>5. /\ batchTs' \in [Client -> Ts] /\ local' \in [Client -> Batch]
        /\ pc' \in [Client -> {"idle", "active", "reading", "locking", "batching",
                             "writing", "freezing", "publishing", "recording",
                             "finished"}]
    <3>1. /\ batchTs' = batchTs \/ batchTs' = [batchTs EXCEPT ![c] = 0]
          /\ local' = local \/ local' = [local EXCEPT ![c] = NoBatch]
      BY <2>3, ReturnCases
    <3>2. \E l \in {"recording", "finished", "idle"} : pc' = [pc EXCEPT ![c] = l]
      BY <2>3, ReturnCases
    <3>3. batchTs' \in [Client -> Ts]
      <4>1. CASE batchTs' = batchTs
        BY <1>0, <4>1 DEF TypeOK
      <4>2. CASE batchTs' = [batchTs EXCEPT ![c] = 0]
        BY <1>0, <2>1, <4>2 DEF TypeOK
      <4> QED BY <3>1, <4>1, <4>2
    <3>4. local' \in [Client -> Batch]
      <4>1. CASE local' = local
        BY <1>0, <4>1 DEF TypeOK
      <4>2. CASE local' = [local EXCEPT ![c] = NoBatch]
        BY <1>0, <2>1, <4>2 DEF TypeOK
      <4> QED BY <3>1, <4>1, <4>2
    <3> QED BY <1>0, <3>2, <3>3, <3>4 DEF TypeOK
  <2>6. ts' \in Ts
    BY <1>0, <1>16 DEF TypeOK, FailWrite
  <2> QED BY <1>0, <1>16, <2>2, <2>4, <2>5, <2>6 DEF TypeOK, FailWrite
<1>17. CASE ForceFreeze
  <2>1. state' \in State
    BY <1>0, <1>17, FreezeType DEF TypeOK, ForceFreeze, FreezeMemtable
  <2> QED BY <1>0, <1>17, <2>1 DEF TypeOK, ForceFreeze, FreezeMemtable
<1>18. CASE Flush
  <2>1. /\ state.oldest \in TableId /\ state.mem \in TableId
        /\ state.sst \subseteq Version
    BY <1>0 DEF TypeOK, State
  <2>5. tables \in [TableId -> SUBSET Version]
    BY <1>0 DEF TypeOK
  <2>6. state.oldest < state.mem
    BY <1>18 DEF Flush
  <2>2. state.oldest + 1 \in TableId /\ tables[state.oldest] \subseteq Version
    BY <2>1, <2>5, <2>6 DEF TableId
  <2>3. state' \in State
    BY <1>0, <1>18, <2>1, <2>2 DEF TypeOK, Flush, State
  <2> QED BY <1>0, <1>18, <2>3 DEF TypeOK, Flush
<1>19. CASE CompactStart
  BY <1>0, <1>19 DEF TypeOK, CompactStart, State
<1>20. CASE CompactMerge
  BY <1>0, <1>20, CompactedSubset DEF TypeOK, CompactMerge, Idle
<1>21. CASE CompactInstall
  BY <1>0, <1>21 DEF TypeOK, CompactInstall, State, Idle
<1>22. CASE UNCHANGED vars
  BY <1>0, <1>22 DEF TypeOK, vars
<1> QED
  BY <1>1, <1>2, <1>3, <1>4, <1>5, <1>6, <1>7, <1>8, <1>9, <1>10, <1>11, <1>12, <1>13, <1>14, <1>15, <1>16, <1>17, <1>18, <1>19, <1>20, <1>21, <1>22 DEF Next, TxnStep, WriteStep, EngineStep


-----------------------------------------------------------------------------
(* The watermark, the bound on batches, and the locks.                     *)

\* The steps that neither begin nor drop a transaction.
LEMMA ReadersFrame ==
    ASSUME [Next]_vars,
           \A c \in Client : ~NewTxn(c) /\ ~Drop(c)
    PROVE  UNCHANGED <<readers, open, readTs>>
<1> USE DEF mvccVars, storeVars, txnVars, stepVars
<1>1. ASSUME NEW c \in Client, TxnStep(c)
      PROVE  UNCHANGED <<readers, open, readTs>>
  BY <1>1 DEF TxnStep, Put, Delete, GetLocal, GetStart, GetFinish, Commit,
              Validate, Record
<1>2. ASSUME NEW c \in Client, WriteStep(c)
      PROVE  UNCHANGED <<readers, open, readTs>>
  BY <1>2 DEF WriteStep, WriteBatch, StartBatch, PutEntry, TryFreeze, Publish, FailWrite
<1>3. CASE EngineStep
  BY <1>3 DEF EngineStep, ForceFreeze, Flush, CompactStart, CompactMerge, CompactInstall
<1>4. CASE UNCHANGED vars
  BY <1>4 DEF vars
<1> QED BY <1>1, <1>2, <1>3, <1>4 DEF Next

\* Every step keeps the reader counts exact.
LEMMA ReadersStep == Inv /\ [Next]_vars => ReadersExact'
<1> SUFFICES ASSUME Inv, [Next]_vars
             PROVE  ReadersExact'
  OBVIOUS
<1> USE MvccTxnAssumption
<1> DEFINE At(t) == {c \in open : readTs[c] = t}
<1>0. TypeOK /\ ReadersExact /\ Positions
  BY DEF Inv
<1>1. \A t \in Ts : IsFiniteSet(At(t))
  BY <1>0, FS_Subset DEF TypeOK
<1>2. ASSUME NEW c \in Client, NewTxn(c)
      PROVE  ReadersExact'
  <2>1. c \notin open /\ ts \in Ts
    BY <1>0, <1>2 DEF NewTxn, Positions, TypeOK
  <2>2. ASSUME NEW t \in Ts
        PROVE  readers'[t] = Cardinality(At(t)')
    <3>1. CASE t = ts
      <4>1. At(t)' = At(t) \cup {c} /\ c \notin At(t)
        BY <1>0, <1>2, <2>1, <3>1 DEF NewTxn, TypeOK
      <4>2. readers'[t] = readers[t] + 1
        BY <1>0, <1>2, <2>1, <3>1 DEF NewTxn, TypeOK
      <4>3. Cardinality(At(t) \cup {c}) = Cardinality(At(t)) + 1
        BY <1>1, <4>1, FS_AddElement
      <4>4. readers[t] = Cardinality(At(t))
        BY <1>0 DEF ReadersExact
      <4> HIDE DEF At
      <4> QED BY <4>1, <4>2, <4>3, <4>4
    <3>2. CASE t # ts
      <4>1. At(t)' = At(t)
        BY <1>0, <1>2, <2>1, <3>2 DEF NewTxn, TypeOK
      <4>2. readers'[t] = readers[t]
        BY <1>0, <1>2, <2>1, <3>2 DEF NewTxn, TypeOK
      <4> QED BY <1>0, <4>1, <4>2 DEF ReadersExact
    <3> QED BY <3>1, <3>2
  <2> QED BY <2>2 DEF ReadersExact
<1>3. ASSUME NEW c \in Client, Drop(c)
      PROVE  ReadersExact'
  <2>1. c \in open /\ readTs[c] \in Ts
    BY <1>0, <1>3 DEF Drop, TypeOK
  <2>2. ASSUME NEW t \in Ts
        PROVE  readers'[t] = Cardinality(At(t)')
    <3>1. CASE t = readTs[c]
      <4>1. At(t)' = At(t) \ {c} /\ c \in At(t)
        BY <1>0, <1>3, <2>1, <3>1 DEF Drop, TypeOK
      <4>2. readers'[t] = readers[t] - 1
        BY <1>0, <1>3, <2>1, <3>1 DEF Drop, TypeOK
      <4>3. Cardinality(At(t) \ {c}) = Cardinality(At(t)) - 1
        BY <1>1, <4>1, FS_RemoveElement
      <4>4. readers[t] = Cardinality(At(t))
        BY <1>0 DEF ReadersExact
      <4> HIDE DEF At
      <4> QED BY <4>1, <4>2, <4>3, <4>4
    <3>2. CASE t # readTs[c]
      <4>1. At(t)' = At(t)
        BY <1>0, <1>3, <2>1, <3>2 DEF Drop, TypeOK
      <4>2. readers'[t] = readers[t]
        BY <1>0, <1>3, <2>1, <3>2 DEF Drop, TypeOK
      <4> QED BY <1>0, <4>1, <4>2 DEF ReadersExact
    <3> QED BY <3>1, <3>2
  <2> QED BY <2>2 DEF ReadersExact
<1>4. CASE \A c \in Client : ~NewTxn(c) /\ ~Drop(c)
  BY <1>0, <1>4, ReadersFrame DEF ReadersExact
<1> QED BY <1>2, <1>3, <1>4

\* Starting a batch takes a timestamp off those left, and ending one either
\* publishes it or gives it back.
LEMMA RoomStep == Inv /\ [Next]_vars => RoomLeft'
<1> SUFFICES ASSUME Inv, [Next]_vars
             PROVE  RoomLeft'
  OBVIOUS
<1> USE MvccTxnAssumption DEF mvccVars, storeVars, txnVars, stepVars, Goto
<1>0. TypeOK /\ RoomLeft /\ Positions /\ BatchesFollow
  BY DEF Inv
<1>1. /\ IsFiniteSet(Writers)
      /\ Cardinality(Writers) \in Nat
      /\ ts \in Nat
  BY <1>0, FS_Subset, FS_CardinalityType DEF Writers, TypeOK, Ts
<1>2. ASSUME NEW c \in Client, ts' = ts, Writers' = Writers \cup {c}, RoomToWrite
      PROVE  RoomLeft'
  <2>1. /\ Cardinality(Writers') \in Nat
        /\ Cardinality(Writers') <= Cardinality(Writers) + 1
    <3> DEFINE n == Cardinality(Writers)
    <3>1. Cardinality(Writers') = IF c \in Writers THEN n ELSE n + 1
      BY <1>1, <1>2, FS_AddElement
    <3>2. n \in Nat
      BY <1>1
    <3> QED BY <3>1, <3>2
  <2>2. ts' + (Cardinality(Writers) + 1) <= MaxTs
    BY <1>1, <1>2 DEF RoomToWrite
  <2>3. MaxTs \in Nat /\ ts' \in Nat
    BY <1>1, <1>2
  <2> HIDE MvccTxnAssumption
  <2> QED BY <1>1, <2>1, <2>2, <2>3 DEF RoomLeft
<1>3. ASSUME NEW c \in Writers, ts' = ts \/ ts' = ts + 1, Writers' = Writers \ {c}
      PROVE  RoomLeft'
  <2>1. Cardinality(Writers') = Cardinality(Writers) - 1
    BY <1>1, <1>3, FS_RemoveElement
  <2>2. ts' + (Cardinality(Writers) - 1) <= MaxTs
    BY <1>0, <1>1, <1>3 DEF RoomLeft
  <2> QED BY <2>1, <2>2 DEF RoomLeft
<1>4. ASSUME ts' = ts, Writers' = Writers
      PROVE  RoomLeft'
  BY <1>0, <1>4 DEF RoomLeft
<1>5. ASSUME NEW c \in Client, Commit(c) \/ WriteBatch(c)
      PROVE  RoomLeft'
  <2>1. Writers' = Writers \cup {c}
    BY <1>0, <1>5 DEF Commit, WriteBatch, Writers, TypeOK
  <2> QED BY <1>2, <1>5, <2>1 DEF Commit, WriteBatch
<1>6. ASSUME NEW c \in Client, Publish(c) \/ FailWrite(c)
      PROVE  RoomLeft'
  <2>1. \E l \in {"recording", "finished", "idle"} : pc' = [pc EXCEPT ![c] = l]
    BY <1>6, ReturnCases DEF Publish, FailWrite
  <2>2. c \in Writers /\ Writers' = Writers \ {c}
    BY <1>0, <1>6, <2>1 DEF Publish, FailWrite, Writers, TypeOK
  <2>3. ts' = ts \/ ts' = ts + 1
    BY <1>0, <1>6 DEF Publish, FailWrite, BatchesFollow, WritingPcs
  <2> QED BY <1>3, <2>2, <2>3
<1>7. ASSUME NEW c \in Client, Validate(c)
      PROVE  RoomLeft'
  <2>1. ts' = ts /\ c \in Writers
    BY <1>7 DEF Validate, Writers
  <2>2. CASE pc' = [pc EXCEPT ![c] = "finished"]
    <3>1. Writers' = Writers \ {c}
      BY <1>0, <2>2 DEF Writers, TypeOK
    <3> QED BY <1>3, <2>1, <3>1
  <2>3. CASE pc' = [pc EXCEPT ![c] = "batching"]
    <3>1. Writers' = Writers
      BY <1>0, <1>7, <2>3 DEF Validate, Writers, TypeOK
    <3> QED BY <1>4, <2>1, <3>1
  <2> QED BY <1>7, <2>2, <2>3 DEF Validate
<1>8. ASSUME NEW c \in Client, TxnStep(c),
             ~Commit(c), ~Validate(c)
      PROVE  RoomLeft'
  <2>1. ts' = ts /\ Writers' = Writers
    BY <1>0, <1>8 DEF TxnStep, NewTxn, Put, Delete, GetLocal, GetStart, GetFinish,
                      Drop, Record, Writers, TypeOK
  <2> QED BY <1>4, <2>1
<1>9. ASSUME NEW c \in Client, StartBatch(c) \/ (\E k \in Key : PutEntry(c, k)) \/ TryFreeze(c)
      PROVE  RoomLeft'
  <2>1. ts' = ts /\ Writers' = Writers
    BY <1>0, <1>9 DEF StartBatch, PutEntry, TryFreeze, Writers, TypeOK
  <2> QED BY <1>4, <2>1
<1>10. ASSUME EngineStep \/ UNCHANGED vars
       PROVE  RoomLeft'
  <2>1. ts' = ts /\ pc' = pc
    BY <1>10 DEF EngineStep, ForceFreeze, Flush, CompactStart, CompactMerge,
                 CompactInstall, vars
  <2>2. Writers' = Writers
    BY <2>1 DEF Writers
  <2> QED BY <1>4, <2>1, <2>2
<1> QED BY <1>5, <1>6, <1>7, <1>8, <1>9, <1>10 DEF Next, WriteStep

\* The end of a write leaves the locks and the clients' positions in order.
LEMMA ReturnStep ==
    ASSUME Inv, NEW c \in Client, NEW ok \in BOOLEAN, pc[c] \in WritingPcs,
           ReturnFromWrite(c, ok), open' = open
    PROVE  LocksHeld' /\ Positions'
<1> USE MvccTxnAssumption
<1>0. TypeOK /\ LocksHeld /\ Positions
  BY DEF Inv
<1>1. writeLock = c /\ writeLock' = NoClient
  BY <1>0, ReturnCases DEF LocksHeld
<1>2. CASE c \in open /\ Serializable /\ ok
  <2>1. pc' = [pc EXCEPT ![c] = "recording"] /\ commitLock' = commitLock
    BY <1>2, ReturnCases
  <2>2. LocksHeld'
    BY <1>0, <1>1, <1>2, <2>1 DEF TypeOK, LocksHeld, WritingPcs
  <2>3. Positions'
    BY <1>0, <1>2, <2>1 DEF TypeOK, Positions, WritingPcs
  <2> QED BY <2>2, <2>3
<1>3. CASE c \in open /\ ~(Serializable /\ ok)
  <2>1. pc' = [pc EXCEPT ![c] = "finished"] /\ commitLock' = NoClient
    BY <1>3, ReturnCases
  <2>2. commitLock = c
    BY <1>0, <1>3 DEF LocksHeld
  <2>3. LocksHeld'
    BY <1>0, <1>1, <1>3, <2>1, <2>2 DEF TypeOK, LocksHeld, WritingPcs
  <2>4. Positions'
    BY <1>0, <1>3, <2>1 DEF TypeOK, Positions, WritingPcs
  <2> QED BY <2>3, <2>4
<1>4. CASE c \notin open
  <2>1. pc' = [pc EXCEPT ![c] = "idle"] /\ commitLock' = commitLock
    BY <1>4, ReturnCases
  <2>2. LocksHeld'
    BY <1>0, <1>1, <1>4, <2>1 DEF TypeOK, LocksHeld, WritingPcs
  <2>3. Positions'
    BY <1>0, <1>4, <2>1 DEF TypeOK, Positions, WritingPcs
  <2> QED BY <2>2, <2>3
<1> QED BY <1>2, <1>3, <1>4

\* Each lock has at most one owner, and the owner is where the lock is held.
LEMMA LocksStep == Inv /\ [Next]_vars => LocksHeld'
<1> SUFFICES ASSUME Inv, [Next]_vars
             PROVE  LocksHeld'
  OBVIOUS
<1> USE MvccTxnAssumption DEF mvccVars, storeVars, txnVars, stepVars, Goto
<1>0. TypeOK /\ LocksHeld /\ Positions
  BY DEF Inv
<1>1. ASSUME NEW c \in Client, NewTxn(c)
      PROVE  LocksHeld'
  BY <1>0, <1>1 DEF TypeOK, LocksHeld, NewTxn, WritingPcs, Positions
<1>2. ASSUME NEW c \in Client, NEW k \in Key, NEW v \in Value, Put(c, k, v)
      PROVE  LocksHeld'
  BY <1>0, <1>2 DEF TypeOK, LocksHeld, Put, WritingPcs, Positions
<1>3. ASSUME NEW c \in Client, NEW k \in Key, Delete(c, k)
      PROVE  LocksHeld'
  BY <1>0, <1>3 DEF TypeOK, LocksHeld, Delete, Put, WritingPcs, Positions
<1>4. ASSUME NEW c \in Client, NEW k \in Key, GetLocal(c, k)
      PROVE  LocksHeld'
  BY <1>0, <1>4 DEF TypeOK, LocksHeld, GetLocal, WritingPcs, Positions
<1>5. ASSUME NEW c \in Client, NEW k \in Key, GetStart(c, k)
      PROVE  LocksHeld'
  BY <1>0, <1>5 DEF TypeOK, LocksHeld, GetStart, WritingPcs, Positions
<1>6. ASSUME NEW c \in Client, GetFinish(c)
      PROVE  LocksHeld'
  BY <1>0, <1>6 DEF TypeOK, LocksHeld, GetFinish, WritingPcs, Positions
<1>7. ASSUME NEW c \in Client, Drop(c)
      PROVE  LocksHeld'
  BY <1>0, <1>7 DEF TypeOK, LocksHeld, Drop, WritingPcs, Positions
<1>8. ASSUME NEW c \in Client, Commit(c)
      PROVE  LocksHeld'
  BY <1>0, <1>8 DEF TypeOK, LocksHeld, Commit, WritingPcs, Positions
<1>9. ASSUME NEW c \in Client, Validate(c)
      PROVE  LocksHeld'
  <2>1. pc[c] = "locking" /\ commitLock = NoClient /\ c \in open
    BY <1>0, <1>9 DEF Validate, Positions, WritingPcs
  <2>2. CASE Conflict(c)
    <3>1. pc' = [pc EXCEPT ![c] = "finished"] /\ commitLock' = commitLock
      BY <1>9, <2>2 DEF Validate
    <3> QED BY <1>0, <1>9, <2>1, <3>1 DEF TypeOK, LocksHeld, Validate, WritingPcs
  <2>3. CASE ~Conflict(c)
    <3>1. pc' = [pc EXCEPT ![c] = "batching"] /\ commitLock' = c
      BY <1>9, <2>3 DEF Validate
    <3> QED BY <1>0, <1>9, <2>1, <3>1 DEF TypeOK, LocksHeld, Validate, WritingPcs
  <2> QED BY <2>2, <2>3
<1>10. ASSUME NEW c \in Client, Record(c)
      PROVE  LocksHeld'
  BY <1>0, <1>10 DEF TypeOK, LocksHeld, Record, WritingPcs, Positions
<1>11. ASSUME NEW c \in Client, WriteBatch(c)
      PROVE  LocksHeld'
  BY <1>0, <1>11 DEF TypeOK, LocksHeld, WriteBatch, WritingPcs, Positions
<1>12. ASSUME NEW c \in Client, StartBatch(c)
      PROVE  LocksHeld'
  BY <1>0, <1>12 DEF TypeOK, LocksHeld, StartBatch, WritingPcs, Positions
<1>13. ASSUME NEW c \in Client, NEW k \in Key, PutEntry(c, k)
      PROVE  LocksHeld'
  BY <1>0, <1>13 DEF TypeOK, LocksHeld, PutEntry, WritingPcs, Positions
<1>14. ASSUME NEW c \in Client, TryFreeze(c)
      PROVE  LocksHeld'
  BY <1>0, <1>14 DEF TypeOK, LocksHeld, TryFreeze, WritingPcs, Positions
<1>15. ASSUME NEW c \in Client, Publish(c)
      PROVE  LocksHeld'
  BY <1>15, ReturnStep DEF Publish, WritingPcs
<1>16. ASSUME NEW c \in Client, FailWrite(c)
      PROVE  LocksHeld'
  BY <1>16, ReturnStep DEF FailWrite, WritingPcs
<1>17. ASSUME EngineStep \/ UNCHANGED vars
      PROVE  LocksHeld'
  BY <1>0, <1>17 DEF LocksHeld, EngineStep, ForceFreeze, Flush, CompactStart,
                   CompactMerge, CompactInstall, vars
<1> QED
  BY <1>1, <1>2, <1>3, <1>4, <1>5, <1>6, <1>7, <1>8, <1>9, <1>10, <1>11, <1>12, <1>13, <1>14, <1>15, <1>16, <1>17
  DEF Next, TxnStep, WriteStep

\* A transaction object lives exactly while its client is at work with it.
LEMMA PositionsStep == Inv /\ [Next]_vars => Positions'
<1> SUFFICES ASSUME Inv, [Next]_vars
             PROVE  Positions'
  OBVIOUS
<1> USE MvccTxnAssumption DEF mvccVars, storeVars, txnVars, stepVars, Goto
<1>0. TypeOK /\ LocksHeld /\ Positions
  BY DEF Inv
<1>1. ASSUME NEW c \in Client, NewTxn(c)
      PROVE  Positions'
  BY <1>0, <1>1 DEF TypeOK, Positions, NewTxn, WritingPcs
<1>2. ASSUME NEW c \in Client, NEW k \in Key, NEW v \in Value, Put(c, k, v)
      PROVE  Positions'
  BY <1>0, <1>2 DEF TypeOK, Positions, Put
<1>3. ASSUME NEW c \in Client, NEW k \in Key, Delete(c, k)
      PROVE  Positions'
  BY <1>0, <1>3 DEF TypeOK, Positions, Delete, Put
<1>4. ASSUME NEW c \in Client, NEW k \in Key, GetLocal(c, k)
      PROVE  Positions'
  BY <1>0, <1>4 DEF TypeOK, Positions, GetLocal
<1>5. ASSUME NEW c \in Client, NEW k \in Key, GetStart(c, k)
      PROVE  Positions'
  BY <1>0, <1>5 DEF TypeOK, Positions, GetStart, WritingPcs
<1>6. ASSUME NEW c \in Client, GetFinish(c)
      PROVE  Positions'
  BY <1>0, <1>6 DEF TypeOK, Positions, GetFinish, WritingPcs
<1>7. ASSUME NEW c \in Client, Drop(c)
      PROVE  Positions'
  BY <1>0, <1>7 DEF TypeOK, Positions, Drop, WritingPcs
<1>8. ASSUME NEW c \in Client, Commit(c)
      PROVE  Positions'
  BY <1>0, <1>8 DEF TypeOK, Positions, Commit, WritingPcs
<1>9. ASSUME NEW c \in Client, Validate(c)
      PROVE  Positions'
  BY <1>0, <1>9 DEF TypeOK, Positions, Validate, WritingPcs
<1>10. ASSUME NEW c \in Client, Record(c)
      PROVE  Positions'
  BY <1>0, <1>10 DEF TypeOK, Positions, Record, WritingPcs
<1>11. ASSUME NEW c \in Client, WriteBatch(c)
      PROVE  Positions'
  BY <1>0, <1>11 DEF TypeOK, Positions, WriteBatch, WritingPcs
<1>12. ASSUME NEW c \in Client, StartBatch(c)
      PROVE  Positions'
  BY <1>0, <1>12 DEF TypeOK, Positions, StartBatch, WritingPcs
<1>13. ASSUME NEW c \in Client, NEW k \in Key, PutEntry(c, k)
      PROVE  Positions'
  BY <1>0, <1>13 DEF TypeOK, Positions, PutEntry, WritingPcs
<1>14. ASSUME NEW c \in Client, TryFreeze(c)
      PROVE  Positions'
  BY <1>0, <1>14 DEF TypeOK, Positions, TryFreeze, WritingPcs
<1>15. ASSUME NEW c \in Client, Publish(c)
      PROVE  Positions'
  BY <1>15, ReturnStep DEF Publish, WritingPcs
<1>16. ASSUME NEW c \in Client, FailWrite(c)
      PROVE  Positions'
  BY <1>16, ReturnStep DEF FailWrite, WritingPcs
<1>17. ASSUME EngineStep \/ UNCHANGED vars
      PROVE  Positions'
  BY <1>0, <1>17 DEF Positions, EngineStep, ForceFreeze, Flush, CompactStart,
                   CompactMerge, CompactInstall, vars
<1> QED
  BY <1>1, <1>2, <1>3, <1>4, <1>5, <1>6, <1>7, <1>8, <1>9, <1>10, <1>11, <1>12, <1>13, <1>14, <1>15, <1>16, <1>17
  DEF Next, TxnStep, WriteStep

\* The owner of write_lock works at the timestamp after the published one.
LEMMA BatchesStep == Inv /\ [Next]_vars => BatchesFollow'
<1> SUFFICES ASSUME Inv, [Next]_vars
             PROVE  BatchesFollow'
  OBVIOUS
<1> USE MvccTxnAssumption DEF mvccVars, storeVars, txnVars, stepVars, Goto
<1>0. TypeOK /\ LocksHeld /\ Positions /\ BatchesFollow
  BY DEF Inv
<1>t. /\ ts \in Nat
      /\ pc \in [Client -> {"idle", "active", "reading", "locking", "batching",
                            "writing", "freezing", "publishing", "recording",
                            "finished"}]
      /\ readTs \in [Client -> Ts]
      /\ batchTs \in [Client -> Ts]
      /\ local \in [Client -> Batch]
      /\ pending \in [Client -> SUBSET Key]
      /\ log \in [1..MaxTs -> Batch]
  BY <1>0 DEF TypeOK, Ts
<1>1. ASSUME NEW c \in Client, NewTxn(c)
      PROVE  BatchesFollow'
  BY <1>0, <1>t, <1>1 DEF BatchesFollow, NewTxn, WritingPcs, LocksHeld, WrittenBy, Ts
<1>2. ASSUME NEW c \in Client, NEW k \in Key, NEW v \in Value, Put(c, k, v)
      PROVE  BatchesFollow'
  BY <1>0, <1>t, <1>2 DEF BatchesFollow, Put, WritingPcs, LocksHeld, WrittenBy, Ts
<1>3. ASSUME NEW c \in Client, NEW k \in Key, Delete(c, k)
      PROVE  BatchesFollow'
  BY <1>0, <1>t, <1>3 DEF BatchesFollow, Delete, Put, WritingPcs, LocksHeld, WrittenBy, Ts
<1>4. ASSUME NEW c \in Client, NEW k \in Key, GetLocal(c, k)
      PROVE  BatchesFollow'
  BY <1>0, <1>t, <1>4 DEF BatchesFollow, GetLocal
<1>5. ASSUME NEW c \in Client, NEW k \in Key, GetStart(c, k)
      PROVE  BatchesFollow'
  BY <1>0, <1>t, <1>5 DEF BatchesFollow, GetStart, WritingPcs, LocksHeld, WrittenBy, Ts
<1>6. ASSUME NEW c \in Client, GetFinish(c)
      PROVE  BatchesFollow'
  BY <1>0, <1>t, <1>6 DEF BatchesFollow, GetFinish, WritingPcs, LocksHeld, WrittenBy, Ts
<1>7. ASSUME NEW c \in Client, Drop(c)
      PROVE  BatchesFollow'
  BY <1>0, <1>t, <1>7 DEF BatchesFollow, Drop, WritingPcs, LocksHeld, WrittenBy, Ts
<1>8. ASSUME NEW c \in Client, Commit(c)
      PROVE  BatchesFollow'
  BY <1>0, <1>t, <1>8 DEF BatchesFollow, Commit, WritingPcs, LocksHeld, WrittenBy, Ts
<1>9. ASSUME NEW c \in Client, Validate(c)
      PROVE  BatchesFollow'
  BY <1>0, <1>t, <1>9 DEF BatchesFollow, Validate, WritingPcs, LocksHeld, WrittenBy, Ts
<1>10. ASSUME NEW c \in Client, Record(c)
      PROVE  BatchesFollow'
  BY <1>0, <1>t, <1>10 DEF BatchesFollow, Record, WritingPcs, LocksHeld, WrittenBy, Ts
<1>11. ASSUME NEW c \in Client, WriteBatch(c)
      PROVE  BatchesFollow'
  BY <1>0, <1>t, <1>11 DEF BatchesFollow, WriteBatch, WritingPcs, LocksHeld, WrittenBy, Ts
<1>12. ASSUME NEW c \in Client, StartBatch(c)
      PROVE  BatchesFollow'
  BY <1>0, <1>t, <1>12 DEF BatchesFollow, StartBatch, WritingPcs, LocksHeld, WrittenBy, Ts
<1>13. ASSUME NEW c \in Client, NEW k \in Key, PutEntry(c, k)
      PROVE  BatchesFollow'
  BY <1>0, <1>t, <1>13 DEF BatchesFollow, PutEntry, WritingPcs, LocksHeld, WrittenBy, Ts
<1>14. ASSUME NEW c \in Client, TryFreeze(c)
      PROVE  BatchesFollow'
  BY <1>0, <1>t, <1>14 DEF BatchesFollow, TryFreeze, WritingPcs, LocksHeld, WrittenBy, Ts
<1>15. ASSUME NEW c \in Client, Publish(c)
      PROVE  BatchesFollow'
  <2>1. \A d \in Client : d # c =>
          /\ pc[d] \notin WritingPcs
          /\ pc[d] # "recording"
    <3>1. \A d \in Client : d # c => pc[d] \notin WritingPcs
      BY <1>0, <1>15 DEF LocksHeld, Publish, WritingPcs
    <3>2. ASSUME NEW d \in Client, d # c, pc[d] = "recording"
          PROVE  FALSE
      <4>1. commitLock = d /\ Serializable
        BY <1>0, <3>2 DEF LocksHeld, Positions, WritingPcs
      <4>2. c \in open
        BY <1>0, <1>15, <4>1 DEF Positions, Publish
      <4>3. commitLock = c
        BY <1>0, <1>15, <4>2 DEF LocksHeld, Publish, WritingPcs
      <4> QED BY <3>2, <4>1, <4>3
    <3> QED BY <3>1, <3>2
  <2>2. batchTs[c] = ts + 1 /\ batchTs[c] \in Ts /\ ts \in Ts
    BY <1>0, <1>15 DEF TypeOK, Publish, BatchesFollow, WritingPcs
  <2>3. /\ ts' = batchTs[c]
        /\ log' = [log EXCEPT ![batchTs[c]] = local[c]]
        /\ readTs' = readTs
        /\ ReturnFromWrite(c, TRUE)
    BY <1>15 DEF Publish
  <2>4. \A d \in Client : readTs'[d] <= ts'
    <3>1. \A d \in Client : readTs[d] \in Ts /\ readTs[d] <= ts
      BY <1>0 DEF BatchesFollow, TypeOK
    <3> QED BY <2>2, <2>3, <3>1 DEF Ts
  <2>5. log'[ts'] = local[c] /\ ts' > 0
    <3>1. batchTs[c] \in 1..MaxTs
      BY <2>2 DEF Ts
    <3>2. log \in [1..MaxTs -> Batch]
      BY <1>0 DEF TypeOK
    <3>3. log'[batchTs[c]] = local[c]
      BY <2>3, <3>1, <3>2
    <3> QED BY <2>3, <3>1, <3>3
  <2>6. ASSUME NEW d \in Client
        PROVE  /\ pc'[d] \notin WritingPcs
               /\ pc'[d] = "recording" => /\ d = c /\ batchTs' = batchTs
                                          /\ local' = local
    <3> DEFINE Recorded == /\ pc' = [pc EXCEPT ![c] = "recording"]
                           /\ UNCHANGED <<commitLock, batchTs, local>>
    <3>1. \/ Recorded
          \/ \E l \in {"finished", "idle"} : pc' = [pc EXCEPT ![c] = l]
      BY <2>3, ReturnCases
    <3>2. CASE Recorded
      BY <1>0, <2>1, <3>2 DEF TypeOK, WritingPcs
    <3>3. CASE \E l \in {"finished", "idle"} : pc' = [pc EXCEPT ![c] = l]
      BY <1>0, <2>1, <3>3 DEF TypeOK, WritingPcs
    <3> HIDE DEF Recorded
    <3> QED BY <3>1, <3>2, <3>3
  <2> QED BY <2>2, <2>3, <2>4, <2>5, <2>6 DEF BatchesFollow, WritingPcs
<1>16. ASSUME NEW c \in Client, FailWrite(c)
      PROVE  BatchesFollow'
  <2>1. \A d \in Client \ {c} : pc[d] \notin WritingPcs
    BY <1>0, <1>16 DEF LocksHeld, FailWrite, WritingPcs
  <2>2. ReturnFromWrite(c, FALSE) /\ UNCHANGED <<ts, readTs, log>>
    BY <1>16 DEF FailWrite
  <2>3. \E l \in {"finished", "idle"} : pc' = [pc EXCEPT ![c] = l]
    BY <2>2, ReturnCases
  <2>4. ASSUME NEW d \in Client
        PROVE  /\ pc'[d] \notin WritingPcs
               /\ pc'[d] = "recording" => /\ pc[d] = "recording"
                                          /\ batchTs'[d] = batchTs[d]
                                          /\ local'[d] = local[d]
    <3>1. CASE d = c
      BY <1>0, <2>3, <3>1 DEF TypeOK, WritingPcs
    <3>2. CASE d # c
      <4>1. pc'[d] = pc[d]
        BY <1>0, <2>3, <3>2 DEF TypeOK
      <4>2. \/ UNCHANGED <<batchTs, local>>
            \/ batchTs' = [batchTs EXCEPT ![c] = 0] /\ local' = local
            \/ batchTs' = [batchTs EXCEPT ![c] = 0] /\ local' = [local EXCEPT ![c] = NoBatch]
        BY <2>2, ReturnCases
      <4>3. CASE UNCHANGED <<batchTs, local>>
        BY <2>1, <3>2, <4>1, <4>3
      <4>4. CASE batchTs' = [batchTs EXCEPT ![c] = 0] /\ local' = local
        BY <1>0, <2>1, <3>2, <4>1, <4>4 DEF TypeOK
      <4>5. CASE batchTs' = [batchTs EXCEPT ![c] = 0] /\ local' = [local EXCEPT ![c] = NoBatch]
        BY <1>0, <2>1, <3>2, <4>1, <4>5 DEF TypeOK
      <4> QED BY <4>2, <4>3, <4>4, <4>5
    <3> QED BY <3>1, <3>2
  <2> QED BY <1>0, <2>2, <2>4 DEF BatchesFollow, WritingPcs
<1>17. ASSUME EngineStep \/ UNCHANGED vars
      PROVE  BatchesFollow'
  BY <1>0, <1>17 DEF BatchesFollow, EngineStep, ForceFreeze, Flush, CompactStart,
                   CompactMerge, CompactInstall, vars
<1> QED
  BY <1>1, <1>2, <1>3, <1>4, <1>5, <1>6, <1>7, <1>8, <1>9, <1>10, <1>11, <1>12, <1>13, <1>14, <1>15, <1>16, <1>17
  DEF Next, TxnStep, WriteStep

\* The invariant is inductive.
LEMMA InvStep == Inv /\ [Next]_vars => Inv'
BY TypeStep, ReadersStep, RoomStep, LocksStep, PositionsStep, BatchesStep DEF Inv

\* The invariant holds in every reachable state.
LEMMA Invariance == Spec => []Inv
<1>1. Init => Inv
  BY InitInv
<1>2. Inv /\ [Next]_vars => Inv'
  BY InvStep
<1> QED BY <1>1, <1>2, PTL DEF Spec

-----------------------------------------------------------------------------
(* Theorems.                                                               *)

(***************************************************************************)
(* Every variable keeps its type.  That the commit timestamp, and with it  *)
(* the readers' counts, never leave their range needs the whole of Inv: a  *)
(* count is decremented only after it was incremented (watermark.rs), and  *)
(* a batch gets the timestamp that RoomToWrite kept for it.                *)
(***************************************************************************)
THEOREM TypeCorrect == Spec => []TypeOK
<1>1. Inv => TypeOK
  BY DEF Inv
<1> QED BY <1>1, Invariance, PTL

\* A step that publishes nothing and leaves the validation table alone keeps
\* it complete, if committers that are still to record stay so.
LEMMA ValidationFrame ==
    ASSUME TypeOK, ValidationComplete,
           ts' = ts, committedTxns' = committedTxns, log' = log,
           \A c \in open' : (c \in open /\ readTs'[c] = readTs[c]) \/ readTs'[c] = ts,
           \A d \in open : pc[d] = "recording" =>
              d \in open' /\ pc'[d] = "recording"
              /\ batchTs'[d] = batchTs[d] /\ local'[d] = local[d]
    PROVE  ValidationComplete'
<1> SUFFICES ASSUME Serializable, NEW c \in open', NEW u \in readTs'[c] + 1..ts'
             PROVE  \/ \E e \in committedTxns' :
                          e.ts = u /\ e.hashes = Hashes(WrittenBy(log'[u]))
                    \/ \E d \in open' : /\ pc'[d] = "recording"
                                        /\ batchTs'[d] = u
                                        /\ local'[d] = log'[u]
  BY DEF ValidationComplete, Hashes, WrittenBy
<1>1. c \in open /\ readTs'[c] = readTs[c]
  BY DEF TypeOK, Ts
<1>2. u \in readTs[c] + 1..ts
  BY <1>1
<1> QED BY <1>1, <1>2 DEF ValidationComplete

\* Entries that an open transaction needs are at or above the watermark.
LEMMA WatermarkBelowOpen ==
    ASSUME Inv, NEW c \in open
    PROVE  Watermark <= readTs[c]
<1>1. TypeOK /\ ReadersExact /\ c \in Client /\ readTs[c] \in Ts
  BY DEF Inv, TypeOK
<1> DEFINE same == {d \in open : readTs[d] = readTs[c]}
<1>2. IsFiniteSet(same)
  BY <1>1, FS_Subset, MvccTxnAssumption DEF TypeOK
<1>3. Cardinality(same) \in Nat /\ Cardinality(same) # 0
  BY <1>2, FS_CardinalityType, FS_EmptySet
<1>4. readers[readTs[c]] = Cardinality(same)
  BY <1>1 DEF ReadersExact
<1> HIDE DEF same
<1>5. readers[readTs[c]] > 0
  BY <1>3, <1>4
<1> QED BY <1>1, <1>5, WatermarkBound

\* Every step keeps the validation table complete.
LEMMA ValidationStep ==
    Inv /\ Inv' /\ ValidationComplete /\ [Next]_vars => ValidationComplete'
<1> SUFFICES ASSUME Inv, Inv', ValidationComplete, [Next]_vars
             PROVE  ValidationComplete'
  OBVIOUS
<1> USE MvccTxnAssumption DEF mvccVars, storeVars, txnVars, stepVars, Goto
<1>0. TypeOK /\ LocksHeld /\ Positions /\ BatchesFollow
  BY DEF Inv
<1>1. ASSUME NEW c \in Client, NewTxn(c)
      PROVE  ValidationComplete'
  BY <1>0, <1>1, ValidationFrame DEF TypeOK, NewTxn
<1>2. ASSUME NEW c \in Client, NEW k \in Key, NEW v \in Value, Put(c, k, v)
      PROVE  ValidationComplete'
  BY <1>0, <1>2, ValidationFrame DEF TypeOK, Put
<1>3. ASSUME NEW c \in Client, NEW k \in Key, Delete(c, k)
      PROVE  ValidationComplete'
  BY <1>0, <1>3, ValidationFrame DEF TypeOK, Delete, Put
<1>4. ASSUME NEW c \in Client, NEW k \in Key, GetLocal(c, k)
      PROVE  ValidationComplete'
  BY <1>0, <1>4, ValidationFrame DEF TypeOK, GetLocal
<1>5. ASSUME NEW c \in Client, NEW k \in Key, GetStart(c, k)
      PROVE  ValidationComplete'
  BY <1>0, <1>5, ValidationFrame DEF TypeOK, GetStart
<1>6. ASSUME NEW c \in Client, GetFinish(c)
      PROVE  ValidationComplete'
  BY <1>0, <1>6, ValidationFrame DEF TypeOK, GetFinish
<1>7. ASSUME NEW c \in Client, Drop(c)
      PROVE  ValidationComplete'
  BY <1>0, <1>7, ValidationFrame DEF TypeOK, Drop
<1>8. ASSUME NEW c \in Client, Commit(c)
      PROVE  ValidationComplete'
  BY <1>0, <1>8, ValidationFrame DEF TypeOK, Commit
<1>9. ASSUME NEW c \in Client, Validate(c)
      PROVE  ValidationComplete'
  BY <1>0, <1>9, ValidationFrame DEF TypeOK, Validate
<1>10. ASSUME NEW c \in Client, Record(c)
      PROVE  ValidationComplete'
  <2>1. /\ ts' = ts /\ log' = log /\ open' = open /\ readTs' = readTs
        /\ \A e \in committedTxns \cup {[ts |-> batchTs[c],
                                         hashes |-> Hashes(WrittenBy(local[c]))]} :
              e.ts >= Watermark => e \in committedTxns'
    BY <1>10 DEF Record
  <2>2. \A d \in open : pc[d] = "recording" => d = c
    BY <1>0, <1>10 DEF LocksHeld, Record, Positions, WritingPcs, TypeOK
  <2>3. SUFFICES ASSUME Serializable, NEW d \in open, NEW u \in readTs[d] + 1..ts
                 PROVE  \E e \in committedTxns' :
                           e.ts = u /\ e.hashes = Hashes(WrittenBy(log[u]))
    BY <2>1 DEF ValidationComplete, Hashes, WrittenBy
  <2>4. u >= Watermark
    <3>1. Watermark <= readTs[d]
      BY WatermarkBelowOpen
    <3>2. Watermark \in Ts /\ readTs[d] \in Ts
      BY <1>0, WatermarkBound DEF TypeOK
    <3> QED BY <3>1, <3>2 DEF Ts
  <2>5. CASE \E e \in committedTxns :
                e.ts = u /\ e.hashes = Hashes(WrittenBy(log[u]))
    BY <2>1, <2>4, <2>5
  <2>6. CASE \E e \in open : /\ pc[e] = "recording"
                            /\ batchTs[e] = u
                            /\ local[e] = log[u]
    <3> DEFINE entry == [ts |-> batchTs[c], hashes |-> Hashes(WrittenBy(local[c]))]
    <3>1. batchTs[c] = u /\ local[c] = log[u]
      BY <2>2, <2>6
    <3>2. entry.ts = u /\ entry.hashes = Hashes(WrittenBy(log[u]))
      BY <3>1
    <3>3. entry \in committedTxns'
      BY <2>1, <2>4, <3>2
    <3> QED BY <3>2, <3>3
  <2>7. \/ \E e \in committedTxns :
               e.ts = u /\ e.hashes = Hashes(WrittenBy(log[u]))
        \/ \E e \in open : /\ pc[e] = "recording"
                           /\ batchTs[e] = u
                           /\ local[e] = log[u]
    BY <2>3 DEF ValidationComplete
  <2> QED BY <2>5, <2>6, <2>7
<1>11. ASSUME NEW c \in Client, WriteBatch(c)
      PROVE  ValidationComplete'
  BY <1>0, <1>11, ValidationFrame DEF TypeOK, WriteBatch
<1>12. ASSUME NEW c \in Client, StartBatch(c)
      PROVE  ValidationComplete'
  BY <1>0, <1>12, ValidationFrame DEF TypeOK, StartBatch
<1>13. ASSUME NEW c \in Client, NEW k \in Key, PutEntry(c, k)
      PROVE  ValidationComplete'
  BY <1>0, <1>13, ValidationFrame DEF TypeOK, PutEntry
<1>14. ASSUME NEW c \in Client, TryFreeze(c)
      PROVE  ValidationComplete'
  BY <1>0, <1>14, ValidationFrame DEF TypeOK, TryFreeze
<1>15. ASSUME NEW c \in Client, Publish(c)
      PROVE  ValidationComplete'
  <2>1. batchTs[c] = ts + 1 /\ batchTs[c] \in Ts /\ ts \in Ts
    BY <1>0, <1>15 DEF TypeOK, Publish, BatchesFollow, WritingPcs
  <2>2. /\ ts' = batchTs[c]
        /\ log' = [log EXCEPT ![batchTs[c]] = local[c]]
        /\ readTs' = readTs /\ open' = open /\ committedTxns' = committedTxns
        /\ ReturnFromWrite(c, TRUE)
    BY <1>15 DEF Publish
  <2>3. SUFFICES ASSUME Serializable, NEW d \in open', NEW u \in readTs'[d] + 1..ts'
                 PROVE  \/ \E e \in committedTxns' :
                              e.ts = u /\ e.hashes = Hashes(WrittenBy(log'[u]))
                        \/ \E e \in open' : /\ pc'[e] = "recording"
                                            /\ batchTs'[e] = u
                                            /\ local'[e] = log'[u]
    BY DEF ValidationComplete, Hashes, WrittenBy
  <2>4. c \in open /\ commitLock = c
    BY <1>0, <1>15, <2>3 DEF Positions, LocksHeld, Publish, WritingPcs
  <2>5. /\ log \in [1..MaxTs -> Batch] /\ readTs[d] \in Ts
        /\ d \in open /\ u \in readTs[d] + 1..ts'
    BY <1>0, <2>2, <2>3 DEF TypeOK
  <2>6. CASE u = batchTs[c]
    <3>1. u \in 1..MaxTs
      BY <2>1, <2>6 DEF Ts
    <3>2. log'[u] = local[c]
      BY <2>2, <2>5, <2>6, <3>1
    <3>3. pc' = [pc EXCEPT ![c] = "recording"] /\ UNCHANGED <<batchTs, local>>
      BY <2>2, <2>3, <2>4, ReturnCases
    <3>4. pc'[c] = "recording"
      BY <1>0, <3>3 DEF TypeOK
    <3> QED BY <2>2, <2>4, <2>6, <3>2, <3>3, <3>4
  <2>7. CASE u # batchTs[c]
    <3>1. u \in readTs[d] + 1..ts /\ u \in 1..MaxTs
      BY <2>1, <2>2, <2>5, <2>7 DEF Ts
    <3>2. log'[u] = log[u]
      BY <2>2, <2>5, <2>7, <3>1
    <3>3. \A e \in open : pc[e] # "recording"
      BY <1>0, <1>15, <2>4 DEF LocksHeld, Publish, WritingPcs, TypeOK
    <3>4. \E e \in committedTxns : e.ts = u /\ e.hashes = Hashes(WrittenBy(log[u]))
      BY <2>3, <2>5, <3>1, <3>3 DEF ValidationComplete
    <3> QED BY <2>2, <3>2, <3>4
  <2> QED BY <2>6, <2>7
<1>16. ASSUME NEW c \in Client, FailWrite(c)
      PROVE  ValidationComplete'
  <2>1. /\ UNCHANGED <<ts, committedTxns, log, open, readTs>>
        /\ ReturnFromWrite(c, FALSE) /\ pc[c] = "freezing"
    BY <1>16 DEF FailWrite
  <2>2. /\ \E l \in {"finished", "idle"} : pc' = [pc EXCEPT ![c] = l]
        /\ batchTs' = [batchTs EXCEPT ![c] = 0]
        /\ local' = local \/ local' = [local EXCEPT ![c] = NoBatch]
    BY <2>1, ReturnCases
  <2>3. ASSUME NEW d \in open, pc[d] = "recording"
        PROVE  d \in open' /\ pc'[d] = "recording"
               /\ batchTs'[d] = batchTs[d] /\ local'[d] = local[d]
    <3>1. d # c /\ d \in Client
      BY <1>0, <2>1, <2>3 DEF TypeOK
    <3>2. local'[d] = local[d]
      <4>1. CASE local' = local
        BY <4>1
      <4>2. CASE local' = [local EXCEPT ![c] = NoBatch]
        BY <1>0, <3>1, <4>2 DEF TypeOK
      <4> QED BY <2>2, <4>1, <4>2
    <3> QED BY <1>0, <2>1, <2>2, <2>3, <3>1, <3>2 DEF TypeOK
  <2> QED BY <1>0, <2>1, <2>3, ValidationFrame
<1>17. ASSUME EngineStep \/ UNCHANGED vars
      PROVE  ValidationComplete'
  BY <1>0, <1>17, ValidationFrame DEF EngineStep, ForceFreeze, Flush, CompactStart,
                   CompactMerge, CompactInstall, vars
<1> QED
  BY <1>1, <1>2, <1>3, <1>4, <1>5, <1>6, <1>7, <1>8, <1>9, <1>10, <1>11, <1>12, <1>13, <1>14, <1>15, <1>16, <1>17
  DEF Next, TxnStep, WriteStep

(***************************************************************************)
(* Removing the entries below the watermark at the end of commit never     *)
(* takes away a write set that an open transaction may still have to be    *)
(* validated against.  The watermark is at or below every open read        *)
(* timestamp because the readers are counted exactly, and the one entry    *)
(* that may be missing belongs to the owner of commit_lock.                *)
(***************************************************************************)
THEOREM ValidationTableComplete == Spec => []ValidationComplete
<1>1. Init => ValidationComplete
  BY DEF Init, ValidationComplete
<1>2. Inv /\ Inv' /\ ValidationComplete /\ [Next]_vars => ValidationComplete'
  BY ValidationStep
<1> QED BY <1>1, <1>2, Invariance, PTL DEF Spec

-----------------------------------------------------------------------------
(***************************************************************************)
(* Why a transaction of MvccTxn reads its snapshot, and why what it read   *)
(* in serializable mode is still current when it commits.  The invariant   *)
(* StoreInv says where the versions of each batch are while memtables are  *)
(* frozen and flushed and a compaction works on a clone of the state; it   *)
(* rests on Inv.  Writes do not fail here: a failed batch leaves versions  *)
(* behind that a later batch publishes.                                    *)
(***************************************************************************)

\* The value of k after the first t batches of history h.
AfterBatches(h, k, t) ==
    LET writers == {u \in 1..t : h[u][k] # NoWrite}
    IN  IF writers = {} THEN Empty ELSE h[Max(writers)][k]

\* Of each key, the versions of S are older than those of T.
Older(S, T) == \A v \in S, u \in T : v.key = u.key => v.ts < u.ts

\* Two versions of S with one key and one timestamp up to t are the same.
Unambiguous(S, t) ==
    \A u, v \in S : u.key = v.key /\ u.ts = v.ts /\ u.ts <= t => u.val = v.val

-----------------------------------------------------------------------------
(* What a read returns.                                                    *)

\* A non-empty set of naturals with an upper bound contains its Max.
LEMMA MaxIs ==
    ASSUME NEW S \in SUBSET Nat, S # {}, NEW n \in Nat, \A x \in S : x <= n
    PROVE  /\ Max(S) \in S
           /\ \A x \in S : x <= Max(S)
<1>1. PICK m \in S : \A x \in S : x <= m
  BY MaxExists
<1>2. \A x \in S : m >= x
  BY <1>1
<1>3. Max(S) \in S /\ \A x \in S : Max(S) >= x
  BY <1>2 DEF Max
<1> QED BY <1>3

\* A read only depends on the versions of its key up to its timestamp.
LEMMA VisibleSame ==
    ASSUME NEW S, NEW T, NEW k, NEW t, NEW n,
           \A v : v \in S /\ v.key = k /\ v.ts <= t <=> v \in T /\ v.key = k /\ v.ts <= n
    PROVE  Visible(S, k, t) = Visible(T, k, n)
<1> DEFINE cand(X, m) == {v \in X : v.key = k /\ v.ts <= m}
           pick(C) == IF C = {} THEN Empty
                      ELSE (CHOOSE v \in C : \A u \in C : u.ts <= v.ts).val
<1>1. cand(S, t) = cand(T, n)
  OBVIOUS
<1>2. Visible(S, k, t) = pick(cand(S, t)) /\ Visible(T, k, n) = pick(cand(T, n))
  BY DEF Visible
<1> HIDE DEF cand, pick
<1> QED BY <1>1, <1>2

\* It returns Empty when there are none.
LEMMA VisibleNone ==
    ASSUME NEW S, NEW k, NEW t, \A v \in S : ~ (v.key = k /\ v.ts <= t)
    PROVE  Visible(S, k, t) = Empty
BY DEF Visible

\* Otherwise there is a newest one.
LEMMA NewestExists ==
    ASSUME NEW S \in SUBSET Version, NEW k, NEW t \in Nat, MaxTs \in Nat,
           \E v \in S : v.key = k /\ v.ts <= t
    PROVE  \E v \in S : /\ v.key = k /\ v.ts <= t
                        /\ \A u \in S : u.key = k /\ u.ts <= t => u.ts <= v.ts
<1> DEFINE stamps == {v.ts : v \in {u \in S : u.key = k /\ u.ts <= t}}
<1>1. stamps \in SUBSET Nat /\ stamps # {}
  BY DEF Version
<1>2. \A x \in stamps : x <= t
  OBVIOUS
<1>3. PICK m \in stamps : \A x \in stamps : x <= m
  BY <1>1, <1>2, MaxExists
<1> QED BY <1>3

\* It returns the value of the newest one, if that is not ambiguous.
LEMMA VisibleNewest ==
    ASSUME NEW S \in SUBSET Version, NEW k, NEW t \in Nat, NEW v \in S, MaxTs \in Nat,
           v.key = k, v.ts <= t,
           \A u \in S : u.key = k /\ u.ts <= t => u.ts <= v.ts,
           Unambiguous(S, t)
    PROVE  Visible(S, k, t) = v.val
<1> DEFINE candidates == {u \in S : u.key = k /\ u.ts <= t}
           w == CHOOSE x \in candidates : \A u \in candidates : u.ts <= x.ts
<1>1. v \in candidates /\ \A u \in candidates : u.ts <= v.ts
  OBVIOUS
<1>2. w \in candidates /\ \A u \in candidates : u.ts <= w.ts
  BY <1>1
<1>3. w.ts <= v.ts /\ v.ts <= w.ts
  BY <1>1, <1>2
<1>4. v \in Version /\ w \in Version
  BY <1>1, <1>2
<1>5. w.ts = v.ts
  <2> HIDE DEF w
  <2> QED BY <1>3, <1>4 DEF Version
<1>6. w.val = v.val
  BY <1>1, <1>2, <1>5 DEF Unambiguous
<1>7. Visible(S, k, t) = w.val
  BY <1>1 DEF Visible
<1> QED BY <1>6, <1>7

(***************************************************************************)
(* A compaction that uses w as its watermark changes no read at or above w,*)
(* when the versions R it does not see are newer than its input I: a       *)
(* deletion marker that comes first for its key may then go, because no    *)
(* older version of the key is left to reappear.                           *)
(***************************************************************************)
LEMMA CompactionKeepsReads ==
    ASSUME NEW I \in SUBSET Version, NEW R \in SUBSET Version, Older(I, R),
           MaxTs \in Nat, NEW k \in Key, NEW w \in Nat, NEW t \in Nat, w <= t,
           Unambiguous(I \cup R, t)
    PROVE  Visible(R \cup Compacted(I, w), k, t) = Visible(I \cup R, k, t)
<1> DEFINE S == I \cup R
           T == R \cup Compacted(I, w)
<1>1. T \subseteq S /\ S \in SUBSET Version /\ T \in SUBSET Version
  BY CompactedSubset
<1>2. Unambiguous(T, t) /\ Unambiguous(S, t)
  BY <1>1 DEF Unambiguous
<1>3. CASE \A v \in S : ~ (v.key = k /\ v.ts <= t)
  <2>1. \A v \in T : ~ (v.key = k /\ v.ts <= t)
    BY <1>1, <1>3
  <2> HIDE DEF S, T
  <2>2. Visible(S, k, t) = Empty /\ Visible(T, k, t) = Empty
    BY <1>3, <2>1, VisibleNone
  <2> QED BY <2>2 DEF S, T
<1>4. CASE \E v \in S : v.key = k /\ v.ts <= t
  <2>1. PICK v \in S : /\ v.key = k /\ v.ts <= t
                       /\ \A u \in S : u.key = k /\ u.ts <= t => u.ts <= v.ts
    <3> HIDE DEF S
    <3> QED BY <1>1, <1>4, NewestExists
  <2>2. Visible(S, k, t) = v.val
    <3> HIDE DEF S
    <3> QED BY <1>1, <1>2, <2>1, VisibleNewest
  <2>3. CASE v \in T
    <3>1. \A u \in T : u.key = k /\ u.ts <= t => u.ts <= v.ts
      BY <1>1, <2>1
    <3>2. Visible(T, k, t) = v.val
      <4> HIDE DEF S, T
      <4> QED BY <1>1, <1>2, <2>1, <2>3, <3>1, VisibleNewest
    <3> QED BY <2>2, <3>2
  <2>4. CASE v \notin T
    <3> DEFINE X == {u \in I : u.key = k}
    <3>1. v \in X /\ v \in Version /\ v \notin Compacted(I, w)
      BY <1>1, <2>1, <2>4
    <3>2. v \notin KeepOfKey(X, w)
      BY <3>1 DEF Compacted
    <3>3. v.ts <= w
      BY <3>1, <3>2 DEF KeepOfKey, Version
    <3>4. \A u \in X : u.ts <= w => u.ts <= v.ts
      BY <1>1, <2>1 DEF Version
    <3>5. v.val = Empty /\ \A u \in X : ~ (u.ts > w)
      BY <3>1, <3>2, <3>3, <3>4 DEF KeepOfKey, Version
    <3>6. \A u \in KeepOfKey(X, w) : u.ts = v.ts /\ u.val # Empty
      BY <3>1, <3>3, <3>4, <3>5 DEF KeepOfKey, Version
    <3>7. KeepOfKey(X, w) = {}
      <4> SUFFICES ASSUME NEW u \in KeepOfKey(X, w) PROVE FALSE
        OBVIOUS
      <4>1. u \in I /\ u.key = k
        BY DEF KeepOfKey
      <4> QED BY <1>2, <2>1, <3>1, <3>5, <3>6, <4>1 DEF Unambiguous
    <3>8. \A u \in Compacted(I, w) : u.key # k
      BY <3>7 DEF Compacted, KeepOfKey
    <3>9. \A u \in R : u.key = k => v.ts < u.ts
      BY <3>1 DEF Older
    <3>10. \A u \in T : ~ (u.key = k /\ u.ts <= t)
      BY <1>1, <2>1, <3>1, <3>8, <3>9 DEF Version
    <3>11. Visible(T, k, t) = Empty
      <4> HIDE DEF T
      <4> QED BY <3>10, VisibleNone
    <3> QED BY <2>2, <3>5, <3>11
  <2> QED BY <2>3, <2>4
<1> QED BY <1>3, <1>4

-----------------------------------------------------------------------------
(* What the history of batches determines.                                 *)

\* The value only depends on the batches that are applied.
LEMMA ValueSame ==
    ASSUME NEW h, NEW g, NEW k, NEW t \in Nat, \A u \in 1..t : h[u] = g[u]
    PROVE  AfterBatches(h, k, t) = AfterBatches(g, k, t)
<1> DEFINE writers == {u \in 1..t : h[u][k] # NoWrite}
<1>1. writers = {u \in 1..t : g[u][k] # NoWrite}
  OBVIOUS
<1>2. CASE writers = {}
  BY <1>1, <1>2 DEF AfterBatches
<1>3. CASE writers # {}
  <2>1. Max(writers) \in writers
    <3>1. writers \in SUBSET Nat /\ \A x \in writers : x <= t
      OBVIOUS
    <3> HIDE DEF writers
    <3> QED BY <1>3, <3>1, MaxIs
  <2>2. h[Max(writers)] = g[Max(writers)]
    BY <2>1
  <2> QED BY <1>1, <1>3, <2>2 DEF AfterBatches
<1> QED BY <1>2, <1>3

\* Batches that do not write k do not change it.
LEMMA ValueUntouched ==
    ASSUME NEW h, NEW k, NEW t \in Nat, NEW n \in Nat, t <= n,
           \A u \in t + 1..n : h[u][k] = NoWrite
    PROVE  AfterBatches(h, k, n) = AfterBatches(h, k, t)
<1>1. {u \in 1..n : h[u][k] # NoWrite} = {u \in 1..t : h[u][k] # NoWrite}
  OBVIOUS
<1> QED BY <1>1 DEF AfterBatches

\* A batch that writes k determines it.
LEMMA ValueWritten ==
    ASSUME NEW h, NEW k, NEW t \in Nat \ {0}, h[t][k] # NoWrite
    PROVE  AfterBatches(h, k, t) = h[t][k]
<1> DEFINE writers == {u \in 1..t : h[u][k] # NoWrite}
<1>1. t \in writers /\ writers \in SUBSET Nat /\ \A x \in writers : x <= t
  OBVIOUS
<1>2. Max(writers) \in Nat /\ t <= Max(writers) /\ Max(writers) <= t
  <2> HIDE DEF writers
  <2> QED BY <1>1, MaxIs
<1>3. Max(writers) = t
  BY <1>2
<1> QED BY <1>1, <1>3 DEF AfterBatches

-----------------------------------------------------------------------------
(* The watermark.                                                          *)

\* The watermark is the oldest open read timestamp, or else the latest one.
WatermarkPlaced ==
    /\ Watermark \in Ts
    /\ Watermark <= ts
    /\ \A c \in open : Watermark <= readTs[c]
    /\ Watermark = ts \/ \E c \in open : Watermark = readTs[c]

\* WatermarkPlaced follows from Inv.
LEMMA WatermarkIs == Inv => WatermarkPlaced
<1> SUFFICES ASSUME Inv
             PROVE  WatermarkPlaced
  OBVIOUS
<1> USE DEF WatermarkPlaced
<1> DEFINE held == {t \in Ts : readers[t] > 0}
<1>1. TypeOK /\ ReadersExact /\ BatchesFollow
  BY DEF Inv
<1>2. Watermark \in Ts /\ \A c \in open : Watermark <= readTs[c]
  BY <1>1, WatermarkBound, WatermarkBelowOpen
<1>3. CASE held = {}
  <2>1. Watermark = ts
    BY <1>3 DEF Watermark
  <2> QED BY <1>1, <1>2, <2>1 DEF TypeOK, Ts
<1>4. CASE held # {}
  <2>1. Watermark \in held
    <3>1. held \in SUBSET Nat
      BY DEF Ts
    <3>2. Min(held) \in held
      <4> HIDE DEF held
      <4> QED BY <1>4, <3>1, MinExists
    <3> QED BY <1>4, <3>2 DEF Watermark
  <2>2. Cardinality({c \in open : readTs[c] = Watermark}) # 0
    BY <1>1, <2>1 DEF ReadersExact
  <2>3. PICK c \in open : readTs[c] = Watermark
    BY <2>2, FS_EmptySet
  <2>4. readTs[c] <= ts
    BY <1>1 DEF BatchesFollow, TypeOK
  <2> QED BY <1>2, <2>3, <2>4
<1> QED BY <1>3, <1>4

\* It never decreases: new readers begin at the latest timestamp.
LEMMA WatermarkGrows ==
    ASSUME Inv, Inv', ts <= ts',
           \A c \in open' : (c \in open /\ readTs'[c] = readTs[c]) \/ readTs'[c] = ts
    PROVE  Watermark <= Watermark'
<1>1. /\ Watermark \in Ts /\ Watermark <= ts
      /\ \A c \in open : Watermark <= readTs[c]
  BY WatermarkIs DEF WatermarkPlaced
<1>2. /\ Watermark' \in Ts
      /\ Watermark' = ts' \/ \E c \in open' : Watermark' = readTs'[c]
  <2>1. Inv' => WatermarkPlaced'
    BY WatermarkIs, PTL
  <2> QED BY <2>1 DEF WatermarkPlaced, Ts
<1>3. ts \in Nat /\ ts' \in Nat
  BY MvccTxnAssumption DEF Inv, TypeOK, Ts
<1>4. CASE Watermark' = ts'
  BY <1>1, <1>3, <1>4 DEF Ts
<1>5. ASSUME NEW c \in open', Watermark' = readTs'[c]
      PROVE  Watermark <= Watermark'
  BY <1>1, <1>5
<1> QED BY <1>2, <1>4, <1>5

-----------------------------------------------------------------------------
(* Where the versions are.                                                 *)

\* A version above the latest timestamp is of the batch that the owner of
\* write_lock inserts, one of the keys it has already inserted.
VersionsOwned ==
    \A i \in TableId : \A v \in tables[i] :
        v.ts > ts => \E c \in Client : /\ writeLock = c
                                       /\ v.ts = batchTs[c]
                                       /\ v.val = local[c][v.key]
                                       /\ v.key \notin pending[c]

\* Any other version is of the batch published at its timestamp.
VersionsLogged ==
    \A i \in TableId : \A v \in tables[i] :
        v.ts <= ts => v.val = log[v.ts][v.key]

\* Readers of the current state merge every key that has been inserted, also
\* when the memtable was frozen, flushed and compacted before the publication.
BatchInserted ==
    \A c \in Client :
        /\ pc[c] \in WritingPcs =>
              \A k \in WrittenBy(local[c]) \ pending[c] :
                 \E v \in Versions(state) : v.key = k /\ v.ts = batchTs[c]
        /\ pc[c] \in {"freezing", "publishing"} => pending[c] = {}

\* Memtables are ordered by age, and SST entries are older than all of them.
LayersOrdered ==
    /\ state.oldest <= state.mem
    /\ \A i \in TableId : i > state.mem => tables[i] = {}
    /\ \A i, j \in TableId : i < j => Older(tables[i], tables[j])
    /\ \A v \in state.sst : \E i \in TableId : i < state.oldest /\ v \in tables[i]

\* What readers merge besides the input of the compaction.
Rest == (state.sst \ compaction.input) \cup UNION {tables[i] : i \in state.oldest..state.mem}

\* The compaction has read a watermark that is not above the present one, and
\* everything it does not see is newer than its input.
CompactionSound ==
    /\ compaction.pc # "idle" => /\ compaction.input \subseteq state.sst
                                 /\ Older(compaction.input, Rest)
    /\ compaction.pc = "merged" =>
          \E w \in Ts : w <= Watermark /\ compaction.output = Compacted(compaction.input, w)

\* Reads of the current state at or above the watermark return the snapshot.
ReadsFromWatermark ==
    \A k \in Key : \A t \in Watermark..ts :
        Visible(Versions(state), k, t) = AfterBatches(log, k, t)

\* So do the gets that work on an older clone.
SnapshotsFixed ==
    \A c \in Client : pc[c] = "reading" =>
        \A k \in Key :
            Visible(Versions(snapshot[c]), k, readTs[c]) = AfterBatches(log, k, readTs[c])

StoreInv ==
    /\ VersionsOwned
    /\ VersionsLogged
    /\ BatchInserted
    /\ LayersOrdered
    /\ CompactionSound
    /\ ReadsFromWatermark
    /\ SnapshotsFixed

\* A step that touches no version, publishes nothing and leaves writers alone;
\* a client that begins a read clones the current state.
Calm ==
    /\ UNCHANGED <<ts, log, writeLock, tables, state, compaction>>
    /\ \A d \in Client :
         pc[d] \in WritingPcs \/ pc'[d] \in WritingPcs =>
            /\ pc'[d] = pc[d]
            /\ batchTs'[d] = batchTs[d]
            /\ local'[d] = local[d]
            /\ pending'[d] = pending[d]
    /\ \A d \in Client :
         pc'[d] = "reading" =>
            /\ readTs'[d] = readTs[d]
            /\ \/ pc[d] = "reading" /\ snapshot'[d] = snapshot[d]
               \/ d \in open /\ snapshot'[d] = state

\* Without write errors every step is calm or one of those that move versions.
LEMMA StepKinds ==
    ASSUME Inv, [Next]_vars, MaxWriteErrors = 0
    PROVE  \/ Calm
           \/ \E c \in Client : \/ StartBatch(c)
                                \/ \E k \in Key : PutEntry(c, k)
                                \/ TryFreeze(c)
                                \/ Publish(c)
           \/ EngineStep
<1> USE DEF mvccVars, storeVars, txnVars, stepVars, Goto
<1>0. TypeOK /\ Positions
  BY DEF Inv
<1>1. ASSUME NEW c \in Client, NewTxn(c)
      PROVE  Calm
  BY <1>0, <1>1 DEF TypeOK, NewTxn, Calm, WritingPcs
<1>2. ASSUME NEW c \in Client, NEW k \in Key, NEW v, Put(c, k, v)
      PROVE  Calm
  BY <1>0, <1>2 DEF TypeOK, Put, Calm, WritingPcs
<1>4. ASSUME NEW c \in Client, NEW k \in Key, GetLocal(c, k)
      PROVE  Calm
  BY <1>0, <1>4 DEF TypeOK, GetLocal, Calm, WritingPcs
<1>5. ASSUME NEW c \in Client, NEW k \in Key, GetStart(c, k)
      PROVE  Calm
  BY <1>0, <1>5 DEF TypeOK, GetStart, Calm, WritingPcs, Positions
<1>6. ASSUME NEW c \in Client, GetFinish(c)
      PROVE  Calm
  BY <1>0, <1>6 DEF TypeOK, GetFinish, Calm, WritingPcs
<1>7. ASSUME NEW c \in Client, Drop(c)
      PROVE  Calm
  BY <1>0, <1>7 DEF TypeOK, Drop, Calm, WritingPcs
<1>8. ASSUME NEW c \in Client, Commit(c)
      PROVE  Calm
  BY <1>0, <1>8 DEF TypeOK, Commit, Calm, WritingPcs
<1>9. ASSUME NEW c \in Client, Validate(c)
      PROVE  Calm
  <2>1. pc' = [pc EXCEPT ![c] = "finished"] \/ pc' = [pc EXCEPT ![c] = "batching"]
    BY <1>9, Zenon DEF Validate
  <2> QED BY <1>0, <1>9, <2>1 DEF TypeOK, Validate, Calm, WritingPcs
<1>10. ASSUME NEW c \in Client, Record(c)
      PROVE  Calm
  BY <1>0, <1>10 DEF TypeOK, Record, Calm, WritingPcs
<1>11. ASSUME NEW c \in Client, WriteBatch(c)
      PROVE  Calm
  BY <1>0, <1>11 DEF TypeOK, WriteBatch, Calm, WritingPcs
<1>16. ASSUME NEW c \in Client, FailWrite(c)
      PROVE  FALSE
  BY <1>0, <1>16 DEF TypeOK, FailWrite
<1>17. CASE UNCHANGED vars
  BY <1>0, <1>17 DEF vars, TypeOK, Calm, WritingPcs
<1> QED
  BY <1>1, <1>2, <1>4, <1>5, <1>6, <1>7, <1>8, <1>9, <1>10, <1>11, <1>16, <1>17
  DEF Next, TxnStep, WriteStep, Delete

\* No step moves the watermark back.
LEMMA WatermarkStep ==
    ASSUME Inv, Inv', [Next]_vars
    PROVE  Watermark <= Watermark'
<1> USE DEF mvccVars, storeVars, txnVars, stepVars, Goto
<1>0. TypeOK /\ BatchesFollow /\ ts \in Nat
  <2>1. TypeOK /\ BatchesFollow
    BY DEF Inv
  <2> QED BY <2>1 DEF TypeOK, Ts
<1>1. ASSUME NEW c \in Client, NewTxn(c)
      PROVE  Watermark <= Watermark'
  <2>1. \A d \in open' : (d \in open /\ readTs'[d] = readTs[d]) \/ readTs'[d] = ts
    BY <1>0, <1>1 DEF TypeOK, NewTxn
  <2>2. ts' = ts
    BY <1>1 DEF NewTxn
  <2> QED BY <1>0, <2>1, <2>2, WatermarkGrows
<1>2. ASSUME NEW c \in Client, Drop(c)
      PROVE  Watermark <= Watermark'
  <2>1. \A d \in open' : d \in open /\ readTs'[d] = readTs[d]
    BY <1>0, <1>2 DEF TypeOK, Drop
  <2>2. ts' = ts
    BY <1>2 DEF Drop
  <2> QED BY <1>0, <2>1, <2>2, WatermarkGrows
<1>3. ASSUME ts' = ts, open' = open, readTs' = readTs
      PROVE  Watermark <= Watermark'
  BY <1>0, <1>3, WatermarkGrows
<1>4. ASSUME NEW c \in Client, Publish(c)
      PROVE  Watermark <= Watermark'
  <2>1. ts' = ts + 1 /\ open' = open /\ readTs' = readTs
    BY <1>0, <1>4 DEF Publish, BatchesFollow, WritingPcs
  <2> QED BY <1>0, <2>1, WatermarkGrows
<1>5. ASSUME NEW c \in Client, ~ NewTxn(c), ~ Drop(c), ~ Publish(c), TxnStep(c) \/ WriteStep(c)
      PROVE  ts' = ts /\ open' = open /\ readTs' = readTs
  BY <1>5 DEF TxnStep, WriteStep, Put, Delete, GetLocal, GetStart, GetFinish, Commit,
              Validate, Record, WriteBatch, StartBatch, PutEntry, TryFreeze, FailWrite
<1>6. ASSUME EngineStep \/ UNCHANGED vars
      PROVE  ts' = ts /\ open' = open /\ readTs' = readTs
  BY <1>6 DEF EngineStep, ForceFreeze, Flush, CompactStart, CompactMerge,
              CompactInstall, vars
<1> QED BY <1>1, <1>2, <1>3, <1>4, <1>5, <1>6 DEF Next

-----------------------------------------------------------------------------
(* Consequences of the invariant for the steps that move versions.         *)

\* Every version that a reader of the current state merges is in a memtable.
LEMMA InTables ==
    ASSUME TypeOK, LayersOrdered, NEW v \in Versions(state)
    PROVE  \E i \in TableId : i <= state.mem /\ v \in tables[i]
<1>1. state \in State /\ state.oldest \in TableId /\ state.mem \in TableId
  BY DEF TypeOK, State
<1>2. CASE v \in state.sst
  BY <1>1, <1>2 DEF LayersOrdered, TableId
<1>3. CASE \E i \in state.oldest..state.mem : v \in tables[i]
  BY <1>1, <1>3, MvccTxnAssumption DEF TableId
<1> QED BY <1>2, <1>3 DEF Versions

\* Published versions are unambiguous.
LEMMA LoggedUnambiguous ==
    ASSUME TypeOK, LayersOrdered, VersionsLogged, NEW t \in Nat, t <= ts
    PROVE  Unambiguous(Versions(state), t)
<1> SUFFICES ASSUME NEW u \in Versions(state), NEW v \in Versions(state),
                    u.key = v.key, u.ts = v.ts, u.ts <= t
             PROVE  u.val = v.val
  BY DEF Unambiguous
<1>1. \A x \in Versions(state) : x.ts <= ts => x.val = log[x.ts][x.key]
  BY InTables DEF VersionsLogged
<1>2. u.ts \in Nat /\ ts \in Nat
  <2>1. PICK i \in TableId : u \in tables[i]
    BY InTables
  <2> QED BY <2>1, MvccTxnAssumption DEF TypeOK, Version, Ts
<1> QED BY <1>1, <1>2

\* The writer in put_batch adds a version that is newer than all others of its
\* key, and replaces none.
LEMMA PutEntryAdds ==
    ASSUME Inv, VersionsOwned, NEW c \in Client, NEW k \in Key, PutEntry(c, k)
    PROVE  \E nv \in Version :
              /\ nv = [key |-> k, ts |-> ts + 1, val |-> local[c][k]]
              /\ nv.key = k /\ nv.ts = ts + 1 /\ nv.val = local[c][k]
              /\ batchTs[c] = ts + 1
              /\ state.mem \in TableId
              /\ tables' = [tables EXCEPT ![state.mem] = @ \cup {nv}]
              /\ \A i \in TableId : \A v \in tables[i] : v.key = k => v.ts <= ts
<1>1. TypeOK /\ LocksHeld /\ BatchesFollow
  BY DEF Inv
<1>2. /\ pc[c] = "writing" /\ k \in pending[c] /\ writeLock = c
      /\ batchTs[c] = ts + 1
      /\ local[c][k] \in Value \cup {Empty}
  BY <1>1 DEF PutEntry, LocksHeld, BatchesFollow, WritingPcs, WrittenBy, TypeOK, Batch
<1>3. ts \in Nat /\ ts + 1 \in 1..MaxTs /\ state.mem \in TableId
  BY <1>1, <1>2, MvccTxnAssumption DEF TypeOK, Ts, State
<1>4. \A i \in TableId : \A v \in tables[i] : v.ts \in Nat
  BY <1>1 DEF TypeOK, Version
<1>5. \A i \in TableId : \A v \in tables[i] : v.key = k => v.ts <= ts
  BY <1>2, <1>3, <1>4 DEF VersionsOwned
<1> DEFINE nv == [key |-> k, ts |-> ts + 1, val |-> local[c][k]]
<1>6. nv \in Version
  BY <1>2, <1>3 DEF Version
<1>7. {v \in tables[state.mem] : v.key # k \/ v.ts # ts + 1} = tables[state.mem]
  BY <1>3, <1>4, <1>5
<1>8. tables' = [tables EXCEPT ![state.mem] = @ \cup {nv}]
  BY <1>2, <1>7 DEF PutEntry
<1> QED BY <1>2, <1>3, <1>5, <1>6, <1>8

\* A publication appends the writer's batch to the history.
LEMMA PublishAppends ==
    ASSUME Inv, NEW c \in Client, Publish(c)
    PROVE  /\ ts \in Nat
           /\ ts + 1 \in 1..MaxTs
           /\ ts' = ts + 1
           /\ batchTs[c] = ts + 1
           /\ writeLock = c
           /\ log' = [log EXCEPT ![ts + 1] = local[c]]
           /\ log'[ts + 1] = local[c]
           /\ \A u \in 1..ts : log'[u] = log[u]
           /\ UNCHANGED <<tables, state, compaction, readTs, snapshot, open>>
           /\ \E l \in {"recording", "finished", "idle"} : pc' = [pc EXCEPT ![c] = l]
           /\ \A d \in Client : pc'[d] \notin WritingPcs
<1>1. TypeOK /\ LocksHeld /\ BatchesFollow
  BY DEF Inv
<1>2. /\ pc[c] = "publishing" /\ batchTs[c] = ts + 1 /\ ts' = ts + 1 /\ writeLock = c
      /\ log' = [log EXCEPT ![ts + 1] = local[c]]
      /\ UNCHANGED <<tables, state, compaction, readTs, snapshot, open>>
      /\ ReturnFromWrite(c, TRUE)
  BY <1>1 DEF Publish, LocksHeld, BatchesFollow, WritingPcs, storeVars
<1>3. ts \in Nat /\ ts + 1 \in 1..MaxTs
  BY <1>1, <1>2, MvccTxnAssumption DEF TypeOK, Ts
<1>4. log'[ts + 1] = local[c] /\ \A u \in 1..ts : log'[u] = log[u]
  BY <1>1, <1>2, <1>3 DEF TypeOK
<1>5. \E l \in {"recording", "finished", "idle"} : pc' = [pc EXCEPT ![c] = l]
  BY <1>2, ReturnCases
<1>6. \A d \in Client : pc'[d] \notin WritingPcs
  <2>1. \A d \in Client \ {c} : pc[d] \notin WritingPcs
    BY <1>1, <1>2 DEF LocksHeld
  <2> QED BY <1>1, <1>5, <2>1 DEF TypeOK, WritingPcs
<1> QED BY <1>2, <1>3, <1>4, <1>5, <1>6

\* A memtable is frozen by try_freeze or by force_flush.
Freezes ==
    /\ UNCHANGED <<tables, compaction, ts, log, writeLock, batchTs, local, pending,
                   readTs, snapshot>>
    /\ \/ state' = state
       \/ state.mem < MaxTables /\ state' = [state EXCEPT !.mem = @ + 1]
    /\ \A d \in Client : pc'[d] = pc[d] \/ (pc[d] = "freezing" /\ pc'[d] = "publishing")

\* A freeze, by a writer or by force_flush, changes the memtables in one way.
LEMMA FreezeKinds ==
    ASSUME TypeOK, (\E c \in Client : TryFreeze(c)) \/ ForceFreeze
    PROVE  Freezes
<1> USE DEF mvccVars, storeVars, txnVars, stepVars, Goto, FreezeMemtable
<1>1. ASSUME NEW c \in Client, TryFreeze(c)
      PROVE  Freezes
  <2>1. /\ pc[c] = "freezing" /\ pc' = [pc EXCEPT ![c] = "publishing"]
        /\ UNCHANGED <<ts, log, writeLock, batchTs, local, pending, readTs, snapshot>>
    BY <1>1 DEF TryFreeze
  <2>2. /\ UNCHANGED <<tables, compaction>>
        /\ \/ state' = state
           \/ state.mem < MaxTables /\ state' = [state EXCEPT !.mem = @ + 1]
    BY <1>1, Zenon DEF TryFreeze
  <2>3. \A d \in Client : pc'[d] = pc[d] \/ (pc[d] = "freezing" /\ pc'[d] = "publishing")
    BY <2>1 DEF TypeOK
  <2> QED BY <2>1, <2>2, <2>3 DEF Freezes
<1>2. CASE ForceFreeze
  BY <1>2 DEF ForceFreeze, Freezes
<1> QED BY <1>1, <1>2

\* Readers merge the same versions after a freeze.
LEMMA FreezeVersions ==
    ASSUME TypeOK, LayersOrdered, Freezes
    PROVE  /\ Versions(state') = Versions(state)
           /\ Versions(state)' = Versions(state)
<1>1. state \in State /\ tables' = tables
  BY DEF TypeOK, Freezes
<1>2. CASE state' = state
  BY <1>1, <1>2 DEF Versions
<1>3. CASE state.mem < MaxTables /\ state' = [state EXCEPT !.mem = @ + 1]
  <2>1. /\ state'.sst = state.sst /\ state'.oldest = state.oldest
        /\ state'.mem = state.mem + 1
    BY <1>1, <1>3 DEF State
  <2>2. state.mem + 1 \in TableId /\ state.oldest \in TableId /\ state.mem \in TableId
    BY <1>1, <1>3, MvccTxnAssumption DEF State, TableId
  <2>3. tables[state.mem + 1] = {}
    BY <2>2 DEF LayersOrdered, TableId
  <2>4. UNION {tables[i] : i \in state.oldest..state.mem + 1}
          = UNION {tables[i] : i \in state.oldest..state.mem}
    BY <2>2, <2>3 DEF TableId
  <2> QED BY <1>1, <2>1, <2>4 DEF Versions
<1> QED BY <1>2, <1>3 DEF Freezes

\* They merge the same versions after a flush.
LEMMA FlushVersions ==
    ASSUME TypeOK, Flush
    PROVE  /\ Versions(state)' = Versions(state)
           /\ state.oldest \in TableId /\ state.mem \in TableId
           /\ state'.oldest = state.oldest + 1 /\ state'.mem = state.mem
           /\ state'.sst = state.sst \cup tables[state.oldest]
<1>1. state \in State /\ tables' = tables /\ state.oldest < state.mem
  BY DEF TypeOK, Flush, storeVars
<1>2. /\ state'.oldest = state.oldest + 1 /\ state'.mem = state.mem
      /\ state'.sst = state.sst \cup tables[state.oldest]
  BY <1>1 DEF State, Flush
<1>3. state.oldest \in TableId /\ state.mem \in TableId
  BY <1>1 DEF State
<1>4. tables[state.oldest] \cup UNION {tables[i] : i \in state.oldest + 1..state.mem}
        = UNION {tables[i] : i \in state.oldest..state.mem}
  BY <1>1, <1>3 DEF TableId
<1> QED BY <1>1, <1>2, <1>3, <1>4 DEF Versions

-----------------------------------------------------------------------------
(* Each part of the invariant is preserved.                                *)

\* Every step keeps every unpublished version the property of its writer.
LEMMA OwnedStep ==
    ASSUME Inv, Inv', VersionsOwned, [Next]_vars, MaxWriteErrors = 0
    PROVE  VersionsOwned'
<1>0. TypeOK /\ LocksHeld /\ BatchesFollow
  BY DEF Inv
<1>1. CASE Calm
  <2> SUFFICES ASSUME NEW i \in TableId, NEW v \in tables[i], v.ts > ts
               PROVE  \E c \in Client : /\ writeLock' = c
                                        /\ v.ts = batchTs'[c]
                                        /\ v.val = local'[c][v.key]
                                        /\ v.key \notin pending'[c]
    BY <1>1 DEF VersionsOwned, Calm
  <2>1. PICK c \in Client : /\ writeLock = c
                            /\ v.ts = batchTs[c]
                            /\ v.val = local[c][v.key]
                            /\ v.key \notin pending[c]
    BY DEF VersionsOwned
  <2> QED BY <1>0, <1>1, <2>1 DEF Calm, LocksHeld
<1>2. ASSUME NEW c \in Client, StartBatch(c)
      PROVE  VersionsOwned'
  <2>1. writeLock = NoClient /\ tables' = tables /\ ts' = ts
    BY <1>2 DEF StartBatch, storeVars
  <2> QED BY <2>1, MvccTxnAssumption DEF VersionsOwned
<1>3. ASSUME NEW c \in Client, NEW k \in Key, PutEntry(c, k)
      PROVE  VersionsOwned'
  <2>1. PICK nv \in Version :
              /\ nv.key = k /\ nv.ts = ts + 1 /\ nv.val = local[c][k]
              /\ batchTs[c] = ts + 1
              /\ state.mem \in TableId
              /\ tables' = [tables EXCEPT ![state.mem] = @ \cup {nv}]
    BY <1>3, PutEntryAdds
  <2>2. /\ UNCHANGED <<ts, writeLock, batchTs, local>>
        /\ pending' = [pending EXCEPT ![c] = @ \ {k}]
        /\ writeLock = c
    BY <1>0, <1>3 DEF PutEntry, mvccVars, txnVars, LocksHeld, WritingPcs
  <2>3. k \notin pending'[c] /\ pending'[c] \subseteq pending[c]
    BY <1>0, <2>2 DEF TypeOK
  <2> SUFFICES ASSUME NEW i \in TableId, NEW v \in tables'[i], v.ts > ts
               PROVE  /\ v.ts = batchTs[c]
                      /\ v.val = local[c][v.key]
                      /\ v.key \notin pending'[c]
    BY <2>2 DEF VersionsOwned
  <2>4. v \in tables[i] \/ v = nv
    BY <1>0, <2>1 DEF TypeOK
  <2>5. CASE v \in tables[i]
    BY <2>2, <2>3, <2>5 DEF VersionsOwned
  <2>6. CASE v = nv
    BY <2>1, <2>3, <2>6
  <2> QED BY <2>4, <2>5, <2>6
<1>4. ASSUME NEW c \in Client, Publish(c)
      PROVE  VersionsOwned'
  <2>1. ts \in Nat /\ ts' = ts + 1 /\ tables' = tables /\ writeLock = c /\ batchTs[c] = ts + 1
    BY <1>4, PublishAppends
  <2> SUFFICES ASSUME NEW i \in TableId, NEW v \in tables[i], v.ts > ts + 1
               PROVE  FALSE
    BY <2>1 DEF VersionsOwned
  <2>2. v.ts \in Nat
    BY <1>0 DEF TypeOK, Version
  <2>3. v.ts = batchTs[c]
    BY <2>1, <2>2 DEF VersionsOwned
  <2> QED BY <2>1, <2>2, <2>3
<1>5. CASE Freezes
  BY <1>5 DEF Freezes, VersionsOwned
<1>6. CASE Flush \/ CompactStart \/ CompactMerge \/ CompactInstall
  BY <1>6 DEF Flush, CompactStart, CompactMerge, CompactInstall, VersionsOwned,
              mvccVars, txnVars, stepVars
<1> QED BY <1>0, <1>1, <1>2, <1>3, <1>4, <1>5, <1>6, StepKinds, FreezeKinds DEF EngineStep

\* Every step keeps the versions and the log in agreement.
LEMMA LoggedStep ==
    ASSUME Inv, Inv', VersionsOwned, VersionsLogged, [Next]_vars, MaxWriteErrors = 0
    PROVE  VersionsLogged'
<1>0. TypeOK /\ LocksHeld /\ BatchesFollow /\ ts \in Nat
  <2>1. TypeOK /\ LocksHeld /\ BatchesFollow
    BY DEF Inv
  <2> QED BY <2>1 DEF TypeOK, Ts
<1>1. CASE Calm
  BY <1>1 DEF Calm, VersionsLogged
<1>2. ASSUME NEW c \in Client, StartBatch(c)
      PROVE  VersionsLogged'
  BY <1>2 DEF StartBatch, VersionsLogged, storeVars
<1>3. ASSUME NEW c \in Client, NEW k \in Key, PutEntry(c, k)
      PROVE  VersionsLogged'
  <2>1. PICK nv \in Version :
              /\ nv.ts = ts + 1
              /\ state.mem \in TableId
              /\ tables' = [tables EXCEPT ![state.mem] = @ \cup {nv}]
    BY <1>3, PutEntryAdds
  <2>2. UNCHANGED <<ts, log>>
    BY <1>3 DEF PutEntry, mvccVars
  <2>3. \A i \in TableId : \A v \in tables'[i] : v \in tables[i] \/ v = nv
    BY <1>0, <2>1 DEF TypeOK
  <2> QED BY <1>0, <2>1, <2>2, <2>3 DEF VersionsLogged
<1>4. ASSUME NEW c \in Client, Publish(c)
      PROVE  VersionsLogged'
  <2>1. /\ ts' = ts + 1 /\ tables' = tables /\ writeLock = c /\ batchTs[c] = ts + 1
        /\ log'[ts + 1] = local[c] /\ \A u \in 1..ts : log'[u] = log[u]
    BY <1>4, PublishAppends
  <2> SUFFICES ASSUME NEW i \in TableId, NEW v \in tables[i], v.ts <= ts + 1
               PROVE  v.val = log'[v.ts][v.key]
    BY <2>1 DEF VersionsLogged
  <2>2. v.ts \in Nat \ {0}
    BY <1>0 DEF TypeOK, Version
  <2>3. CASE v.ts <= ts
    BY <1>0, <2>1, <2>2, <2>3 DEF VersionsLogged
  <2>4. CASE v.ts > ts
    <3>1. v.ts = ts + 1
      BY <1>0, <2>2, <2>4
    <3>2. v.val = local[c][v.key]
      BY <2>1, <2>4 DEF VersionsOwned
    <3> QED BY <2>1, <3>1, <3>2
  <2> QED BY <1>0, <2>2, <2>3, <2>4
<1>5. CASE Freezes
  BY <1>5 DEF Freezes, VersionsLogged
<1>6. CASE Flush \/ CompactStart \/ CompactMerge \/ CompactInstall
  BY <1>6 DEF Flush, CompactStart, CompactMerge, CompactInstall, VersionsLogged,
              mvccVars, txnVars, stepVars
<1> QED BY <1>0, <1>1, <1>2, <1>3, <1>4, <1>5, <1>6, StepKinds, FreezeKinds DEF EngineStep

\* Every step keeps memtables and SSTs in the order of their age.
LEMMA LayersStep ==
    ASSUME Inv, Inv', VersionsOwned, LayersOrdered, CompactionSound, [Next]_vars,
           MaxWriteErrors = 0
    PROVE  LayersOrdered'
<1>0. TypeOK /\ state \in State /\ ts \in Nat
  <2>1. TypeOK
    BY DEF Inv
  <2> QED BY <2>1 DEF TypeOK, Ts
<1>00. state.mem \in Nat /\ state.oldest \in Nat /\ TableId \subseteq Nat
  BY <1>0, MvccTxnAssumption DEF State, TableId
<1>1. CASE Calm
  BY <1>1 DEF Calm, LayersOrdered
<1>2. ASSUME NEW c \in Client, StartBatch(c)
      PROVE  LayersOrdered'
  BY <1>2 DEF StartBatch, LayersOrdered, storeVars
<1>3. ASSUME NEW c \in Client, NEW k \in Key, PutEntry(c, k)
      PROVE  LayersOrdered'
  <2>1. PICK nv \in Version :
              /\ nv.key = k /\ nv.ts = ts + 1
              /\ state.mem \in TableId
              /\ tables' = [tables EXCEPT ![state.mem] = @ \cup {nv}]
              /\ \A i \in TableId : \A v \in tables[i] : v.key = k => v.ts <= ts
    BY <1>3, PutEntryAdds, <1>0 DEF Inv
  <2>2. state' = state
    BY <1>3 DEF PutEntry
  <2>3. \A i \in TableId : \A v \in tables'[i] : v \in tables[i] \/ (v = nv /\ i = state.mem)
    BY <1>0, <2>1 DEF TypeOK
  <2>4. \A i \in TableId : i > state.mem => tables'[i] = {}
    BY <1>00, <2>1, <2>3 DEF LayersOrdered
  <2>5. ASSUME NEW i \in TableId, NEW j \in TableId, i < j,
               NEW v \in tables'[i], NEW u \in tables'[j], v.key = u.key
        PROVE  v.ts < u.ts
    <3>1. i # state.mem
      BY <1>00, <2>4, <2>5
    <3>2. v \in tables[i] /\ v.ts \in Nat
      BY <1>0, <2>3, <3>1 DEF TypeOK, Version
    <3>3. CASE u \in tables[j]
      BY <2>5, <3>2, <3>3 DEF LayersOrdered, Older
    <3>4. CASE u = nv
      BY <1>0, <2>1, <2>5, <3>2, <3>4
    <3> QED BY <2>3, <3>3, <3>4
  <2>6. \A v \in state.sst : \E i \in TableId : i < state.oldest /\ v \in tables'[i]
    BY <1>0, <2>1 DEF LayersOrdered, TypeOK
  <2> QED BY <2>2, <2>4, <2>5, <2>6 DEF LayersOrdered, Older
<1>4. ASSUME NEW c \in Client, Publish(c)
      PROVE  LayersOrdered'
  BY <1>4, PublishAppends DEF LayersOrdered
<1>5. CASE Freezes
  <2>1. /\ state'.sst = state.sst /\ state'.oldest = state.oldest
        /\ state'.mem >= state.mem /\ state'.mem \in Nat
    BY <1>0, <1>00, <1>5 DEF Freezes, State
  <2> QED BY <1>00, <1>5, <2>1 DEF Freezes, LayersOrdered
<1>6. CASE Flush
  <2>1. /\ state.oldest \in TableId
        /\ state'.oldest = state.oldest + 1 /\ state'.mem = state.mem
        /\ state'.sst = state.sst \cup tables[state.oldest]
        /\ tables' = tables /\ state.oldest < state.mem
    BY <1>0, <1>6, FlushVersions DEF Flush
  <2>2. \A v \in state'.sst : \E i \in TableId : i < state.oldest + 1 /\ v \in tables[i]
    BY <1>00, <2>1 DEF LayersOrdered
  <2> QED BY <1>00, <2>1, <2>2 DEF LayersOrdered
<1>7. CASE CompactStart \/ CompactMerge
  BY <1>7 DEF CompactStart, CompactMerge, LayersOrdered
<1>8. CASE CompactInstall
  <2>1. compaction.output \subseteq state.sst
    BY <1>8, CompactedSubset DEF CompactInstall, CompactionSound
  <2>2. /\ state'.oldest = state.oldest /\ state'.mem = state.mem
        /\ state'.sst \subseteq state.sst /\ tables' = tables
    BY <1>0, <1>8, <2>1 DEF CompactInstall, State
  <2> QED BY <2>2 DEF LayersOrdered
<1> QED BY <1>0, <1>1, <1>2, <1>3, <1>4, <1>5, <1>6, <1>7, <1>8, StepKinds, FreezeKinds DEF EngineStep

\* Every step keeps what is known of a compaction under way.
LEMMA CompactionStep ==
    ASSUME Inv, Inv', VersionsOwned, LayersOrdered, CompactionSound, [Next]_vars,
           MaxWriteErrors = 0
    PROVE  CompactionSound'
<1>0. TypeOK /\ state \in State /\ ts \in Nat
  <2>1. TypeOK
    BY DEF Inv
  <2> QED BY <2>1 DEF TypeOK, Ts
<1>00. /\ state.mem \in TableId /\ state.oldest \in TableId /\ TableId \subseteq Nat
       /\ state.mem \in Nat /\ state.oldest \in Nat
  BY <1>0, MvccTxnAssumption DEF State, TableId
<1>w. /\ Watermark <= Watermark'
      /\ Watermark \in Nat /\ Watermark' \in Nat
  <2>1. Watermark \in Ts
    BY WatermarkIs DEF WatermarkPlaced
  <2>2. WatermarkPlaced'
    BY WatermarkIs, PTL
  <2> QED BY <2>1, <2>2, WatermarkStep, MvccTxnAssumption DEF WatermarkPlaced, Ts
\* The input stays live, and what is added beside it is newer.
<1>f. ASSUME compaction' = compaction, state.sst \subseteq state'.sst,
             compaction.pc # "idle" => Older(compaction.input, Rest')
      PROVE  CompactionSound'
  <2>1. \A w \in Ts : w <= Watermark => w <= Watermark'
    BY <1>w, MvccTxnAssumption DEF Ts
  <2> QED BY <1>f, <2>1 DEF CompactionSound
<1>1. CASE Calm
  <2>1. Rest' = Rest /\ compaction' = compaction /\ state' = state
    BY <1>1 DEF Calm, Rest
  <2> QED BY <1>f, <2>1 DEF CompactionSound
<1>2. ASSUME NEW c \in Client, StartBatch(c)
      PROVE  CompactionSound'
  <2>1. Rest' = Rest /\ compaction' = compaction /\ state' = state
    BY <1>2 DEF StartBatch, Rest, storeVars
  <2> QED BY <1>f, <2>1 DEF CompactionSound
<1>3. ASSUME NEW c \in Client, NEW k \in Key, PutEntry(c, k)
      PROVE  CompactionSound'
  <2>1. PICK nv \in Version :
              /\ nv.key = k /\ nv.ts = ts + 1
              /\ tables' = [tables EXCEPT ![state.mem] = @ \cup {nv}]
              /\ \A i \in TableId : \A v \in tables[i] : v.key = k => v.ts <= ts
    BY <1>3, PutEntryAdds
  <2>2. state' = state /\ compaction' = compaction
    BY <1>3 DEF PutEntry
  <2>3. \A i \in TableId : \A v \in tables'[i] : v \in tables[i] \/ v = nv
    BY <1>0, <2>1 DEF TypeOK
  <2>4. \A v \in Rest' : v \in Rest \/ v = nv
    <3>1. \A i \in state.oldest..state.mem : i \in TableId
      BY <1>00, MvccTxnAssumption DEF TableId
    <3> QED BY <2>2, <2>3, <3>1 DEF Rest
  <2>5. ASSUME compaction.pc # "idle"
        PROVE  Older(compaction.input, Rest')
    <3> SUFFICES ASSUME NEW v \in compaction.input, NEW u \in Rest', v.key = u.key
                 PROVE  v.ts < u.ts
      BY DEF Older
    <3>1. PICK i \in TableId : v \in tables[i]
      BY <2>5 DEF CompactionSound, LayersOrdered
    <3>2. v.ts \in Nat
      BY <1>0, <3>1 DEF TypeOK, Version
    <3>3. CASE u \in Rest
      BY <2>5, <3>3 DEF CompactionSound, Older
    <3>4. CASE u = nv
      BY <1>0, <2>1, <3>1, <3>2, <3>4
    <3> QED BY <2>4, <3>3, <3>4
  <2> QED BY <1>f, <2>2, <2>5
<1>4. ASSUME NEW c \in Client, Publish(c)
      PROVE  CompactionSound'
  <2>1. Rest' = Rest /\ compaction' = compaction /\ state' = state
    BY <1>4, PublishAppends DEF Rest
  <2> QED BY <1>f, <2>1 DEF CompactionSound
<1>5. CASE Freezes
  <2>1. compaction' = compaction /\ tables' = tables
    BY <1>5 DEF Freezes
  <2>2. CASE state' = state
    <3>1. Rest' = Rest
      BY <2>1, <2>2 DEF Rest
    <3> QED BY <1>f, <2>1, <2>2, <3>1 DEF CompactionSound
  <2>3. CASE state.mem < MaxTables /\ state' = [state EXCEPT !.mem = @ + 1]
    <3>1. /\ state'.sst = state.sst /\ state'.oldest = state.oldest
          /\ state'.mem = state.mem + 1
      BY <1>0, <2>3 DEF State
    <3>2. tables[state.mem + 1] = {}
      BY <1>00, <2>3, MvccTxnAssumption DEF LayersOrdered, TableId
    <3>3. \A i \in state.oldest..state.mem + 1 : i \in state.oldest..state.mem \/ i = state.mem + 1
      <4> DEFINE a == state.oldest
                 b == state.mem
      <4>1. a \in Nat /\ b \in Nat
        BY <1>00
      <4> HIDE DEF a, b
      <4>2. \A i \in a..b + 1 : i \in a..b \/ i = b + 1
        BY <4>1
      <4> QED BY <4>2 DEF a, b
    <3>4. Rest' \subseteq Rest
      BY <2>1, <3>1, <3>2, <3>3 DEF Rest
    <3> QED BY <1>f, <2>1, <3>1, <3>4 DEF CompactionSound, Older
  <2> QED BY <1>5, <2>2, <2>3 DEF Freezes
<1>6. CASE Flush
  <2>1. /\ state'.oldest = state.oldest + 1 /\ state'.mem = state.mem
        /\ state'.sst = state.sst \cup tables[state.oldest]
        /\ tables' = tables /\ compaction' = compaction /\ state.oldest < state.mem
    BY <1>0, <1>6, FlushVersions DEF Flush
  <2>2. state.oldest \in state.oldest..state.mem
    BY <1>00, <2>1
  <2>4. \A i \in state.oldest + 1..state.mem : i \in state.oldest..state.mem
    BY <1>00, <2>1
  <2>3. Rest' \subseteq Rest
    BY <2>1, <2>2, <2>4 DEF Rest
  <2> QED BY <1>f, <2>1, <2>3 DEF CompactionSound, Older
<1>7. CASE CompactStart
  <2>1. /\ compaction' = [pc |-> "started", input |-> state.sst, output |-> {}]
        /\ state' = state /\ tables' = tables
    BY <1>7 DEF CompactStart
  <2>2. compaction'.pc = "started" /\ compaction'.input = state.sst
    BY <2>1
  <2>3. Older(state.sst, Rest')
    <3> SUFFICES ASSUME NEW v \in state.sst, NEW u \in Rest', v.key = u.key
                 PROVE  v.ts < u.ts
      BY DEF Older
    <3>1. PICK i \in TableId : i < state.oldest /\ v \in tables[i]
      BY DEF LayersOrdered
    <3>2. PICK j \in state.oldest..state.mem : u \in tables[j]
      BY <2>1, <2>2 DEF Rest
    <3>3. j \in TableId /\ i < j
      BY <1>00, <3>1, <3>2, MvccTxnAssumption DEF TableId
    <3> QED BY <3>1, <3>2, <3>3 DEF LayersOrdered, Older
  <2> QED BY <2>1, <2>2, <2>3 DEF CompactionSound
<1>8. CASE CompactMerge
  <2> DEFINE kept == Compacted(compaction.input, Watermark)
  <2>1. state' = state /\ tables' = tables /\ compaction.pc = "started"
    BY <1>8 DEF CompactMerge
  <2>2. CASE kept = {}
    <3>1. compaction' = Idle
      BY <1>8, <2>2 DEF CompactMerge
    <3> QED BY <3>1 DEF CompactionSound, Idle
  <2>3. CASE kept # {}
    <3>1. compaction' = [pc |-> "merged", input |-> compaction.input, output |-> kept]
      BY <1>8, <2>3 DEF CompactMerge
    <3> HIDE DEF kept
    <3>2. /\ compaction'.input = compaction.input /\ compaction'.output = kept
          /\ compaction'.pc = "merged"
      BY <3>1
    <3>3. Rest' = Rest
      BY <2>1, <3>2 DEF Rest
    <3>4. Watermark \in Ts
      BY WatermarkIs DEF WatermarkPlaced
    <3> QED BY <1>w, <2>1, <3>2, <3>3, <3>4 DEF CompactionSound, kept
  <2> QED BY <2>2, <2>3
<1>9. CASE CompactInstall
  BY <1>9 DEF CompactInstall, CompactionSound, Idle
<1> QED BY <1>0, <1>1, <1>2, <1>3, <1>4, <1>5, <1>6, <1>7, <1>8, <1>9, StepKinds, FreezeKinds
     DEF EngineStep

\* What readers of the current state merge, when the outputs are installed.
LEMMA InstallVersions ==
    ASSUME TypeOK, LayersOrdered, CompactionSound, CompactInstall
    PROVE  /\ compaction.input \subseteq state.sst
           /\ Older(compaction.input, Rest)
           /\ Versions(state) = compaction.input \cup Rest
           /\ \E w \in Ts : /\ w <= Watermark
                            /\ Versions(state)' = Rest \cup Compacted(compaction.input, w)
<1>1. /\ compaction.pc = "merged" /\ tables' = tables /\ state \in State
      /\ state' = [state EXCEPT !.sst = (@ \ compaction.input) \cup compaction.output]
  BY DEF TypeOK, CompactInstall
<1>2. /\ compaction.input \subseteq state.sst
      /\ Older(compaction.input, Rest)
      /\ \E w \in Ts : w <= Watermark /\ compaction.output = Compacted(compaction.input, w)
  BY <1>1 DEF CompactionSound
<1>3. /\ state'.sst = (state.sst \ compaction.input) \cup compaction.output
      /\ state'.oldest = state.oldest /\ state'.mem = state.mem
  BY <1>1 DEF State
<1>4. Versions(state)' = Rest \cup compaction.output
  BY <1>1, <1>3 DEF Versions, Rest
<1>5. Versions(state) = compaction.input \cup Rest
  BY <1>2 DEF Versions, Rest
<1> QED BY <1>2, <1>4, <1>5

\* What a step adds to the versions readers of the current state merge, and
\* what it may take away: nothing above the latest timestamp.
LEMMA NewestKept ==
    ASSUME Inv, StoreInv, [Next]_vars, MaxWriteErrors = 0,
           NEW v \in Versions(state), v.ts > ts
    PROVE  v \in Versions(state)'
<1>0. TypeOK /\ VersionsOwned /\ LayersOrdered /\ CompactionSound /\ ts \in Nat /\ state \in State
  <2>1. TypeOK
    BY DEF Inv
  <2> QED BY <2>1 DEF TypeOK, Ts, StoreInv
<1>1. ASSUME state' = state, tables' = tables
      PROVE  v \in Versions(state)'
  BY <1>1 DEF Versions
<1>2. CASE Calm
  BY <1>1, <1>2 DEF Calm
<1>3. ASSUME NEW c \in Client, StartBatch(c) \/ Publish(c)
      PROVE  v \in Versions(state)'
  BY <1>1, <1>3 DEF StartBatch, Publish, storeVars
<1>4. ASSUME NEW c \in Client, NEW k \in Key, PutEntry(c, k)
      PROVE  v \in Versions(state)'
  <2>1. PICK nv \in Version : tables' = [tables EXCEPT ![state.mem] = @ \cup {nv}]
    BY <1>0, <1>4, PutEntryAdds
  <2>2. \A i \in TableId : tables[i] \subseteq tables'[i]
    BY <1>0, <2>1 DEF TypeOK
  <2>3. \A i \in state.oldest..state.mem : i \in TableId
    BY <1>0, MvccTxnAssumption DEF State, TableId
  <2>4. state' = state
    BY <1>4 DEF PutEntry
  <2> QED BY <2>2, <2>3, <2>4 DEF Versions
<1>5. CASE Freezes
  BY <1>0, <1>5, FreezeVersions
<1>6. CASE Flush
  BY <1>0, <1>6, FlushVersions
<1>7. CASE CompactStart \/ CompactMerge
  BY <1>1, <1>7 DEF CompactStart, CompactMerge
<1>8. CASE CompactInstall
  <2>1. PICK w \in Ts : /\ w <= Watermark
                        /\ Versions(state)' = Rest \cup Compacted(compaction.input, w)
    BY <1>0, <1>8, InstallVersions
  <2>2. v \in compaction.input \cup Rest
    BY <1>0, <1>8, InstallVersions
  <2>3. Watermark <= ts /\ Watermark \in Ts
    BY WatermarkIs DEF WatermarkPlaced
  <2>4. v \in Version
    <3>1. PICK i \in TableId : v \in tables[i]
      BY <1>0, InTables
    <3> QED BY <1>0, <3>1 DEF TypeOK
  <2>5. v.ts > w
    BY <1>0, <2>1, <2>3, <2>4, MvccTxnAssumption DEF Version, Ts
  <2>6. v \in compaction.input => v \in Compacted(compaction.input, w)
    BY <2>4, <2>5 DEF Compacted, KeepOfKey, Version
  <2> QED BY <2>1, <2>2, <2>6
<1> QED BY <1>0, <1>2, <1>3, <1>4, <1>5, <1>6, <1>7, <1>8, StepKinds, FreezeKinds DEF EngineStep

\* Every step keeps what is known of the entries already inserted.
LEMMA InsertedStep ==
    ASSUME Inv, Inv', StoreInv, [Next]_vars, MaxWriteErrors = 0
    PROVE  BatchInserted'
<1>0. TypeOK /\ LocksHeld /\ BatchesFollow /\ BatchInserted /\ ts \in Nat
  <2>1. TypeOK /\ LocksHeld /\ BatchesFollow
    BY DEF Inv
  <2> QED BY <2>1 DEF TypeOK, Ts, StoreInv
<1>k. \A v \in Versions(state) : v.ts = ts + 1 => v \in Versions(state)'
  BY <1>0, NewestKept
\* Writers keep their place and batch, or go on to a freeze or publication.
<1>f. ASSUME \A d \in Client : pc'[d] \in WritingPcs =>
                /\ pc[d] \in WritingPcs
                /\ batchTs'[d] = batchTs[d] /\ local'[d] = local[d]
                /\ pending'[d] = pending[d]
                /\ pc'[d] = pc[d] \/ pc[d] = "freezing"
      PROVE  BatchInserted'
  <2> SUFFICES ASSUME NEW d \in Client, pc'[d] \in WritingPcs
               PROVE  /\ \A k \in WrittenBy(local'[d]) \ pending'[d] :
                            \E v \in Versions(state)' : v.key = k /\ v.ts = batchTs'[d]
                      /\ pc'[d] \in {"freezing", "publishing"} => pending'[d] = {}
    BY DEF BatchInserted, WritingPcs, WrittenBy
  <2>1. /\ pc[d] \in WritingPcs /\ batchTs[d] = ts + 1
        /\ batchTs'[d] = batchTs[d] /\ local'[d] = local[d] /\ pending'[d] = pending[d]
        /\ pc'[d] = pc[d] \/ pc[d] = "freezing"
    BY <1>0, <1>f DEF BatchesFollow
  <2>2. \A k \in WrittenBy(local[d]) \ pending[d] :
           \E v \in Versions(state) : v.key = k /\ v.ts = ts + 1
    BY <1>0, <2>1 DEF BatchInserted
  <2>3. pc'[d] \in {"freezing", "publishing"} => pending[d] = {}
    BY <1>0, <2>1 DEF BatchInserted
  <2> QED BY <1>k, <2>1, <2>2, <2>3
<1>1. CASE Calm
  BY <1>1, <1>f DEF Calm
<1>2. ASSUME NEW c \in Client, StartBatch(c)
      PROVE  BatchInserted'
  <2>1. writeLock = NoClient /\ pending' = [pending EXCEPT ![c] = WrittenBy(local[c])]
        /\ local' = local /\ \A d \in Client : d # c => pc'[d] = pc[d]
    BY <1>0, <1>2 DEF StartBatch, txnVars, Goto, TypeOK
  <2>2. \/ pc' = [pc EXCEPT ![c] = "freezing"] /\ WrittenBy(local[c]) = {}
        \/ pc' = [pc EXCEPT ![c] = "writing"]
    BY <1>2, Zenon DEF StartBatch, Goto
  <2>3. \A d \in Client : pc[d] \notin WritingPcs
    BY <1>0, <2>1, MvccTxnAssumption DEF LocksHeld
  <2>4. pending'[c] = WrittenBy(local[c])
    BY <1>0, <2>1 DEF TypeOK
  <2> SUFFICES ASSUME NEW d \in Client
               PROVE  /\ pc'[d] \in WritingPcs => WrittenBy(local'[d]) \ pending'[d] = {}
                      /\ pc'[d] \in {"freezing", "publishing"} => pending'[d] = {}
    BY DEF BatchInserted, WrittenBy
  <2>5. CASE d = c
    BY <1>0, <2>1, <2>2, <2>4, <2>5 DEF TypeOK
  <2>6. CASE d # c
    BY <2>1, <2>3, <2>6 DEF WritingPcs
  <2> QED BY <2>5, <2>6
<1>3. ASSUME NEW c \in Client, NEW k \in Key, PutEntry(c, k)
      PROVE  BatchInserted'
  <2>1. PICK nv \in Version :
              /\ nv.key = k /\ nv.ts = ts + 1 /\ batchTs[c] = ts + 1
              /\ state.mem \in TableId
              /\ tables' = [tables EXCEPT ![state.mem] = @ \cup {nv}]
    BY <1>0, <1>3, PutEntryAdds DEF StoreInv
  <2>2. /\ pending' = [pending EXCEPT ![c] = @ \ {k}] /\ pc[c] = "writing"
        /\ UNCHANGED <<local, batchTs, state>>
        /\ \A d \in Client : d # c => pc'[d] = pc[d]
    BY <1>0, <1>3 DEF PutEntry, Goto, txnVars, TypeOK
  <2>3. \/ pc' = [pc EXCEPT ![c] = "freezing"] /\ pending[c] = {k}
        \/ pc' = [pc EXCEPT ![c] = "writing"]
    BY <1>3, Zenon DEF PutEntry, Goto
  <2>4. nv \in Versions(state)'
    <3>1. state.mem \in state.oldest..state.mem
      BY <1>0, MvccTxnAssumption DEF StoreInv, LayersOrdered, TypeOK, State, TableId
    <3>2. nv \in tables'[state.mem]
      BY <1>0, <2>1 DEF TypeOK
    <3> QED BY <2>2, <3>1, <3>2 DEF Versions
  <2>5. \A d \in Client : d # c => pc'[d] \notin WritingPcs
    BY <1>0, <2>2 DEF LocksHeld, WritingPcs
  <2>6. pending'[c] = pending[c] \ {k}
    BY <1>0, <2>2 DEF TypeOK
  <2>7. \A j \in WrittenBy(local[c]) \ pending'[c] :
           \E v \in Versions(state)' : v.key = j /\ v.ts = batchTs[c]
    <3> SUFFICES ASSUME NEW j \in WrittenBy(local[c]) \ pending'[c]
                 PROVE  \E v \in Versions(state)' : v.key = j /\ v.ts = batchTs[c]
      OBVIOUS
    <3>1. CASE j = k
      BY <2>1, <2>4, <3>1
    <3>2. CASE j # k
      <4>1. PICK v \in Versions(state) : v.key = j /\ v.ts = batchTs[c]
        BY <1>0, <2>2, <2>6, <3>2 DEF BatchInserted, WritingPcs
      <4> QED BY <1>k, <2>1, <4>1
    <3> QED BY <3>1, <3>2
  <2>8. pc'[c] \in {"freezing", "publishing"} => pending'[c] = {}
    BY <1>0, <2>3, <2>6 DEF TypeOK
  <2> SUFFICES ASSUME NEW d \in Client, pc'[d] \in WritingPcs
               PROVE  /\ \A j \in WrittenBy(local[d]) \ pending'[d] :
                            \E v \in Versions(state)' : v.key = j /\ v.ts = batchTs[d]
                      /\ pc'[d] \in {"freezing", "publishing"} => pending'[d] = {}
    BY <2>2 DEF BatchInserted, WritingPcs, WrittenBy
  <2> QED BY <2>5, <2>7, <2>8
<1>4. ASSUME NEW c \in Client, Publish(c)
      PROVE  BatchInserted'
  <2>1. \A d \in Client : pc'[d] \notin WritingPcs
    BY <1>4, PublishAppends
  <2> QED BY <2>1 DEF BatchInserted, WritingPcs
<1>5. CASE Freezes
  BY <1>5, <1>f DEF Freezes, WritingPcs
<1>6. CASE Flush \/ CompactStart \/ CompactMerge \/ CompactInstall
  BY <1>6, <1>f DEF Flush, CompactStart, CompactMerge, CompactInstall, txnVars, stepVars
<1> QED BY <1>0, <1>1, <1>2, <1>3, <1>4, <1>5, <1>6, StepKinds, FreezeKinds DEF EngineStep

\* Every step keeps what is known of reads under way.
LEMMA ReadsStep ==
    ASSUME Inv, Inv', StoreInv, VersionsLogged', LayersOrdered', [Next]_vars,
           MaxWriteErrors = 0
    PROVE  ReadsFromWatermark'
<1>0. TypeOK /\ TypeOK' /\ ts \in Nat /\ state \in State
  <2>1. TypeOK /\ TypeOK'
    BY DEF Inv
  <2>2. ts \in Nat /\ state \in State
    BY <2>1 DEF TypeOK, Ts
  <2> QED BY <2>1, <2>2
<1>00. VersionsOwned /\ VersionsLogged /\ LayersOrdered /\ CompactionSound
       /\ ReadsFromWatermark /\ BatchInserted
  BY DEF StoreInv
<1>w. /\ Watermark <= Watermark'
      /\ Watermark \in Nat /\ Watermark' \in Nat
      /\ Watermark <= ts
  <2>1. Watermark \in Ts /\ Watermark <= ts
    BY WatermarkIs DEF WatermarkPlaced
  <2>2. WatermarkPlaced'
    BY WatermarkIs, PTL
  <2> QED BY <2>1, <2>2, WatermarkStep, MvccTxnAssumption DEF WatermarkPlaced, Ts
<1>v. Versions(state) \in SUBSET Version /\ Versions(state)' \in SUBSET Version
  <2>1. \A v \in Versions(state) : v \in Version
    BY <1>0, <1>00, InTables DEF TypeOK
  <2>2. \A i \in state'.oldest..state'.mem : i \in TableId
    BY <1>0, MvccTxnAssumption DEF TypeOK, State, TableId
  <2>3. Versions(state)' \in SUBSET Version
    BY <1>0, <2>2 DEF Versions, TypeOK, State
  <2> QED BY <2>1, <2>3
\* Nothing is published and the reads that matter stay the same.
<1>f. ASSUME ts' = ts, log' = log,
             \A k \in Key : \A t \in Watermark..ts :
                Visible(Versions(state)', k, t) = Visible(Versions(state), k, t)
      PROVE  ReadsFromWatermark'
  <2> SUFFICES ASSUME NEW k \in Key, NEW t \in Watermark'..ts
               PROVE  Visible(Versions(state)', k, t) = AfterBatches(log, k, t)
    BY <1>f DEF ReadsFromWatermark
  <2>1. t \in Watermark..ts
    BY <1>0, <1>w
  <2> QED BY <1>00, <1>f, <2>1 DEF ReadsFromWatermark
<1>1. CASE Calm
  <2>1. Versions(state)' = Versions(state) /\ ts' = ts /\ log' = log
    BY <1>1 DEF Calm, Versions
  <2> QED BY <1>f, <2>1
<1>2. ASSUME NEW c \in Client, StartBatch(c)
      PROVE  ReadsFromWatermark'
  <2>1. Versions(state)' = Versions(state) /\ ts' = ts /\ log' = log
    BY <1>2 DEF StartBatch, Versions, storeVars
  <2> QED BY <1>f, <2>1
<1>3. ASSUME NEW c \in Client, NEW k \in Key, PutEntry(c, k)
      PROVE  ReadsFromWatermark'
  <2>1. PICK nv \in Version :
              /\ nv.key = k /\ nv.ts = ts + 1
              /\ state.mem \in TableId
              /\ tables' = [tables EXCEPT ![state.mem] = @ \cup {nv}]
    BY <1>00, <1>3, PutEntryAdds
  <2>2. ts' = ts /\ log' = log /\ state' = state
    BY <1>3 DEF PutEntry, mvccVars
  <2>3. \A i \in TableId : \A v : v \in tables'[i] => v \in tables[i] \/ v = nv
    BY <1>0, <2>1 DEF TypeOK
  <2>4. \A i \in TableId : tables[i] \subseteq tables'[i]
    BY <1>0, <2>1 DEF TypeOK
  <2>5. \A i \in state.oldest..state.mem : i \in TableId
    BY <1>0, MvccTxnAssumption DEF State, TableId
  <2>6. \A v : v # nv => (v \in Versions(state)' <=> v \in Versions(state))
    BY <2>2, <2>3, <2>4, <2>5 DEF Versions
  <2>7. ASSUME NEW j \in Key, NEW t \in Watermark..ts
        PROVE  Visible(Versions(state)', j, t) = Visible(Versions(state), j, t)
    <3>1. ~ (nv.ts <= t)
      BY <1>0, <1>w, <2>1
    <3>2. \A v : v \in Versions(state)' /\ v.key = j /\ v.ts <= t
                   <=> v \in Versions(state) /\ v.key = j /\ v.ts <= t
      BY <2>6, <3>1
    <3> QED BY <3>2, VisibleSame
  <2> QED BY <1>f, <2>2, <2>7
<1>4. ASSUME NEW c \in Client, Publish(c)
      PROVE  ReadsFromWatermark'
  <2> DEFINE S == Versions(state)
  <2>1. /\ ts' = ts + 1 /\ batchTs[c] = ts + 1 /\ writeLock = c
        /\ log'[ts + 1] = local[c] /\ \A u \in 1..ts : log'[u] = log[u]
        /\ UNCHANGED <<tables, state>>
        /\ pc[c] = "publishing"
    BY <1>4, PublishAppends DEF Publish
  <2>2. Versions(state)' = S
    BY <2>1 DEF Versions
  <2>3. \A v \in S : v.ts \in Nat /\ v.ts <= ts + 1 /\ v \in Version
    <3> SUFFICES ASSUME NEW v \in S
                 PROVE  v.ts \in Nat /\ v.ts <= ts + 1
      BY <1>v
    <3>1. PICK i \in TableId : v \in tables[i]
      BY <1>0, <1>00, InTables
    <3>2. v.ts \in Nat
      BY <1>v DEF Version
    <3> QED BY <1>0, <1>00, <2>1, <3>1, <3>2 DEF VersionsOwned
  <2>4. Unambiguous(S, ts + 1)
    <3>1. \A v \in S : v.val = log'[v.ts][v.key]
      <4> SUFFICES ASSUME NEW v \in S PROVE v.val = log'[v.ts][v.key]
        OBVIOUS
      <4>1. PICK i \in TableId : v \in tables[i]
        BY <1>0, <1>00, InTables
      <4> QED BY <2>1, <2>3, <4>1 DEF VersionsLogged
    <3> QED BY <3>1 DEF Unambiguous
  <2> SUFFICES ASSUME NEW k \in Key, NEW t \in Watermark'..ts + 1
               PROVE  Visible(S, k, t) = AfterBatches(log', k, t)
    BY <2>1, <2>2 DEF ReadsFromWatermark
  <2>5. t \in Nat
    BY <1>w
  <2>6. ASSUME NEW n \in Nat, n <= ts
        PROVE  AfterBatches(log', k, n) = AfterBatches(log, k, n)
    <3>1. \A u \in 1..n : log'[u] = log[u]
      BY <1>0, <2>1, <2>6
    <3> QED BY <3>1, ValueSame
  <2>7. CASE t <= ts
    <3>1. t \in Watermark..ts
      BY <1>0, <1>w, <2>7
    <3> QED BY <1>00, <2>5, <2>6, <2>7, <3>1 DEF ReadsFromWatermark
  <2>8. CASE t = ts + 1 /\ local[c][k] # NoWrite
    <3>1. AfterBatches(log', k, t) = local[c][k]
      BY <1>0, <2>1, <2>8, ValueWritten
    <3>2. PICK v \in S : v.key = k /\ v.ts = ts + 1
      BY <1>00, <2>1, <2>8 DEF BatchInserted, WritingPcs, WrittenBy
    <3>3. v.val = local[c][k]
      <4>1. PICK i \in TableId : v \in tables[i]
        BY <1>0, <1>00, InTables
      <4>2. v.ts > ts
        BY <1>0, <3>2
      <4> QED BY <1>00, <2>1, <3>2, <4>1, <4>2 DEF VersionsOwned
    <3>4. Visible(S, k, t) = v.val
      <4>1. \A u \in S : u.key = k /\ u.ts <= t => u.ts <= v.ts
        BY <2>8, <3>2
      <4>2. v.ts <= t
        BY <1>0, <2>8, <3>2
      <4>3. Unambiguous(S, t)
        BY <2>4, <2>8
      <4> HIDE DEF S
      <4> QED BY <1>v, <2>5, <3>2, <4>1, <4>2, <4>3, VisibleNewest, MvccTxnAssumption DEF S
    <3> QED BY <3>1, <3>3, <3>4
  <2>9. CASE t = ts + 1 /\ local[c][k] = NoWrite
    <3>1. AfterBatches(log', k, t) = AfterBatches(log, k, ts)
      <4>1. \A u \in ts + 1..ts + 1 : log'[u][k] = NoWrite
        BY <1>0, <2>1, <2>9
      <4>2. AfterBatches(log', k, ts + 1) = AfterBatches(log', k, ts)
        BY <1>0, <4>1, ValueUntouched
      <4> QED BY <1>0, <2>6, <2>9, <4>2
    <3>2. \A v \in S : v.key = k => v.ts <= ts
      <4> SUFFICES ASSUME NEW v \in S, v.key = k, ~ (v.ts <= ts)
                   PROVE  FALSE
        OBVIOUS
      <4>1. PICK i \in TableId : v \in tables[i]
        BY <1>0, <1>00, InTables
      <4>2. v.ts > ts
        BY <1>0, <2>3
      <4>3. v.val = NoWrite
        BY <1>00, <2>1, <2>9, <4>1, <4>2 DEF VersionsOwned
      <4> QED BY <2>3, <4>3, MvccTxnAssumption DEF Version
    <3>3. \A v : v \in S /\ v.key = k /\ v.ts <= t <=> v \in S /\ v.key = k /\ v.ts <= ts
      <4>1. \A v \in S : v.key = k => (v.ts <= t <=> v.ts <= ts)
        BY <1>0, <2>3, <2>9, <3>2
      <4> QED BY <4>1
    <3>4. Visible(S, k, t) = Visible(S, k, ts)
      <4> HIDE DEF S
      <4> QED BY <3>3, VisibleSame
    <3>5. ts \in Watermark..ts
      BY <1>0, <1>w
    <3> QED BY <1>00, <3>1, <3>4, <3>5 DEF ReadsFromWatermark
  <2> QED BY <1>0, <1>w, <2>7, <2>8, <2>9
<1>5. CASE Freezes
  <2>1. Versions(state)' = Versions(state) /\ ts' = ts /\ log' = log
    BY <1>0, <1>00, <1>5, FreezeVersions DEF Freezes
  <2> QED BY <1>f, <2>1
<1>6. CASE Flush
  <2>1. Versions(state)' = Versions(state) /\ ts' = ts /\ log' = log
    BY <1>0, <1>6, FlushVersions DEF Flush, mvccVars
  <2> QED BY <1>f, <2>1
<1>7. CASE CompactStart \/ CompactMerge
  <2>1. Versions(state)' = Versions(state) /\ ts' = ts /\ log' = log
    BY <1>7 DEF CompactStart, CompactMerge, mvccVars, Versions
  <2> QED BY <1>f, <2>1
<1>8. CASE CompactInstall
  <2> DEFINE I == compaction.input
  <2>1. ts' = ts /\ log' = log
    BY <1>8 DEF CompactInstall, mvccVars
  <2>2. PICK w \in Ts : /\ w <= Watermark
                        /\ Versions(state)' = Rest \cup Compacted(I, w)
                        /\ Versions(state) = I \cup Rest
                        /\ Older(I, Rest)
    BY <1>0, <1>00, <1>8, InstallVersions
  <2>3. ASSUME NEW k \in Key, NEW t \in Watermark..ts
        PROVE  Visible(Versions(state)', k, t) = Visible(Versions(state), k, t)
    <3>1. t \in Nat /\ w \in Nat /\ w <= t /\ t <= ts
      BY <1>0, <1>w, <2>2 DEF Ts
    <3>2. Unambiguous(I \cup Rest, t)
      BY <1>0, <1>00, <2>2, <3>1, LoggedUnambiguous
    <3>3. I \in SUBSET Version /\ Rest \in SUBSET Version
      BY <1>v, <2>2
    <3> HIDE DEF I, Rest
    <3> QED BY <2>2, <3>1, <3>2, <3>3, CompactionKeepsReads, MvccTxnAssumption
  <2> QED BY <1>f, <2>1, <2>3
<1> QED BY <1>0, <1>1, <1>2, <1>3, <1>4, <1>5, <1>6, <1>7, <1>8, StepKinds, FreezeKinds DEF EngineStep

\* Every step keeps every snapshot readable.
LEMMA SnapshotsStep ==
    ASSUME Inv, Inv', StoreInv, [Next]_vars, MaxWriteErrors = 0
    PROVE  SnapshotsFixed'
<1>0. TypeOK /\ BatchesFollow /\ Positions /\ ts \in Nat
  <2>1. TypeOK /\ BatchesFollow /\ Positions
    BY DEF Inv
  <2> QED BY <2>1 DEF TypeOK, Ts
<1>00. SnapshotsFixed /\ ReadsFromWatermark /\ VersionsOwned
  BY DEF StoreInv
\* Gets go on, or begin, while what they merge stays the same.
<1>f. ASSUME tables' = tables, log' = log,
             \A d \in Client : pc'[d] = "reading" =>
                /\ readTs'[d] = readTs[d]
                /\ \/ pc[d] = "reading" /\ snapshot'[d] = snapshot[d]
                   \/ d \in open /\ snapshot'[d] = state
      PROVE  SnapshotsFixed'
  <2> SUFFICES ASSUME NEW d \in Client, pc'[d] = "reading", NEW k \in Key
               PROVE  Visible(Versions(snapshot[d])', k, readTs'[d])
                        = AfterBatches(log', k, readTs'[d])
    BY DEF SnapshotsFixed
  <2>1. CASE pc[d] = "reading" /\ snapshot'[d] = snapshot[d]
    <3>1. Versions(snapshot[d])' = Versions(snapshot[d]) /\ readTs'[d] = readTs[d]
      BY <1>f, <2>1 DEF Versions
    <3> QED BY <1>00, <1>f, <2>1, <3>1 DEF SnapshotsFixed
  <2>2. CASE d \in open /\ snapshot'[d] = state
    <3>1. Versions(snapshot[d])' = Versions(state) /\ readTs'[d] = readTs[d]
      BY <1>f, <2>2 DEF Versions
    <3>2. readTs[d] \in Watermark..ts
      <4>1. Watermark <= readTs[d] /\ Watermark \in Ts
        BY <2>2, WatermarkIs DEF WatermarkPlaced
      <4>2. readTs[d] \in Ts /\ readTs[d] <= ts
        BY <1>0 DEF TypeOK, BatchesFollow
      <4> QED BY <1>0, <4>1, <4>2 DEF Ts
    <3> QED BY <1>00, <1>f, <3>1, <3>2 DEF ReadsFromWatermark
  <2> QED BY <1>f, <2>1, <2>2
<1>1. CASE Calm
  BY <1>1, <1>f DEF Calm
<1>2. ASSUME NEW c \in Client, StartBatch(c)
      PROVE  SnapshotsFixed'
  <2>1. /\ tables' = tables /\ log' = log /\ snapshot' = snapshot /\ readTs' = readTs
        /\ \E l \in {"freezing", "writing"} : pc' = [pc EXCEPT ![c] = l]
    BY <1>2 DEF StartBatch, storeVars, txnVars, Goto
  <2> QED BY <1>0, <1>f, <2>1 DEF TypeOK
<1>3. ASSUME NEW c \in Client, NEW k \in Key, PutEntry(c, k)
      PROVE  SnapshotsFixed'
  <2>1. PICK nv \in Version :
              /\ nv.ts = ts + 1
              /\ state.mem \in TableId
              /\ tables' = [tables EXCEPT ![state.mem] = @ \cup {nv}]
    BY <1>00, <1>3, PutEntryAdds
  <2>2. /\ log' = log /\ snapshot' = snapshot /\ readTs' = readTs
        /\ \E l \in {"freezing", "writing"} : pc' = [pc EXCEPT ![c] = l]
    BY <1>3 DEF PutEntry, storeVars, txnVars, Goto
  <2>3. \A i \in TableId : \A v : v # nv => (v \in tables'[i] <=> v \in tables[i])
    BY <1>0, <2>1 DEF TypeOK
  <2> SUFFICES ASSUME NEW d \in Client, pc'[d] = "reading", NEW j \in Key
               PROVE  Visible(Versions(snapshot[d])', j, readTs[d])
                        = AfterBatches(log, j, readTs[d])
    BY <2>2 DEF SnapshotsFixed
  <2>4. pc[d] = "reading"
    BY <1>0, <2>2 DEF TypeOK
  <2>5. \A i \in snapshot[d].oldest..snapshot[d].mem : i \in TableId
    BY <1>0, MvccTxnAssumption DEF TypeOK, State, TableId
  <2>6. \A v : v # nv => (v \in Versions(snapshot[d])' <=> v \in Versions(snapshot[d]))
    BY <2>2, <2>3, <2>5 DEF Versions
  <2>7. ~ (nv.ts <= readTs[d])
    <3>1. readTs[d] \in Nat /\ readTs[d] <= ts
      BY <1>0 DEF TypeOK, Ts, BatchesFollow
    <3> QED BY <1>0, <2>1, <3>1
  <2>8. \A v : v \in Versions(snapshot[d])' /\ v.key = j /\ v.ts <= readTs[d]
                 <=> v \in Versions(snapshot[d]) /\ v.key = j /\ v.ts <= readTs[d]
    BY <2>6, <2>7
  <2>9. Visible(Versions(snapshot[d])', j, readTs[d]) = Visible(Versions(snapshot[d]), j, readTs[d])
    BY <2>8, VisibleSame
  <2> QED BY <1>00, <2>4, <2>9 DEF SnapshotsFixed
<1>4. ASSUME NEW c \in Client, Publish(c)
      PROVE  SnapshotsFixed'
  <2>1. /\ tables' = tables /\ snapshot' = snapshot /\ readTs' = readTs
        /\ \E l \in {"recording", "finished", "idle"} : pc' = [pc EXCEPT ![c] = l]
        /\ \A u \in 1..ts : log'[u] = log[u]
    BY <1>4, PublishAppends
  <2> SUFFICES ASSUME NEW d \in Client, pc'[d] = "reading", NEW j \in Key
               PROVE  Visible(Versions(snapshot[d])', j, readTs[d])
                        = AfterBatches(log', j, readTs[d])
    BY <2>1 DEF SnapshotsFixed
  <2>2. pc[d] = "reading"
    BY <1>0, <2>1 DEF TypeOK
  <2>3. Versions(snapshot[d])' = Versions(snapshot[d])
    BY <2>1 DEF Versions
  <2>4. readTs[d] \in Nat /\ \A u \in 1..readTs[d] : log'[u] = log[u]
    BY <1>0, <2>1 DEF TypeOK, Ts, BatchesFollow
  <2>5. AfterBatches(log', j, readTs[d]) = AfterBatches(log, j, readTs[d])
    BY <2>4, ValueSame
  <2> QED BY <1>00, <2>2, <2>3, <2>5 DEF SnapshotsFixed
<1>5. CASE Freezes
  BY <1>5, <1>f DEF Freezes
<1>6. CASE Flush \/ CompactStart \/ CompactMerge \/ CompactInstall
  BY <1>6, <1>f DEF Flush, CompactStart, CompactMerge, CompactInstall, txnVars, stepVars
<1> QED BY <1>0, <1>1, <1>2, <1>3, <1>4, <1>5, <1>6, StepKinds, FreezeKinds DEF EngineStep

-----------------------------------------------------------------------------
(* The invariant, and what readers see.                                    *)

\* StoreInv holds of the empty store.
LEMMA StoreInit == Init => StoreInv
<1> SUFFICES ASSUME Init
             PROVE  StoreInv
  OBVIOUS
<1> USE MvccTxnAssumption
<1>1. /\ \A i \in TableId : tables[i] = {}
      /\ state = NoState /\ compaction = Idle /\ ts = 0
      /\ \A c \in Client : pc[c] = "idle"
  BY DEF Init
<1>2. Versions(state) = {}
  BY <1>1 DEF Versions, NoState, TableId
<1>3. VersionsOwned /\ VersionsLogged
  BY <1>1 DEF VersionsOwned, VersionsLogged
<1>4. BatchInserted /\ SnapshotsFixed
  BY <1>1 DEF BatchInserted, SnapshotsFixed, WritingPcs
<1>5. LayersOrdered
  BY <1>1 DEF LayersOrdered, Older, NoState
<1>6. CompactionSound
  BY <1>1 DEF CompactionSound, Idle
<1>7. ReadsFromWatermark
  <2> SUFFICES ASSUME NEW k \in Key, NEW t \in Watermark..ts
               PROVE  Visible(Versions(state), k, t) = AfterBatches(log, k, t)
    BY DEF ReadsFromWatermark
  <2>1. Watermark \in Ts
    BY InitInv, WatermarkIs DEF WatermarkPlaced
  <2>2. 1..t = {}
    BY <1>1, <2>1 DEF Ts
  <2>3. AfterBatches(log, k, t) = Empty
    BY <2>2 DEF AfterBatches
  <2>4. Visible(Versions(state), k, t) = Empty
    BY <1>2, VisibleNone
  <2> QED BY <2>3, <2>4
<1> QED BY <1>3, <1>4, <1>5, <1>6, <1>7 DEF StoreInv

\* StoreInv is inductive, next to Inv.
LEMMA StoreStep ==
    ASSUME Inv, Inv', StoreInv, [Next]_vars, MaxWriteErrors = 0
    PROVE  StoreInv'
<1>1. VersionsOwned /\ VersionsLogged /\ LayersOrdered /\ CompactionSound
  BY DEF StoreInv
<1>2. VersionsOwned' /\ VersionsLogged' /\ LayersOrdered' /\ CompactionSound'
  BY <1>1, OwnedStep, LoggedStep, LayersStep, CompactionStep
<1>3. BatchInserted' /\ SnapshotsFixed'
  BY InsertedStep, SnapshotsStep
<1>4. ReadsFromWatermark'
  BY <1>2, ReadsStep
<1> QED BY <1>2, <1>3, <1>4 DEF StoreInv

\* StoreInv holds in every reachable state.
LEMMA StoreInvariance ==
    ASSUME MaxWriteErrors = 0
    PROVE  Spec => [](Inv /\ StoreInv)
<1>1. Init => StoreInv
  BY StoreInit
<1>2. Inv /\ Inv' /\ StoreInv /\ [Next]_vars => StoreInv'
  BY StoreStep
<1> QED BY <1>1, <1>2, Invariance, PTL DEF Spec

(***************************************************************************)
(* Versions above the latest commit timestamp belong to the one writer     *)
(* that holds write_lock, wherever the memtable that holds them has gone   *)
(* meanwhile (lsm_storage.rs write_batch_inner).                           *)
(***************************************************************************)
THEOREM UnpublishedOwned == Spec => []UnpublishedVersionsOwned
<1>1. CASE MaxWriteErrors = 0
  <2>1. StoreInv => UnpublishedVersionsOwned
    BY DEF StoreInv, VersionsOwned, UnpublishedVersionsOwned
  <2> QED BY <1>1, <2>1, StoreInvariance, PTL
<1>2. CASE MaxWriteErrors # 0
  <2>1. UnpublishedVersionsOwned
    BY <1>2 DEF UnpublishedVersionsOwned
  <2> QED BY <2>1, PTL
<1> QED BY <1>1, <1>2

(***************************************************************************)
(* Every open transaction, every one that could begin now and every get    *)
(* that works on an older clone of the state reads its snapshot: freezes,  *)
(* flushes and compactions under a reader change nothing it sees, as long  *)
(* as no write has failed (lsm_storage.rs get_with_ts, compact.rs          *)
(* compact_generate_sst_from_iter, mvcc.rs watermark).                     *)
(***************************************************************************)
THEOREM SnapshotReadsHold ==
    ASSUME MaxWriteErrors = 0
    PROVE  Spec => []SnapshotReads
<1>1. Inv /\ StoreInv => SnapshotReads
  <2> SUFFICES ASSUME Inv, StoreInv
               PROVE  SnapshotReads
    OBVIOUS
  <2>1. TypeOK /\ BatchesFollow /\ ts \in Nat
    <3>1. TypeOK /\ BatchesFollow
      BY DEF Inv
    <3> QED BY <3>1 DEF TypeOK, Ts
  <2>2. \A k, t : Committed(k, t) = AfterBatches(log, k, t)
    BY DEF Committed, AfterBatches
  <2>3. ASSUME NEW k \in Key, NEW t \in {readTs[c] : c \in open} \cup {ts}
        PROVE  Visible(Versions(state), k, t) = Committed(k, t)
    <3>1. Watermark \in Ts /\ Watermark <= ts /\ \A c \in open : Watermark <= readTs[c]
      BY WatermarkIs DEF WatermarkPlaced
    <3>2. \A c \in open : readTs[c] \in Ts /\ readTs[c] <= ts
      BY <2>1 DEF TypeOK, BatchesFollow
    <3>3. t \in Watermark..ts
      BY <2>1, <2>3, <3>1, <3>2 DEF Ts
    <3> QED BY <2>2, <3>3 DEF StoreInv, ReadsFromWatermark
  <2>4. ASSUME NEW k \in Key, NEW c \in Client, pc[c] = "reading"
        PROVE  Visible(Versions(snapshot[c]), k, readTs[c]) = Committed(k, readTs[c])
    BY <2>2, <2>4 DEF StoreInv, SnapshotsFixed
  <2> QED BY <2>3, <2>4 DEF SnapshotReads
<1> QED BY <1>1, StoreInvariance, PTL

-----------------------------------------------------------------------------
(***************************************************************************)
(* Serializability of MvccTxn, and that MvccTxn implements SnapshotStore.  *)
(* Both rest on ReadInv, which relates what a transaction has read to the  *)
(* history: its reads are those of its snapshot, the read set covers them, *)
(* and validation has shown that nothing read was written since.           *)
(***************************************************************************)

\* Between validation and publication.
CommitPcs == {"batching", "writing", "freezing", "publishing"}

\* What a transaction has read is the snapshot at its read timestamp.
SeenAtSnapshot ==
    \A c \in open : \A k \in Key :
        seen[c][k] # NotRead => seen[c][k] = AfterBatches(log, k, readTs[c])

\* In serializable mode the read set covers what was or is being read.
ReadsTracked ==
    Serializable =>
        \A c \in open : \A k \in Key :
            seen[c][k] # NotRead \/ (pc[c] = "reading" /\ k \in target[c])
            => Hash[k] \in readSet[c]

\* A get in progress looks up a key that the transaction has not written.
TargetsUnwritten ==
    \A c \in Client : pc[c] = "reading" => \A k \in target[c] : local[c][k] = NoWrite

\* Nothing is left of an earlier transaction or batch.
StartsClean ==
    \A c \in Client :
        /\ pc[c] = "idle" => local[c] = NoBatch
        /\ c \notin open => seen[c] = Unread

\* Nothing that a validated writer has read has been written since it began.
Validated ==
    Serializable =>
        \A c \in open :
            pc[c] \in CommitPcs /\ WrittenBy(local[c]) # {} =>
               \A k \in Key : seen[c][k] # NotRead =>
                  \A u \in readTs[c] + 1..ts : log[u][k] = NoWrite

ReadInv ==
    /\ SeenAtSnapshot
    /\ ReadsTracked
    /\ TargetsUnwritten
    /\ StartsClean
    /\ Validated

\* ReadInv holds at the start, when no transaction has read anything.
LEMMA ReadInit == Init => ReadInv
BY MvccTxnAssumption
   DEF Init, ReadInv, SeenAtSnapshot, ReadsTracked, TargetsUnwritten, StartsClean, Validated

\* A writer whose validation finds no conflict: the validation table covers
\* every batch since it began, and none of them writes a key it has read.
LEMMA ValidationSound ==
    ASSUME Inv, ValidationComplete, ReadsTracked, Serializable, NEW c \in open,
           pc[c] = "locking", commitLock = NoClient, ~ Conflict(c),
           WrittenBy(local[c]) # {}, NEW k \in Key, seen[c][k] # NotRead,
           NEW u \in readTs[c] + 1..ts
    PROVE  log[u][k] = NoWrite
<1>1. TypeOK /\ LocksHeld
  BY DEF Inv
<1>2. \A d \in open : pc[d] # "recording"
  BY <1>1, MvccTxnAssumption DEF LocksHeld, TypeOK
<1>3. PICK e \in committedTxns : e.ts = u /\ e.hashes = Hashes(WrittenBy(log[u]))
  BY <1>2 DEF ValidationComplete
<1>4. u > readTs[c]
  BY <1>1 DEF TypeOK, Ts
<1>5. Hash[k] \in readSet[c]
  BY DEF ReadsTracked
<1>6. Hash[k] \notin Hashes(WrittenBy(log[u]))
  BY <1>3, <1>4, <1>5 DEF Conflict
<1> QED BY <1>6 DEF Hashes, WrittenBy

\* Every step keeps what is known of the reads of open transactions.
LEMMA ReadStep ==
    ASSUME Inv, Inv', StoreInv, ValidationComplete, ReadInv, [Next]_vars, MaxWriteErrors = 0
    PROVE  ReadInv'
<1> USE DEF mvccVars, storeVars, txnVars, stepVars, Goto
<1>0. TypeOK /\ LocksHeld /\ Positions /\ BatchesFollow
  BY DEF Inv
<1>00. SeenAtSnapshot /\ ReadsTracked /\ TargetsUnwritten /\ StartsClean /\ Validated
  BY DEF ReadInv
\* Steps that neither read nor begin, end, validate or publish a transaction.
<1>f. ASSUME UNCHANGED <<ts, log, open, seen, readTs, readSet, target>>,
             \A d \in Client :
                /\ pc'[d] = "reading" => pc[d] = "reading" /\ local'[d] = local[d]
                /\ d \in open /\ pc'[d] \in CommitPcs =>
                      pc[d] \in CommitPcs /\ local'[d] = local[d]
                /\ pc'[d] = "idle" => local'[d] = NoBatch
      PROVE  ReadInv'
  <2>1. SeenAtSnapshot'
    BY <1>00, <1>f DEF SeenAtSnapshot
  <2>2. ReadsTracked'
    BY <1>0, <1>00, <1>f DEF ReadsTracked, TypeOK
  <2>3. TargetsUnwritten' /\ StartsClean'
    BY <1>00, <1>f DEF TargetsUnwritten, StartsClean
  <2>4. Validated'
    <3> SUFFICES ASSUME Serializable, NEW d \in open, pc'[d] \in CommitPcs,
                        WrittenBy(local'[d]) # {}, NEW k \in Key, seen[d][k] # NotRead,
                        NEW u \in readTs[d] + 1..ts
                 PROVE  log[u][k] = NoWrite
      BY <1>f DEF Validated, WrittenBy
    <3>1. pc[d] \in CommitPcs /\ local'[d] = local[d]
      BY <1>0, <1>f DEF TypeOK
    <3> QED BY <1>00, <3>1 DEF Validated
  <2> QED BY <2>1, <2>2, <2>3, <2>4 DEF ReadInv
<1>1. ASSUME NEW c \in Client, NewTxn(c)
      PROVE  ReadInv'
  <2>1. /\ pc' = [pc EXCEPT ![c] = "active"] /\ open' = open \cup {c}
        /\ readTs' = [readTs EXCEPT ![c] = ts] /\ c \notin open
        /\ UNCHANGED <<ts, log, seen, readSet, target, local>>
    BY <1>0, <1>1 DEF NewTxn, Positions
  <2>2. seen[c] = Unread
    BY <1>00, <2>1 DEF StartsClean
  <2>3. \A k \in Key : seen[c][k] = NotRead
    BY <2>2 DEF Unread
  <2>4. \A d \in open : d # c /\ d \in Client /\ readTs'[d] = readTs[d] /\ pc'[d] = pc[d]
    BY <1>0, <2>1 DEF TypeOK
  <2>5. pc'[c] = "active"
    BY <1>0, <2>1 DEF TypeOK
  <2>6. SeenAtSnapshot'
    BY <1>00, <2>1, <2>3, <2>4 DEF SeenAtSnapshot
  <2>7. ReadsTracked'
    BY <1>00, <2>1, <2>3, <2>4, <2>5 DEF ReadsTracked
  <2>8. TargetsUnwritten' /\ StartsClean'
    BY <1>0, <1>00, <2>1, <2>5 DEF TargetsUnwritten, StartsClean, TypeOK
  <2>9. Validated'
    <3>0. ts' = ts /\ log' = log /\ seen' = seen /\ local' = local
      BY <2>1
    <3> SUFFICES ASSUME Serializable, NEW d \in open', pc'[d] \in CommitPcs,
                        WrittenBy(local'[d]) # {}, NEW k \in Key, seen'[d][k] # NotRead,
                        NEW u \in readTs'[d] + 1..ts'
                 PROVE  log'[u][k] = NoWrite
      BY DEF Validated, WrittenBy
    <3>1. d # c /\ d \in open
      BY <2>1, <2>3, <3>0
    <3> QED BY <1>00, <2>4, <3>0, <3>1 DEF Validated
  <2> QED BY <2>6, <2>7, <2>8, <2>9 DEF ReadInv
<1>2. ASSUME NEW c \in Client, NEW k \in Key, NEW v, Put(c, k, v)
      PROVE  ReadInv'
  BY <1>0, <1>00, <1>2, <1>f DEF Put, TypeOK, CommitPcs, StartsClean
<1>4. ASSUME NEW c \in Client, NEW k \in Key, GetLocal(c, k)
      PROVE  ReadInv'
  <2>1. /\ UNCHANGED <<ts, log, open, seen, readTs, target, pc, local>>
        /\ \A d \in Client : readSet[d] \subseteq readSet'[d]
    BY <1>0, <1>4 DEF GetLocal, TrackRead, TypeOK
  <2>2. SeenAtSnapshot' /\ TargetsUnwritten' /\ StartsClean' /\ Validated'
    BY <1>00, <2>1 DEF SeenAtSnapshot, TargetsUnwritten, StartsClean, Validated, WrittenBy
  <2>3. ReadsTracked'
    BY <1>0, <1>00, <2>1 DEF ReadsTracked, TypeOK
  <2> QED BY <2>2, <2>3 DEF ReadInv
<1>5. ASSUME NEW c \in Client, NEW k \in Key, GetStart(c, k)
      PROVE  ReadInv'
  <2>1. /\ UNCHANGED <<ts, log, open, seen, readTs, local>>
        /\ pc' = [pc EXCEPT ![c] = "reading"] /\ target' = [target EXCEPT ![c] = {k}]
        /\ local[c][k] = NoWrite /\ pc[c] = "active"
    BY <1>5 DEF GetStart
  <2>2. \A d \in Client : readSet[d] \subseteq readSet'[d]
    BY <1>0, <1>5 DEF GetStart, TrackRead, TypeOK
  <2>3. Serializable => Hash[k] \in readSet'[c]
    BY <1>0, <1>5 DEF GetStart, TrackRead, TypeOK
  <2>4. SeenAtSnapshot'
    BY <1>00, <2>1 DEF SeenAtSnapshot
  <2>5. TargetsUnwritten' /\ StartsClean'
    BY <1>0, <1>00, <2>1 DEF TargetsUnwritten, StartsClean, TypeOK
  <2>6. Validated'
    <3> SUFFICES ASSUME Serializable, NEW d \in open, pc'[d] \in CommitPcs,
                        WrittenBy(local[d]) # {}, NEW j \in Key, seen[d][j] # NotRead,
                        NEW u \in readTs[d] + 1..ts
                 PROVE  log[u][j] = NoWrite
      BY <2>1 DEF Validated, WrittenBy
    <3>1. pc[d] \in CommitPcs
      BY <1>0, <2>1 DEF TypeOK, CommitPcs
    <3> QED BY <1>00, <3>1 DEF Validated
  <2>7. ReadsTracked'
    <3> SUFFICES ASSUME Serializable, NEW d \in open, NEW j \in Key,
                        seen[d][j] # NotRead \/ (pc'[d] = "reading" /\ j \in target'[d])
                 PROVE  Hash[j] \in readSet'[d]
      BY <2>1 DEF ReadsTracked
    <3>1. CASE d = c
      BY <1>0, <1>00, <2>1, <2>2, <2>3, <3>1 DEF ReadsTracked, TypeOK
    <3>2. CASE d # c
      BY <1>0, <1>00, <2>1, <2>2, <3>2 DEF ReadsTracked, TypeOK
    <3> QED BY <3>1, <3>2
  <2> QED BY <2>4, <2>5, <2>6, <2>7 DEF ReadInv
<1>6. ASSUME NEW c \in Client, GetFinish(c)
      PROVE  ReadInv'
  <2>1. /\ UNCHANGED <<ts, log, open, readTs, readSet, local>>
        /\ pc' = [pc EXCEPT ![c] = "active"] /\ target' = [target EXCEPT ![c] = {}]
        /\ pc[c] = "reading"
    BY <1>6 DEF GetFinish
  <2>2. PICK k \in target[c] :
           seen' = [seen EXCEPT ![c][k] = Visible(Versions(snapshot[c]), k, readTs[c])]
    BY <1>6 DEF GetFinish
  <2>3. k \in Key /\ c \in open
    BY <1>0, <2>1, <2>2 DEF TypeOK, Positions, WritingPcs
  <2>4. Visible(Versions(snapshot[c]), k, readTs[c]) = AfterBatches(log, k, readTs[c])
    BY <2>1, <2>3 DEF StoreInv, SnapshotsFixed
  <2>5. seen' = [seen EXCEPT ![c][k] = AfterBatches(log, k, readTs[c])]
    BY <2>2, <2>4
  <2>6. \A d \in Client, j \in Key :
           /\ d # c \/ j # k => seen'[d][j] = seen[d][j]
           /\ d = c /\ j = k => seen'[d][j] = AfterBatches(log, k, readTs[c])
    BY <1>0, <2>3, <2>5 DEF TypeOK
  <2>7. \A d \in open : d \in Client
    BY <1>0 DEF TypeOK
  <2>8. SeenAtSnapshot'
    BY <1>00, <2>1, <2>6, <2>7 DEF SeenAtSnapshot
  <2>9. ReadsTracked'
    <3> SUFFICES ASSUME Serializable, NEW d \in open, NEW j \in Key,
                        seen'[d][j] # NotRead \/ (pc'[d] = "reading" /\ j \in target'[d])
                 PROVE  Hash[j] \in readSet[d]
      BY <2>1 DEF ReadsTracked
    <3>1. CASE d = c /\ j = k
      BY <1>00, <2>1, <2>2, <3>1 DEF ReadsTracked
    <3>2. CASE d # c \/ j # k
      BY <1>0, <1>00, <2>1, <2>6, <2>7, <3>2 DEF ReadsTracked, TypeOK
    <3> QED BY <3>1, <3>2
  <2>10. TargetsUnwritten'
    BY <1>0, <1>00, <2>1 DEF TargetsUnwritten, TypeOK
  <2>11. \A d \in Client : d \notin open => seen'[d] = seen[d]
    BY <1>0, <2>3, <2>5 DEF TypeOK
  <2>12. StartsClean'
    BY <1>0, <1>00, <2>1, <2>11 DEF StartsClean, TypeOK
  <2>13. Validated'
    <3>1. \A d \in open : pc'[d] \in CommitPcs => d # c /\ pc[d] \in CommitPcs
      BY <1>0, <2>1, <2>7 DEF TypeOK, CommitPcs
    <3> QED BY <1>00, <2>1, <2>6, <2>7, <3>1 DEF Validated, WrittenBy
  <2> QED BY <2>8, <2>9, <2>10, <2>12, <2>13 DEF ReadInv
<1>7. ASSUME NEW c \in Client, Drop(c)
      PROVE  ReadInv'
  <2>1. /\ UNCHANGED <<ts, log, target>>
        /\ open' = open \ {c} /\ pc' = [pc EXCEPT ![c] = "idle"]
        /\ readTs' = [readTs EXCEPT ![c] = 0] /\ readSet' = [readSet EXCEPT ![c] = {}]
        /\ local' = [local EXCEPT ![c] = NoBatch] /\ seen' = [seen EXCEPT ![c] = Unread]
    BY <1>7 DEF Drop
  <2>2. \A d \in Client \ {c} :
           /\ pc'[d] = pc[d] /\ readTs'[d] = readTs[d] /\ readSet'[d] = readSet[d]
           /\ local'[d] = local[d] /\ seen'[d] = seen[d]
    BY <1>0, <2>1 DEF TypeOK
  <2>3. pc'[c] = "idle" /\ local'[c] = NoBatch /\ seen'[c] = Unread
    BY <1>0, <2>1 DEF TypeOK
  <2>4. \A d \in open' : d \in open /\ d \in Client \ {c}
    BY <1>0, <2>1 DEF TypeOK
  <2>5. SeenAtSnapshot' /\ ReadsTracked'
    BY <1>00, <2>1, <2>2, <2>4 DEF SeenAtSnapshot, ReadsTracked
  <2>6. TargetsUnwritten' /\ StartsClean'
    BY <1>00, <2>1, <2>2, <2>3 DEF TargetsUnwritten, StartsClean
  <2>7. Validated'
    BY <1>00, <2>1, <2>2, <2>4 DEF Validated, WrittenBy
  <2> QED BY <2>5, <2>6, <2>7 DEF ReadInv
<1>8. ASSUME NEW c \in Client, Commit(c) \/ Record(c)
      PROVE  ReadInv'
  BY <1>0, <1>00, <1>8, <1>f DEF Commit, Record, TypeOK, CommitPcs, StartsClean
<1>9. ASSUME NEW c \in Client, Validate(c)
      PROVE  ReadInv'
  <2>1. /\ UNCHANGED <<ts, log, open, seen, readTs, readSet, target, local>>
        /\ pc[c] = "locking" /\ commitLock = NoClient
    BY <1>9 DEF Validate
  <2>2. CASE pc' = [pc EXCEPT ![c] = "finished"]
    BY <1>0, <1>00, <2>1, <2>2, <1>f DEF TypeOK, CommitPcs, StartsClean
  <2>3. CASE pc' = [pc EXCEPT ![c] = "batching"] /\ ~ Conflict(c)
    <3>1. SeenAtSnapshot' /\ TargetsUnwritten' /\ StartsClean'
      BY <1>0, <1>00, <2>1, <2>3 DEF SeenAtSnapshot, TargetsUnwritten, StartsClean, TypeOK
    <3>2. ReadsTracked'
      BY <1>0, <1>00, <2>1, <2>3 DEF ReadsTracked, TypeOK
    <3>3. Validated'
      <4> SUFFICES ASSUME Serializable, NEW d \in open, pc'[d] \in CommitPcs,
                          WrittenBy(local[d]) # {}, NEW k \in Key, seen[d][k] # NotRead,
                          NEW u \in readTs[d] + 1..ts
                   PROVE  log[u][k] = NoWrite
        BY <2>1 DEF Validated, WrittenBy
      <4>1. CASE d = c
        BY <1>00, <2>1, <2>3, <4>1, ValidationSound
      <4>2. CASE d # c
        BY <1>0, <1>00, <2>3, <4>2 DEF Validated, TypeOK
      <4> QED BY <4>1, <4>2
    <3> QED BY <3>1, <3>2, <3>3 DEF ReadInv
  <2>4. \/ pc' = [pc EXCEPT ![c] = "finished"]
        \/ pc' = [pc EXCEPT ![c] = "batching"] /\ ~ Conflict(c)
    BY <1>9, Zenon DEF Validate
  <2> QED BY <2>2, <2>3, <2>4
<1>11. ASSUME NEW c \in Client, WriteBatch(c)
      PROVE  ReadInv'
  <2>1. c \notin open
    BY <1>0, <1>11 DEF WriteBatch, Positions
  <2> QED BY <1>0, <1>00, <1>11, <1>f, <2>1 DEF WriteBatch, TypeOK, CommitPcs, StartsClean
<1>12. ASSUME NEW c \in Client, StartBatch(c)
      PROVE  ReadInv'
  <2>1. \E l \in {"freezing", "writing"} : pc' = [pc EXCEPT ![c] = l]
    BY <1>12 DEF StartBatch
  <2> QED BY <1>0, <1>00, <1>12, <1>f, <2>1 DEF StartBatch, TypeOK, CommitPcs, StartsClean
<1>13. ASSUME NEW c \in Client, NEW k \in Key, PutEntry(c, k)
      PROVE  ReadInv'
  <2>1. \E l \in {"freezing", "writing"} : pc' = [pc EXCEPT ![c] = l]
    BY <1>13 DEF PutEntry
  <2> QED BY <1>0, <1>00, <1>13, <1>f, <2>1 DEF PutEntry, TypeOK, CommitPcs, StartsClean
<1>14. ASSUME NEW c \in Client, TryFreeze(c)
      PROVE  ReadInv'
  BY <1>0, <1>00, <1>14, <1>f DEF TryFreeze, TypeOK, CommitPcs, StartsClean
<1>15. ASSUME NEW c \in Client, Publish(c)
      PROVE  ReadInv'
  <2>1. /\ ts \in Nat /\ ts' = ts + 1 /\ \A u \in 1..ts : log'[u] = log[u]
        /\ pc[c] = "publishing"
        /\ UNCHANGED <<open, readTs, readSet, seen, target>>
        /\ ReturnFromWrite(c, TRUE)
    BY <1>15, PublishAppends DEF Publish
  <2>2. \/ /\ c \in open /\ local' = local
           /\ \E l \in {"recording", "finished"} : pc' = [pc EXCEPT ![c] = l]
        \/ /\ c \notin open /\ local' = [local EXCEPT ![c] = NoBatch]
           /\ pc' = [pc EXCEPT ![c] = "idle"]
    BY <2>1, ReturnCases
  <2>3. SeenAtSnapshot'
    <3> SUFFICES ASSUME NEW d \in open, NEW k \in Key, seen[d][k] # NotRead
                 PROVE  seen[d][k] = AfterBatches(log', k, readTs[d])
      BY <2>1 DEF SeenAtSnapshot
    <3>1. readTs[d] \in Nat /\ readTs[d] <= ts
      BY <1>0 DEF TypeOK, Ts, BatchesFollow
    <3>2. \A u \in 1..readTs[d] : log'[u] = log[u]
      BY <2>1, <3>1
    <3>3. AfterBatches(log', k, readTs[d]) = AfterBatches(log, k, readTs[d])
      BY <3>1, <3>2, ValueSame
    <3> QED BY <1>00, <3>3 DEF SeenAtSnapshot
  <2>4. \A d \in Client : d # c => pc'[d] = pc[d] /\ local'[d] = local[d]
    BY <1>0, <2>2 DEF TypeOK
  <2>5. /\ pc'[c] \in {"recording", "finished", "idle"}
        /\ pc'[c] = "idle" => local'[c] = NoBatch
    BY <1>0, <2>2 DEF TypeOK
  <2>6. ReadsTracked'
    <3>1. \A d \in open : pc'[d] = "reading" => pc[d] = "reading"
      BY <1>0, <2>4, <2>5 DEF TypeOK
    <3> QED BY <1>00, <2>1, <3>1 DEF ReadsTracked
  <2>7. TargetsUnwritten' /\ StartsClean'
    BY <1>00, <2>1, <2>4, <2>5 DEF TargetsUnwritten, StartsClean
  <2>8. Validated'
    <3> SUFFICES ASSUME Serializable, NEW d \in open, pc'[d] \in CommitPcs
                 PROVE  FALSE
      BY <2>1 DEF Validated
    <3>1. d # c /\ d \in Client /\ pc[d] \in CommitPcs
      BY <1>0, <2>4, <2>5 DEF CommitPcs, TypeOK
    <3>2. commitLock = d
      BY <1>0, <3>1 DEF LocksHeld, CommitPcs, WritingPcs
    <3>3. c \in open
      BY <1>0, <2>1 DEF Positions
    <3>4. commitLock = c
      BY <1>0, <2>1, <3>3 DEF LocksHeld, WritingPcs
    <3> QED BY <3>1, <3>2, <3>4
  <2> QED BY <2>3, <2>6, <2>7, <2>8 DEF ReadInv
<1>16. ASSUME NEW c \in Client, FailWrite(c)
      PROVE  FALSE
  BY <1>0, <1>16 DEF TypeOK, FailWrite
<1>17. ASSUME EngineStep \/ UNCHANGED vars
      PROVE  ReadInv'
  BY <1>0, <1>00, <1>17, <1>f DEF EngineStep, ForceFreeze, Flush, CompactStart,
       CompactMerge, CompactInstall, vars, StartsClean
<1> QED
  BY <1>1, <1>2, <1>4, <1>5, <1>6, <1>7, <1>8, <1>9, <1>11, <1>12, <1>13, <1>14,
     <1>15, <1>16, <1>17
  DEF Next, TxnStep, WriteStep, Delete

\* Without failed writes, ReadInv holds in every reachable state.
LEMMA ReadInvariance ==
    ASSUME MaxWriteErrors = 0
    PROVE  Spec => [](Inv /\ StoreInv /\ ReadInv)
<1>1. Init => ReadInv
  BY ReadInit
<1>2. Inv /\ Inv' /\ StoreInv /\ ValidationComplete /\ ReadInv /\ [Next]_vars => ReadInv'
  BY ReadStep
<1> QED BY <1>1, <1>2, StoreInvariance, ValidationTableComplete, PTL DEF Spec

(***************************************************************************)
(* Serializable mode: from validation to publication, everything a writing *)
(* transaction has read with get is still the current value, so it could   *)
(* have run alone at its commit timestamp.  Validation over the table of   *)
(* committed write sets, which garbage collection keeps complete, and      *)
(* commit_lock together are what makes it so (txn.rs commit).              *)
(***************************************************************************)
THEOREM SerializabilityHolds ==
    ASSUME MaxWriteErrors = 0
    PROVE  Spec => []Serializability
<1>1. Inv /\ ReadInv => Serializability
  <2> SUFFICES ASSUME Inv, ReadInv, Serializable, NEW c \in open, pc[c] \in CommitPcs,
                      WrittenBy(local[c]) # {}, NEW k \in Key, seen[c][k] # NotRead
               PROVE  seen[c][k] = Committed(k, ts)
    BY DEF Serializability, CommitPcs
  <2>1. /\ ts \in Nat /\ readTs[c] \in Nat /\ readTs[c] <= ts
    BY DEF Inv, TypeOK, BatchesFollow, Ts
  <2>2. \A u \in readTs[c] + 1..ts : log[u][k] = NoWrite
    BY DEF ReadInv, Validated
  <2>3. AfterBatches(log, k, ts) = AfterBatches(log, k, readTs[c])
    BY <2>1, <2>2, ValueUntouched
  <2>4. seen[c][k] = AfterBatches(log, k, readTs[c])
    BY DEF ReadInv, SeenAtSnapshot
  <2> QED BY <2>3, <2>4 DEF Committed, AfterBatches
<1> QED BY <1>1, ReadInvariance, PTL

-----------------------------------------------------------------------------
(* Every step of MvccTxn is a step of SnapshotStore, or changes nothing    *)
(* that SnapshotStore describes.                                           *)

\* The batch of each open transaction.
OpenLocal == [c \in Client |-> IF c \in open THEN local[c] ELSE NoBatch]

\* What SnapshotStore sees of the state of MvccTxn.
LEMMA StoreView ==
    /\ Store!vars = <<log, ts, Status, readTs, OpenLocal, seen>>
    /\ Store!vars' = <<log', ts', Status', readTs', OpenLocal', seen'>>
BY DEF Store!vars, OpenLocal

\* A commit step of the store: the batch of a validated transaction is appended.
LEMMA PublishRefines ==
    ASSUME Inv, Inv', StoreInv, ReadInv, NEW c \in Client, Publish(c)
    PROVE  Store!Next
<1>0. TypeOK /\ LocksHeld /\ Positions /\ BatchesFollow
  BY DEF Inv
<1>1. /\ ts \in Nat /\ ts' = ts + 1 /\ ts + 1 \in 1..MaxTs
      /\ log' = [log EXCEPT ![ts + 1] = local[c]]
      /\ pc[c] = "publishing"
      /\ UNCHANGED <<open, readTs, seen>>
      /\ ReturnFromWrite(c, TRUE)
  BY <1>0, PublishAppends DEF Publish
<1>2. ts < MaxTs
  BY <1>1, MvccTxnAssumption
<1>3. \A d \in Client : d # c => pc'[d] = pc[d] /\ local'[d] = local[d]
  <2>1. \/ /\ local' = local
           /\ \E l \in {"recording", "finished"} : pc' = [pc EXCEPT ![c] = l]
        \/ /\ local' = [local EXCEPT ![c] = NoBatch]
           /\ pc' = [pc EXCEPT ![c] = "idle"]
    BY <1>1, ReturnCases
  <2> QED BY <1>0, <2>1 DEF TypeOK
<1>4. CASE c \in open
  <2>1. local' = local /\ pc'[c] \in {"recording", "finished"}
    <3>1. /\ local' = local
          /\ \E l \in {"recording", "finished"} : pc' = [pc EXCEPT ![c] = l]
      BY <1>1, <1>4, ReturnCases
    <3> QED BY <1>0, <3>1 DEF TypeOK
  <2>2. OpenLocal' = OpenLocal /\ OpenLocal[c] = local[c]
    BY <1>1, <1>4, <2>1 DEF OpenLocal
  <2>3. Status[c] = "open" /\ Status' = [Status EXCEPT ![c] = "done"]
    BY <1>0, <1>1, <1>3, <1>4, <2>1 DEF Status
  <2>4. Serializable /\ WrittenBy(local[c]) # {} =>
           \A u \in readTs[c] + 1..ts : \A k \in Key : seen[c][k] # NotRead => log[u][k] = NoWrite
    BY <1>1, <1>4 DEF ReadInv, Validated, CommitPcs
  <2>5. Serializable /\ Store!WrittenBy(OpenLocal[c]) # {} =>
           Store!Untouched(log, {k \in Key : seen[c][k] # NotRead}, readTs[c], ts)
    BY <2>2, <2>4 DEF Store!Untouched, Store!WrittenBy, WrittenBy
  <2>6. Store!Append(OpenLocal[c])
    BY <1>1, <1>2, <2>2 DEF Store!Append
  <2>7. Store!Commit(c)
    BY <1>1, <2>2, <2>3, <2>5, <2>6 DEF Store!Commit, OpenLocal
  <2> QED BY <2>7 DEF Store!Next
<1>5. CASE c \notin open
  <2>1. ~ Serializable
    BY <1>0, <1>1, <1>5 DEF Positions
  <2>2. Status[c] = "none" /\ Status' = Status
    BY <1>1, <1>3, <1>5 DEF Status
  <2>3. OpenLocal' = OpenLocal
    BY <1>1, <1>3, <1>5 DEF OpenLocal
  <2>4. local[c] \in Store!Batch /\ Store!Append(local[c])
    BY <1>0, <1>1, <1>2 DEF Store!Append, Store!Batch, TypeOK, Batch
  <2>5. Store!WriteBatch(c)
    BY <1>1, <2>1, <2>2, <2>3, <2>4 DEF Store!WriteBatch, OpenLocal
  <2> QED BY <2>5 DEF Store!Next
<1> QED BY <1>4, <1>5

\* Every step is a step of the abstract store or does not show in it.
LEMMA RefineStep ==
    ASSUME Inv, Inv', StoreInv, ReadInv, [Next]_vars, MaxWriteErrors = 0
    PROVE  [Store!Next]_(Store!vars)
<1> USE DEF mvccVars, storeVars, txnVars, stepVars, Goto
<1>0. TypeOK /\ Positions
  BY DEF Inv
<1>f. ASSUME UNCHANGED <<ts, log, seen, open, readTs>>,
             \A d \in open : /\ local'[d] = local[d]
                             /\ pc'[d] \in {"recording", "finished"}
                                   <=> pc[d] \in {"recording", "finished"}
      PROVE  [Store!Next]_(Store!vars)
  <2>1. Status' = Status
    BY <1>f DEF Status
  <2>2. OpenLocal' = OpenLocal
    BY <1>f DEF OpenLocal
  <2> QED BY <1>f, <2>1, <2>2, StoreView
<1>1. ASSUME NEW c \in Client, NewTxn(c)
      PROVE  Store!Next
  <2>1. /\ open' = open \cup {c} /\ readTs' = [readTs EXCEPT ![c] = ts]
        /\ pc' = [pc EXCEPT ![c] = "active"] /\ pc[c] = "idle"
        /\ UNCHANGED <<ts, log, seen, local>> /\ c \notin open
    BY <1>0, <1>1 DEF NewTxn, Positions
  <2>2. local[c] = NoBatch
    BY <2>1 DEF ReadInv, StartsClean
  <2>3. Status[c] = "none" /\ Status' = [Status EXCEPT ![c] = "open"]
    BY <1>0, <2>1 DEF Status, TypeOK
  <2>4. OpenLocal' = OpenLocal
    BY <2>1, <2>2 DEF OpenLocal
  <2>5. Store!Begin(c)
    BY <2>1, <2>3, <2>4 DEF Store!Begin, OpenLocal
  <2> QED BY <2>5 DEF Store!Next
<1>2. ASSUME NEW c \in Client, NEW k \in Key, NEW v \in Value \cup {Empty}, Put(c, k, v)
      PROVE  Store!Next
  <2>1. /\ pc[c] = "active" /\ local' = [local EXCEPT ![c][k] = v]
        /\ UNCHANGED <<ts, log, seen, open, readTs, pc>>
    BY <1>2 DEF Put
  <2>2. c \in open
    BY <1>0, <2>1 DEF Positions, WritingPcs
  <2>3. Status[c] = "open" /\ Status' = Status
    BY <2>1, <2>2 DEF Status
  <2>4. OpenLocal' = [OpenLocal EXCEPT ![c][k] = v]
    BY <1>0, <2>1, <2>2 DEF OpenLocal, TypeOK
  <2>5. Store!Write(c, k, v)
    BY <2>1, <2>3, <2>4 DEF Store!Write, OpenLocal
  <2> QED BY <2>5 DEF Store!Next
<1>4. ASSUME NEW c \in Client, NEW k \in Key, GetLocal(c, k)
      PROVE  [Store!Next]_(Store!vars)
  BY <1>4, <1>f DEF GetLocal
<1>5. ASSUME NEW c \in Client, NEW k \in Key, GetStart(c, k)
      PROVE  [Store!Next]_(Store!vars)
  BY <1>0, <1>5, <1>f DEF GetStart, TypeOK
<1>6. ASSUME NEW c \in Client, GetFinish(c)
      PROVE  Store!Next
  <2>1. /\ pc[c] = "reading" /\ pc' = [pc EXCEPT ![c] = "active"]
        /\ UNCHANGED <<ts, log, open, readTs, local>>
    BY <1>6 DEF GetFinish
  <2>2. PICK k \in target[c] :
           seen' = [seen EXCEPT ![c][k] = Visible(Versions(snapshot[c]), k, readTs[c])]
    BY <1>6 DEF GetFinish
  <2>3. k \in Key /\ c \in open
    BY <1>0, <2>1, <2>2 DEF TypeOK, Positions, WritingPcs
  <2>4. Visible(Versions(snapshot[c]), k, readTs[c]) = Store!ValueAt(log, k, readTs[c])
    <3>1. Visible(Versions(snapshot[c]), k, readTs[c]) = AfterBatches(log, k, readTs[c])
      BY <2>1, <2>3 DEF StoreInv, SnapshotsFixed
    <3> QED BY <3>1 DEF AfterBatches, Store!ValueAt, Store!Max, Max
  <2>5. Status[c] = "open" /\ Status' = Status
    BY <1>0, <2>1, <2>3 DEF Status, TypeOK
  <2>6. OpenLocal' = OpenLocal /\ OpenLocal[c][k] = NoWrite
    BY <2>1, <2>2, <2>3 DEF OpenLocal, ReadInv, TargetsUnwritten
  <2>7. seen' = [seen EXCEPT ![c][k] = Store!ValueAt(log, k, readTs[c])]
    BY <2>2, <2>4
  <2>8. Store!Read(c, k)
    BY <2>1, <2>5, <2>6, <2>7 DEF Store!Read, OpenLocal
  <2> QED BY <2>3, <2>8 DEF Store!Next
<1>7. ASSUME NEW c \in Client, Drop(c)
      PROVE  Store!Next
  <2>1. /\ c \in open /\ open' = open \ {c} /\ pc' = [pc EXCEPT ![c] = "idle"]
        /\ readTs' = [readTs EXCEPT ![c] = 0] /\ seen' = [seen EXCEPT ![c] = Unread]
        /\ local' = [local EXCEPT ![c] = NoBatch]
        /\ UNCHANGED <<ts, log>>
    BY <1>7 DEF Drop
  <2>2. Status[c] # "none" /\ Status' = [Status EXCEPT ![c] = "none"]
    BY <1>0, <2>1 DEF Status, TypeOK
  <2>3. OpenLocal' = [OpenLocal EXCEPT ![c] = NoBatch]
    BY <1>0, <2>1 DEF OpenLocal, TypeOK
  <2>4. Store!Close(c)
    BY <2>1, <2>2, <2>3 DEF Store!Close, OpenLocal, Store!NoBatch, NoBatch,
                            Store!Unread, Unread
  <2> QED BY <2>4 DEF Store!Next
<1>8. ASSUME NEW c \in Client, Commit(c) \/ Record(c)
      PROVE  [Store!Next]_(Store!vars)
  BY <1>0, <1>8, <1>f DEF Commit, Record, TypeOK
<1>9. ASSUME NEW c \in Client, Validate(c)
      PROVE  [Store!Next]_(Store!vars)
  <2>1. /\ UNCHANGED <<ts, log, seen, open, readTs, local>>
        /\ pc[c] = "locking"
        /\ pc' = [pc EXCEPT ![c] = "finished"] \/ pc' = [pc EXCEPT ![c] = "batching"]
    BY <1>9 DEF Validate
  <2>2. CASE pc' = [pc EXCEPT ![c] = "finished"]
    <3>1. c \in open
      BY <1>0, <2>1 DEF Positions, WritingPcs
    <3>2. Status[c] = "open" /\ Status' = [Status EXCEPT ![c] = "done"]
      BY <1>0, <2>1, <2>2, <3>1 DEF Status, TypeOK
    <3>3. OpenLocal' = OpenLocal
      BY <2>1 DEF OpenLocal
    <3>4. Store!Abort(c)
      BY <2>1, <3>2, <3>3 DEF Store!Abort, OpenLocal
    <3> QED BY <3>4 DEF Store!Next
  <2>3. CASE pc' = [pc EXCEPT ![c] = "batching"]
    BY <1>0, <2>1, <2>3, <1>f DEF TypeOK
  <2> QED BY <2>1, <2>2, <2>3
<1>11. ASSUME NEW c \in Client, WriteBatch(c)
      PROVE  [Store!Next]_(Store!vars)
  <2>1. c \notin open
    BY <1>0, <1>11 DEF WriteBatch, Positions
  <2> QED BY <1>0, <1>11, <1>f, <2>1 DEF WriteBatch, TypeOK
<1>12. ASSUME NEW c \in Client, StartBatch(c)
      PROVE  [Store!Next]_(Store!vars)
  <2>1. \E l \in {"freezing", "writing"} : pc' = [pc EXCEPT ![c] = l]
    BY <1>12 DEF StartBatch
  <2> QED BY <1>0, <1>12, <1>f, <2>1 DEF StartBatch, TypeOK
<1>13. ASSUME NEW c \in Client, NEW k \in Key, PutEntry(c, k)
      PROVE  [Store!Next]_(Store!vars)
  <2>1. \E l \in {"freezing", "writing"} : pc' = [pc EXCEPT ![c] = l]
    BY <1>13 DEF PutEntry
  <2> QED BY <1>0, <1>13, <1>f, <2>1 DEF PutEntry, TypeOK
<1>14. ASSUME NEW c \in Client, TryFreeze(c)
      PROVE  [Store!Next]_(Store!vars)
  BY <1>0, <1>14, <1>f DEF TryFreeze, TypeOK
<1>15. ASSUME NEW c \in Client, Publish(c)
      PROVE  Store!Next
  BY <1>15, PublishRefines
<1>16. ASSUME NEW c \in Client, FailWrite(c)
      PROVE  FALSE
  BY <1>0, <1>16 DEF TypeOK, FailWrite
<1>17. ASSUME EngineStep \/ UNCHANGED vars
      PROVE  [Store!Next]_(Store!vars)
  BY <1>17, <1>f DEF EngineStep, ForceFreeze, Flush, CompactStart, CompactMerge,
       CompactInstall, vars
<1> QED
  BY <1>1, <1>2, <1>4, <1>5, <1>6, <1>7, <1>8, <1>9, <1>11, <1>12, <1>13, <1>14,
     <1>15, <1>16, <1>17
  DEF Next, TxnStep, WriteStep, Delete

(***************************************************************************)
(* The transaction layer implements the log of atomic batches: freezing,   *)
(* flushing, compaction, the two locks and the validation table can not be *)
(* told apart from a store where a transaction reads one prefix of the log *)
(* and appends its batch at once, and in serializable mode only if nothing *)
(* it read has been written since (mvcc.rs, txn.rs, lsm_storage.rs).       *)
(***************************************************************************)
THEOREM MvccImplementsSnapshotStore ==
    ASSUME MaxWriteErrors = 0
    PROVE  Spec => ImplementsSnapshotStore
<1>1. Init => Store!Init
  BY DEF Init, Store!Init, Status, Store!NoBatch, Store!Unread, NoBatch, Unread
<1>2. Inv /\ Inv' /\ StoreInv /\ ReadInv /\ [Next]_vars => [Store!Next]_(Store!vars)
  BY RefineStep
<1> QED BY <1>1, <1>2, ReadInvariance, PTL DEF Spec, ImplementsSnapshotStore, Store!Spec

=============================================================================
