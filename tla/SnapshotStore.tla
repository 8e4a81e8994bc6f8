--------------------------- MODULE SnapshotStore ---------------------------
(***************************************************************************)
(* What the transaction layer of mini-lsm-mvcc promises its users, with no *)
(* timestamps of versions, locks, memtables, files or garbage collection:  *)
(* the store is a log of batches, each applied atomically; a transaction   *)
(* reads the prefix of the log that existed when it began, sees its own    *)
(* writes, and appends them as one batch.  In serializable mode a          *)
(* transaction that wrote something commits only if nothing it read has    *)
(* been written since it began.  MvccTxn is shown to implement this        *)
(* specification.                                                          *)
(***************************************************************************)
EXTENDS Integers, FiniteSetsExt

CONSTANTS
    Key,            \* user keys
    Value,          \* non-empty values
    Empty,          \* the empty value: a deletion marker, and "no value" as a result
    NoWrite,        \* "this batch does not write that key"
    NotRead,        \* "this transaction has not read that key"
    Client,         \* threads that use the engine
    Serializable,   \* LsmStorageOptions::serializable
    MaxTs           \* bound: number of batches ever committed

VARIABLES
    log,        \* log[t]: the batch committed at timestamp t, for t <= latest
    latest,     \* number of batches committed
    status,     \* status[c]: "none", "open" or "done" (commit was called)
    view,       \* view[c]: length of the log when c's transaction began
    local,      \* local[c]: the batch c's transaction has built
    seen        \* seen[c][k]: what c's transaction has read from the store

vars == <<log, latest, status, view, local, seen>>

Batch   == [Key -> Value \cup {Empty, NoWrite}]
NoBatch == [k \in Key |-> NoWrite]
Unread  == [k \in Key |-> NotRead]

\* The keys a batch writes.
WrittenBy(b) == {k \in Key : b[k] # NoWrite}

\* The value of k after the first t batches of history h.
ValueAt(h, k, t) ==
    LET writers == {u \in 1..t : h[u][k] # NoWrite}
    IN  IF writers = {} THEN Empty ELSE h[Max(writers)][k]

\* No batch after the first t, up to the n-th, writes a key of R.
Untouched(h, R, t, n) == \A u \in t+1..n : WrittenBy(h[u]) \cap R = {}

TypeOK ==
    /\ log \in [1..MaxTs -> Batch]
    /\ latest \in 0..MaxTs
    /\ status \in [Client -> {"none", "open", "done"}]
    /\ view \in [Client -> 0..MaxTs]
    /\ local \in [Client -> Batch]
    /\ seen \in [Client -> [Key -> Value \cup {Empty, NotRead}]]

Init ==
    /\ log = [t \in 1..MaxTs |-> NoBatch]
    /\ latest = 0
    /\ status = [c \in Client |-> "none"]
    /\ view = [c \in Client |-> 0]
    /\ local = [c \in Client |-> NoBatch]
    /\ seen = [c \in Client |-> Unread]

Begin(c) ==
    /\ status[c] = "none"
    /\ status' = [status EXCEPT ![c] = "open"]
    /\ view' = [view EXCEPT ![c] = latest]
    /\ UNCHANGED <<log, latest, local, seen>>

Write(c, k, w) ==
    /\ status[c] = "open"
    /\ local' = [local EXCEPT ![c][k] = w]
    /\ UNCHANGED <<log, latest, status, view, seen>>

\* A read of a key the transaction has not written itself.
Read(c, k) ==
    /\ status[c] = "open"
    /\ local[c][k] = NoWrite
    /\ seen' = [seen EXCEPT ![c][k] = ValueAt(log, k, view[c])]
    /\ UNCHANGED <<log, latest, status, view, local>>

Append(b) ==
    /\ latest < MaxTs
    /\ latest' = latest + 1
    /\ log' = [log EXCEPT ![latest + 1] = b]

Commit(c) ==
    /\ status[c] = "open"
    /\ Serializable /\ WrittenBy(local[c]) # {} =>
           Untouched(log, {k \in Key : seen[c][k] # NotRead}, view[c], latest)
    /\ Append(local[c])
    /\ status' = [status EXCEPT ![c] = "done"]
    /\ UNCHANGED <<view, local, seen>>

\* The engine may refuse to commit.
Abort(c) ==
    /\ status[c] = "open"
    /\ status' = [status EXCEPT ![c] = "done"]
    /\ UNCHANGED <<log, latest, view, local, seen>>

\* The transaction object is dropped, committed or not.
Close(c) ==
    /\ status[c] # "none"
    /\ status' = [status EXCEPT ![c] = "none"]
    /\ view' = [view EXCEPT ![c] = 0]
    /\ local' = [local EXCEPT ![c] = NoBatch]
    /\ seen' = [seen EXCEPT ![c] = Unread]
    /\ UNCHANGED <<log, latest>>

\* A batch written outside any transaction (not in serializable mode).
WriteBatch(c) ==
    /\ ~Serializable
    /\ status[c] = "none"
    /\ \E b \in Batch : Append(b)
    /\ UNCHANGED <<status, view, local, seen>>

Next ==
    \E c \in Client :
        \/ Begin(c)
        \/ \E k \in Key, w \in Value \cup {Empty} : Write(c, k, w)
        \/ \E k \in Key : Read(c, k)
        \/ Commit(c)
        \/ Abort(c)
        \/ Close(c)
        \/ WriteBatch(c)

Spec == Init /\ [][Next]_vars

=============================================================================
