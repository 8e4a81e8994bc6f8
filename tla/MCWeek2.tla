------------------------------ MODULE MCWeek2 ------------------------------
(* Week2 with the settings of the run.                                     *)
EXTENDS Week2

CONSTANTS c1, c2

Calling(isSimple, hasLog, size, keys, calls) ==
    [simple |-> isSimple, wal |-> hasLog, limit |-> size, keys |-> keys,
     calls |-> [kind \in Calls |-> IF kind \in DOMAIN calls THEN calls[kind] ELSE 0]]

\* Two writers of one key, whose records reach memtable and log in any order.
Logs == Calling(TRUE, TRUE, 1, {1}, [put |-> 2, open |-> 1])

\* A memtable that is not full when the engine is closed.
Closing == Calling(TRUE, FALSE, 2, {1, 2}, [put |-> 2, open |-> 1])

\* A reader beside writers, flushes and compactions.
Reads == Calling(TRUE, FALSE, 1, {1}, [put |-> 1, del |-> 1, get |-> 1])

\* Deletions all the way to the bottom level and to the next open.
Deletions == Calling(TRUE, FALSE, 1, {1}, [put |-> 1, del |-> 1, open |-> 1])

\* Flushes forced by two clients at once.
Forced == Calling(FALSE, FALSE, 1, {1}, [put |-> 1, flush |-> 2, full |-> 1])

\* Full compactions by two clients at once, beside the flush thread.
Full == Calling(FALSE, FALSE, 1, {1}, [put |-> 2, full |-> 2, open |-> 1])

\* A scan over two keys that are being written.
Scans == Calling(FALSE, FALSE, 1, {1, 2}, [put |-> 2, scan |-> 1])

AllSettings == {Logs, Closing, Reads, Deletions, Forced, Full, Scans}

Unbounded == [kind |-> "none", k |-> 0]
Incl(key) == [kind |-> "incl", k |-> key]
Excl(key) == [kind |-> "excl", k |-> key]
SomeRanges == {<<Unbounded, Unbounded>>, <<Incl(1), Excl(2)>>, <<Excl(1), Incl(2)>>}
=============================================================================
