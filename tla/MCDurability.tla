---------------------------- MODULE MCDurability ----------------------------
(* Durability with the settings of the runs.                               *)
EXTENDS Durability

\* Process crashes with logs, outside the two windows in which one is fatal: before
\* a new memtable's log is recorded, and after a flushed memtable's log is removed.
Kill ==
    [wal |-> TRUE, crash |-> "kill", torn |-> FALSE, crashes |-> 2,
     crashAt |-> {"free", "freeze.recorded", "flush.built", "flush.installed",
                  "flush.recorded", "compact.installed", "compact.dir_synced",
                  "open.recorded"},
     syncAt |-> Positions \ (OpenPositions \cup {"freeze.swapped", "freeze.synced"})]

\* Machine crashes where the directory is as the code needs it.
Power ==
    [wal |-> TRUE, crash |-> "power", torn |-> FALSE, crashes |-> 1,
     crashAt |-> {"free", "flush.built", "flush.installed"} \cup CompactPositions,
     syncAt |-> {"free", "freeze.created"} \cup FlushPositions \cup CompactPositions]

\* Without logs a process crash may come anywhere.
NoWal ==
    [wal |-> FALSE, crash |-> "kill", torn |-> FALSE, crashes |-> 1,
     crashAt |-> Positions, syncAt |-> {"free"}]

AllSettings == {Kill, Power, NoWal}

\* The settings of the two findings.
FlushWindow == {[Kill EXCEPT !.crashAt = {"flush.wal_removed"}, !.syncAt = {"free"},
                             !.crashes = 1]}
TornLog == {[Power EXCEPT !.torn = TRUE, !.crashAt = {"free"}, !.syncAt = {"free"},
                          !.crashes = 1]}
=============================================================================
