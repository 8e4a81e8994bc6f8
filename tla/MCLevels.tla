------------------------------ MODULE MCLevels ------------------------------
(* Levels with the batches of the runs: all keys at once, a value for the  *)
(* first key, and a tombstone in the middle of the key range.              *)
EXTENDS Levels

Put(k) == [key |-> k, del |-> FALSE]
Del(k) == [key |-> k, del |-> TRUE]

MCBatches == {{Put(k) : k \in 1 .. NumKeys}, {Put(1)}, {Del(2)}}
=============================================================================
