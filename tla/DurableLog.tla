----------------------------- MODULE DurableLog -----------------------------
(***************************************************************************)
(* What the storage engine promises about persistence: the batches it      *)
(* holds are always the first ones written, without a gap; a call of sync  *)
(* or close fixes a prefix for good; a crash or a restart may take away    *)
(* later batches only.  Flushing, compaction and recovery do not show.     *)
(***************************************************************************)
EXTENDS Integers, FiniteSets

CONSTANT MaxBatches     \* bound: number of batches

VARIABLES
    contents,   \* the batches the store holds, by commit timestamp
    promised    \* the batches up to this one are never lost

vars == <<contents, promised>>

Init == contents = {} /\ promised = 0

\* A batch is added at the end.
Append ==
    /\ contents' = contents \cup {Cardinality(contents) + 1}
    /\ UNCHANGED promised

\* sync or close returns: what had been acknowledged before is safe.
Promise ==
    /\ promised' \in promised..Cardinality(contents)
    /\ UNCHANGED contents

\* The process or the machine stops: some prefix with every safe batch is left.
Lose ==
    /\ \E n \in promised..Cardinality(contents) : contents' = 1..n
    /\ UNCHANGED promised

Next == Append \/ Promise \/ Lose

Spec == Init /\ [][Next]_vars

=============================================================================
