----------------------------- MODULE MCMvccTxn -----------------------------
\* Constants and symmetry for model-checking MvccTxn.
EXTENDS MvccTxn, TLC

\* Hashes without collisions, and one where all keys collide.
HashById  == [k \in Key |-> k]
HashToOne == [k \in Key |-> CHOOSE h \in HashVal : TRUE]

Symmetry == Permutations(Client) \cup Permutations(Key)

=============================================================================
