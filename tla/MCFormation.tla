----------------------------- MODULE MCFormation ------------------------------
(* BatchFormation on small instances: values for its structured constants.  *)
EXTENDS BatchFormation, TLC

\* Two transactions reach the threshold.
MCPairOf == [t \in Tx |-> CHOOSE p \in Pair : TRUE]
MCReaches == {S \in SUBSET Tx : Cardinality(S) >= 2}

\* Replicas, transactions and batch ids are interchangeable in the safety runs.
Symmetry == Permutations(Tx) \cup Permutations(BatchId) \cup Permutations(Replica)
===============================================================================
