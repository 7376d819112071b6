------------------------- MODULE MCRecordConsumer -------------------------
(* Model-checking instances of RecordConsumer. *)
EXTENDS RecordConsumer, TLC

\* The second record of every partition has a broken payload.
SecondBroken == {r \in Records : r.off = 2}

\* Consumers and partitions are interchangeable.
Symmetry == Permutations(Workers) \cup Permutations(Partitions)
===========================================================================
