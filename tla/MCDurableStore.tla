--------------------------- MODULE MCDurableStore ---------------------------
(* DurableStore on small instances: two ids, each on a stripe of its own,  *)
(* or one id alone.                                                        *)
EXTENDS DurableStore, TLC

CONSTANTS a, b, s1, s2

MCOwnStripe == [i \in {a, b} |-> IF i = a THEN s1 ELSE s2]
MCOneId == [i \in {a} |-> s1]

\* No more counts than records.
MCRecord == StoreRecord(1..MaxRecords)

Symmetry == Permutations(Thread)
=============================================================================
