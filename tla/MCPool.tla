-------------------------------- MODULE MCPool --------------------------------
(* Few threads and tasks; t1 and t2 have the same priority, t3 a higher one.*)
EXTENDS Pool, TLC

CONSTANTS t1, t2, t3

Priorities == [t \in Task |-> IF t = t3 THEN 2 ELSE 1]

Symmetric == Permutations(Worker) \cup Permutations(Caller)
===============================================================================
