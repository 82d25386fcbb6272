------------------------------ MODULE MCJobQueue ------------------------------
(* Constants of the model-checked instances of JobQueue. *)
EXTENDS JobQueue, TLC

CONSTANTS r1, g1, c1, c2

TwoRuns   == {r1, g1}
OneRun    == {r1}
Groups_1  == {g1}
OneRepair == [r \in TwoRuns |-> IF r = r1 THEN 1 ELSE 0]
Repair_1  == [r \in OneRun |-> 1]
OneLease  == [r \in TwoRuns |-> 1]
TwoLeases == [r \in TwoRuns |-> 2]
Twice_1   == [r \in OneRun |-> 2]
Loops_2   == Permutations({c1, c2})

===============================================================================
