----------------------------- MODULE MCGroupLoop ------------------------------
(* Constants of the model-checked instances of GroupLoop. *)
EXTENDS GroupLoop

CONSTANTS g1, c1

OneGroup  == {g1}
NoRepair  == [g \in OneGroup |-> 0]
TwoLeases == [g \in OneGroup |-> 2]
CheapModels == [k \in Key |-> {1}]
\* An escalation may go to a model twice as dear.
MixedModels == [k \in Key |-> IF k \in {"escalate-1", "escalate-2"} THEN {1, 2} ELSE {1}]
\* The second branch has no affordable model to escalate to.
LopsidedModels == [k \in Key |-> IF k = "escalate-2" THEN {8} ELSE {1}]

===============================================================================
