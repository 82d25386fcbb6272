--------------------------- MODULE MCWorkerProtocol ---------------------------
(* Constants of the model-checked instances of WorkerProtocol. *)
EXTENDS WorkerProtocol, TLC

CONSTANTS r1

OneRun     == {r1}
NoRepair   == [r \in OneRun |-> 0]
TwoLeases  == [r \in OneRun |-> 2]
AnyKind    == [w \in Worker |-> Kind]
===============================================================================
