------------------------------- MODULE AgentLog -------------------------------
(***************************************************************************)
(* What the working states of agents promise: of each agent, the states it *)
(* has had, one written after the other by a writer that has seen the one  *)
(* before, none lost and none rewritten.                                   *)
(***************************************************************************)
EXTENDS Integers, Sequences

CONSTANTS Agent, State
VARIABLES log, current

Init == log = [a \in Agent |-> <<>>] /\ current = [a \in Agent |-> ""]
\* A writer that has seen n states of a writes the next.
Write(a, state, n) ==
  /\ n = Len(log[a])
  /\ log' = [log EXCEPT ![a] = Append(@, state)] /\ current' = [current EXCEPT ![a] = state]
Next == \E a \in Agent, state \in State : Write(a, state, Len(log[a]))
Spec == Init /\ [][Next]_<<log, current>>

===============================================================================
