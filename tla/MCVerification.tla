---------------------------- MODULE MCVerification ----------------------------
(***************************************************************************)
(* Constants of the model-checked instances of Verification.  One run      *)
(* checks several instances, each with a group, inputs and faults of its   *)
(* own: the initial state chooses the instance.                            *)
(***************************************************************************)
EXTENDS Verification, TLC

CONSTANTS g1, g2, g3

VARIABLE instance

\* Two processes compete for an artifact, or for a target, while the verifier changes.
Overlap(o, n) == [group |-> g1, owners |-> {o}, processes |-> 2, changes |-> 1, crashes |-> n]
\* The verifier changes and may change back while a correction is away; artifact 3 is foreign.
Rebinding == [group |-> g2, owners |-> {2, 3, 12}, processes |-> 1, changes |-> 2, crashes |-> 0]
\* Artifacts compete with a target and its correction for a reserved budget.
Reserving == [group |-> g3, owners |-> {4, 5, 13, 14}, processes |-> 1, changes |-> 0, crashes |-> 1]

MCInit ==
  /\ Init
  /\ instance \in {Overlap(1, 0), Overlap(11, 1), Rebinding, Reserving}
  /\ \A g \in Group : phase[g] = IF g = instance.group THEN "open" ELSE "stopped"

MCNext ==
  /\ Next /\ UNCHANGED instance
  /\ changes' <= instance.changes /\ crashes' <= instance.crashes
  /\ Cardinality({p \in Process : tick'[p] # Idle}) <= instance.processes
  /\ \A o \in Owner \ instance.owners : status'[o] = "absent"

MCSpec == MCInit /\ [][MCNext]_<<vars, instance>>

\* The liveness instance, as its configuration gives it.
MCLiveInit == Init /\ instance = "live"

MCLiveSpec ==
  /\ MCLiveInit
  /\ [][Next /\ UNCHANGED instance]_<<vars, instance>>
  /\ Fairness

Interchangeable == Permutations(Process) \cup Permutations(Identity)

ThreeGroups == {g1, g2, g3}
Several == [o \in Composed |-> IF o \in {1, 11} THEN g1 ELSE IF o \in {2, 3, 12} THEN g2 ELSE g3]
Reserved3 == {g3}
Operations == [g \in Group |-> IF g = g3 THEN 4 ELSE 2]
LeanTime == [g \in Group |-> IF g = g1 THEN 4 ELSE IF g = g2 THEN 2 ELSE 6]
Twice == [g \in Group |-> 2]

\* Liveness and the stale probe: artifact 1 belongs to a fixed group, the rest to a graph group.
TwoGroups == {g1, g2}
OnlyGraph == {g1}
Mixed == [o \in Composed |-> IF o = 1 THEN g2 ELSE g1]
Once2 == [g \in Group |-> 1]
Four == [g \in Group |-> 4]

===============================================================================
