----------------------------- MODULE RunLifecycle -----------------------------
(***************************************************************************)
(* What a run promises its submitter, without jobs, leases or workers: the *)
(* transition table of verified-proof precedence.  A run that is in error  *)
(* or exhausted may still be solved by a proof that was under way; a       *)
(* solved run stays solved; only a group's run is ever reopened.           *)
(***************************************************************************)
CONSTANTS Run, Reopenable

VARIABLES status, proved

lifecycleVars == <<status, proved>>

Init ==
  /\ status = [r \in Run |-> "absent"]
  /\ proved = {}

Start(r) == status[r] = "absent" /\ status'[r] = "running"

Prove(r) == status[r] # "absent" /\ r \in proved' /\ status'[r] = "solved"

Fail(r) == status[r] = "running" /\ status'[r] \in {"error", "exhausted"}

Reopen(r) == r \in Reopenable /\ status[r] = "exhausted" /\ status'[r] = "running"

Stay(r) == status'[r] = status[r]

\* One transaction may move several runs; each moves along the table, and is solved
\* in the very step that proves it.
Next ==
  /\ \A r \in Run : Start(r) \/ Prove(r) \/ Fail(r) \/ Reopen(r) \/ Stay(r)
  /\ DOMAIN status' = Run
  /\ proved' = {r \in Run : status'[r] = "solved"}

Spec == Init /\ [][Next]_lifecycleVars

===============================================================================
