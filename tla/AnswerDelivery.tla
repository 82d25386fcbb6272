---------------------------- MODULE AnswerDelivery ----------------------------
(***************************************************************************)
(* What the worker protocol promises about the answer to one lease         *)
(* (protocol/v1.md): it is recorded at most once and while the lease is    *)
(* good; once the lease is void it never is.  A worker that hears anything *)
(* hears the truth, and a truth that stays true.                           *)
(***************************************************************************)
CONSTANTS Lease

VARIABLES
  answer,  \* of each lease: open, recorded, or void
  heard    \* what its worker was told: none, accepted, refused, or unknown

Open ==
  /\ answer = [l \in Lease |-> "open"]
  /\ heard = [l \in Lease |-> "none"]

Close(l) ==
  /\ answer[l] = "open"
  /\ \E a \in {"recorded", "void"} : answer' = [answer EXCEPT ![l] = a]

\* Time passes for every lease at once.
Void(lapsed) ==
  /\ \A l \in lapsed : answer[l] = "open"
  /\ answer' = [l \in Lease |-> IF l \in lapsed THEN "void" ELSE answer[l]]

Hear(l) ==
  /\ heard[l] = "none"
  /\ \E h \in {"accepted", "refused", "unknown"} :
       /\ h = "accepted" => answer[l] = "recorded"
       /\ h = "refused" => answer[l] = "void"
       /\ heard' = [heard EXCEPT ![l] = h]

Next ==
  \/ \E l \in Lease : Close(l) /\ UNCHANGED heard
  \/ \E lapsed \in SUBSET Lease : Void(lapsed) /\ UNCHANGED heard
  \/ \E l \in Lease : Hear(l) /\ UNCHANGED answer

Spec == Open /\ [][Next]_<<answer, heard>>

===============================================================================
