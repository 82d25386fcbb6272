------------------------------ MODULE MCFrontier ------------------------------
(* The model-checked instances of Frontier: configurations of a group, each with what its    *)
(* answers, reviews and misfortunes may bring, so that long runs and eventful ones are both  *)
(* within reach. The bounds of the module are the largest of theirs.                         *)
EXTENDS Frontier

VARIABLE instance

Lemmas12 == [c \in Aux |-> Aux \ {c}]
RoleCosts == [r \in {"planner", "critic", "investigator", "synthesizer"} |->
                IF r = "synthesizer" THEN {1, 2} ELSE {1}]

Limited(tasks, worth, planning, operations, corrections, direct, reserve) ==
  [tasks |-> tasks, work |-> worth, planning |-> planning, operations |-> operations,
   retries |-> 1, corrections |-> corrections, direct |-> direct, reserve |-> reserve]
With(limited, claims, checked, reviewed, asked, troubled) ==
  [limits |-> limited, claims |-> claims, artifacts |-> checked, reviews |-> reviewed,
   proposals |-> asked, hiccups |-> troubled]

Instances == {
  \* long: repairs, retries, corrections and the reserve
  With(Limited(7, 18, 6, 6, 0, 0, 0), {1}, 2, 0, 0, 0),
  With(Limited(7, 18, 6, 6, 1, 1, 1), {1}, 2, 0, 0, 0),
  \* reviews and proposals
  With(Limited(5, 14, 4, 4, 1, 0, 0), {1}, 1, 2, 1, 0),
  With(Limited(5, 14, 4, 4, 0, 1, 1), {1}, 1, 0, 2, 0),
  \* two claims, one a lemma of the other
  With(Limited(5, 14, 4, 4, 1, 1, 0), {1, 2}, 1, 0, 0, 0),
  With(Limited(5, 14, 4, 4, 0, 0, 1), {1, 2}, 1, 1, 0, 0),
  \* troubled and tight
  With(Limited(4, 10, 4, 4, 1, 1, 1), {1}, 1, 1, 1, 1),
  With(Limited(4, 8, 2, 3, 1, 1, 1), {1}, 2, 0, 0, 2),
  With(Limited(4, 12, 2, 6, 0, 1, 0), {1}, 2, 0, 0, 1),
  With(Limited(3, 12, 2, 4, 1, 1, 1), {1}, 1, 0, 0, 1),
  With(Limited(3, 8, 1, 2, 0, 0, 1), {1, 2}, 2, 0, 0, 1),
  With(Limited(3, 6, 1, 2, 0, 0, 0), {1}, 2, 1, 0, 1)}

LimitsUsed == {i.limits : i \in Instances}

MCInit == Init /\ instance \in Instances /\ limits = instance.limits

\* A step stays within what its instance may bring.
Within ==
  /\ \A c \in Aux \ instance.claims : opinion'[c] = "none"
  /\ Len(artifacts') <= instance.artifacts /\ hiccups' <= instance.hiccups
  /\ \A c \in Aux : review'[c] <= instance.reviews
  /\ \A c \in Claim : proposal'[c].id <= instance.proposals

MCSpec ==
  /\ MCInit /\ [][Next /\ UNCHANGED instance /\ Within]_<<vars, instance>>
  /\ WF_vars(Tick /\ Within)

===============================================================================
