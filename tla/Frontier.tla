------------------------------- MODULE Frontier -------------------------------
(***************************************************************************)
(* Graph mode of an agent group (frontier.py): advance_frontier chooses    *)
(* one action at a time from what the claim graph shows, dispatches it as  *)
(* a task and a job, and stops the group when nothing is left to do or a   *)
(* limit is reached.                                                       *)
(*                                                                         *)
(* The queue (JobQueue), the checks (Verification) and the ingestion of    *)
(* answers (GroupGraph) appear by what they do to the rows the frontier    *)
(* reads.  A suggestion leads from the target to an auxiliary claim, and   *)
(* from there to the claims Uses names; an opinion is that of the latest   *)
(* review.  Lean time behaves as Lean operations do and is in Verification.*)
(***************************************************************************)
EXTENDS Integers, Sequences, FiniteSets, FiniteSetsExt

CONSTANTS
  Root, Aux,    \* the target and the auxiliary claims, in the order of their ids
  Uses,         \* the auxiliary claims whose lemmas a packet on an auxiliary claim may carry
  Limits,       \* the max_tasks, max_work and graph_limits a group may be started with
  MaxDepth,     \* of a chain of tasks: 4 in the code
  Costs,        \* the costs of the models configured for each role
  Priority,     \* bound: priorities a proposal may ask for
  MaxReviews, MaxProposals, MaxArtifacts,  \* bounds: what the answers bring
  MaxHiccups    \* bound: unfit packets, absent models, abandoned checks, unbound verifiers

Claim  == Aux \cup {Root}
Action == {"plan", "critique", "investigate", "prove", "synthesize"}
Role(action) == CASE action = "plan" -> "planner" [] action = "critique" -> "critic"
                  [] action = "synthesize" -> "synthesizer" [] OTHER -> "investigator"

Limit == [tasks : 1..32, work : Nat, planning : 1..8, operations : 1..24, retries : 0..1,
          corrections : 0..1, direct : 0..1, reserve : 0..1]

ASSUME FrontierAssumption ==
  /\ Aux \subseteq Nat /\ Root \in Nat \ Aux /\ IsFiniteSet(Aux)
  /\ Uses \in [Aux -> SUBSET Aux]
  /\ Limits \subseteq Limit
  /\ MaxDepth \in Nat
  /\ \A action \in Action : Costs[Role(action)] # {} /\ Costs[Role(action)] \subseteq 1..8
  /\ Priority \subseteq 0..3
  /\ MaxReviews \in Nat /\ MaxProposals \in Nat /\ MaxArtifacts \in Nat /\ MaxHiccups \in Nat

VARIABLES
  limits,     \* group_loops.limits, with max_tasks and max_work of agent_groups
  phase, reason, overdue,
  erred,      \* the run is in error
  history,    \* frontier_decisions with their jobs, in order
  work,       \* agent_groups.remaining_work
  opinion, review,  \* of each suggested claim: the latest review's status and its number
  artifacts,  \* group_artifacts in order
  proposal,   \* the latest graph_action_proposals row of each claim, the target included
  ops, targetOps,   \* frontier_lean_reservations: all, and those of targets
  fresh,      \* this process holds the persisted verifier binding
  revision,   \* artifact_verifier_binding.revision
  hiccups

graphVars == <<opinion, review, artifacts, proposal>>
binding == <<fresh, revision>>
vars == <<limits, phase, reason, overdue, erred, history, work, graphVars, ops, targetOps, binding, hiccups>>

Why == {"initial", "default", "review", "help", "rejected", "events", "auxiliary-repair",
        "auxiliary-correction", "target-correction"}

\* A strategy is why an action was chosen and on what evidence; the selected declarations, named by
\* their artifacts, and the number of the retry complete the key of a decision.
Key(d) == <<d.claim, d.action, d.why, d.on, d.context>>

Open   == {"queued", "assigned", "verifying"}
Closed == {"done", "failed", "cancelled"}
Bad    == {"rejected", "failed"}   \* failed: timeout or verifier_error

FTypeOK ==
  /\ limits \in Limits /\ phase \in {"frontier", "stopped"}
  /\ overdue \in BOOLEAN /\ erred \in BOOLEAN /\ fresh \in BOOLEAN
  /\ Len(history) <= limits.tasks /\ work \in 0..limits.work
  /\ \A n \in DOMAIN history :
       LET d == history[n] IN
       /\ d.claim \in Claim /\ d.action \in Action /\ d.why \in Why
       /\ d.status \in Open \cup Closed /\ d.processed \in BOOLEAN
       /\ d.context \subseteq DOMAIN artifacts /\ d.depth \in 0..MaxDepth /\ d.leases \in 1..2
       /\ d.claim = Root <=> d.action \in {"plan", "synthesize"}
       /\ d.revision \in 0..revision
  /\ opinion \in [Aux -> {"none", "suggested", "promising", "challenged", "abandoned"}]
  /\ \A k \in DOMAIN artifacts : artifacts[k].claim \in Aux /\ artifacts[k].job \in DOMAIN history
  /\ ops \in targetOps..limits.operations /\ hiccups \in 0..MaxHiccups /\ revision \in Nat

-------------------------------------------------------------------------------
(* Reading the graph *)

Jobs(test(_)) == {n \in DOMAIN history : test(history[n])}
Total(set, f(_)) == MapThenSumSet(LAMBDA n : f(history[n]), set)

Plannish == {"plan", "critique"}
\* The planning assignments reserved so far, lease retries included.
Planning == Total(Jobs(LAMBDA d : d.action \in Plannish), LAMBDA d : d.leases)

Known == {c \in Aux : opinion[c] # "none"}
ArtifactsOf(c, set) == {k \in DOMAIN artifacts : artifacts[k].claim = c /\ artifacts[k].status \in set}
Checked(c)  == ArtifactsOf(c, {"verified"}) # {}
LastBad(c)  == Max(ArtifactsOf(c, Bad))

\* The lemmas an ordinary packet on a claim selects.
Neighbours(c) == IF c = Root THEN Known ELSE Uses[c] \cap Known
Lemmas(c) == UNION {ArtifactsOf(u, {"verified"}) :
                      u \in {v \in Neighbours(c) : opinion[v] \notin {"challenged", "abandoned"}}}

-------------------------------------------------------------------------------
(* The completion tail and the Lean budget *)

Slots == 1 + limits.corrections
NaturalMinus(a, b) == IF a > b THEN a - b ELSE 0

\* completion_tail: what is kept for the syntheses still to come and for their checks.
CompletionTail ==
  LET syntheses == Cardinality(Jobs(LAMBDA d : d.action = "synthesize"))
      jobs == IF limits.reserve = 1 THEN NaturalMinus(Slots, syntheses) ELSE 0
  IN [jobs |-> jobs, work |-> jobs * 2 * Max(Costs["synthesizer"]),
      checks |-> IF limits.reserve = 1 THEN NaturalMinus(Slots, targetOps) ELSE 0]

BudgetSpent == ops >= limits.operations
\* reserve_check: the check of an artifact leaves the tail alone, that of a target takes from it.
TailInvaded(target) ==
  limits.reserve = 1
    /\ ops + 1 + (IF target THEN NaturalMinus(CompletionTail.checks, 1) ELSE CompletionTail.checks)
         > limits.operations

-------------------------------------------------------------------------------
(* Candidates *)

Candidate(c, action, rank, order, why, on) ==
  [claim |-> c, action |-> action, rank |-> rank, order |-> order, why |-> why, on |-> on,
   about |-> 0, above |-> 0]

\* Of equal candidates the one proposed first stands first.
Initial == {Candidate(Root, "plan", -1, 0, "initial", {})}

Help(c) == IF proposal[c].action = "critique"
           THEN {Candidate(c, "critique", 1, 1, "help", {<<"proposal", proposal[c].id>>})} ELSE {}

Challenged(c) == {Candidate(c, "critique", 1, 0, "review", {<<"review", review[c]>>})} \cup Help(c)

Critique(c) == [Candidate(c, "critique", 1, 0, "rejected", {}) EXCEPT !.about = LastBad(c)]

\* A finished critique of this very rejection, with something to say, is worth another investigation.
Findings(c) == Jobs(LAMBDA d : d.claim = c /\ d.action = "investigate")
Repairs(c) ==
  LET critiques == Jobs(LAMBDA d : /\ d.claim = c /\ d.action = "critique" /\ d.status = "done"
                                   /\ d.why = "rejected")
  IN IF /\ critiques # {} /\ Findings(c) # {} /\ Cardinality(Findings(c)) <= limits.retries
        /\ history[Max(critiques)].said /\ history[Max(critiques)].about = LastBad(c)
     THEN {[Candidate(c, "investigate", 2, 0, "auxiliary-repair", {}) EXCEPT
              !.about = LastBad(c), !.above = Max(Findings(c))]} ELSE {}

\* Fault: it is asked of the artifact whether a correction was sent.
CorrectedArtifact(c) == Jobs(LAMBDA d : d.why = "auxiliary-correction" /\ d.about = LastBad(c)) # {}
\* One correction per claim, whatever became of it.
Corrected(c) == Jobs(LAMBDA d : d.claim = c /\ d.why = "auxiliary-correction") # {}

\* _direct_auxiliary_candidate.
Direct(c) ==
  IF proposal[c].action = "critique"
  THEN {[Candidate(c, "critique", 1, 0, "help", {<<"proposal", proposal[c].id>>}) EXCEPT !.about = LastBad(c)]}
  ELSE IF ~ Corrected(c) /\ limits.retries > 0 /\ artifacts[LastBad(c)].status = "rejected"
  THEN {[Candidate(c, "investigate", -1, 0, "auxiliary-correction", {}) EXCEPT
           !.about = LastBad(c), !.above = artifacts[LastBad(c)].job]}
  ELSE {Critique(c)}

Unresolved(c) ==
  IF \/ opinion[c] = "promising" \/ proposal[c].action = "prove"
     \/ Jobs(LAMBDA d : d.claim = c /\ d.action = "investigate" /\ d.status = "done") # {}
  THEN {Candidate(c, "prove", 2, 0, "default", {})}
  ELSE {Candidate(c, "investigate", 3, 0, "default", {})}

Auxiliary(c) ==
  CASE opinion[c] = "abandoned"  -> {}
    [] opinion[c] = "challenged" -> Challenged(c)
    [] opinion[c] \in {"suggested", "promising"} /\ Checked(c) -> {}
    [] opinion[c] \in {"suggested", "promising"} /\ ~ Checked(c) /\ ArtifactsOf(c, Bad) # {} ->
         IF limits.direct = 1 THEN Direct(c) ELSE {Critique(c)} \cup Repairs(c) \cup Help(c)
    [] OTHER -> Unresolved(c) \cup Help(c)

\* Fault: the target is proposed only once there is a lemma for it.
TargetWithLemmas == IF Lemmas(Root) = {} THEN {} ELSE {Candidate(Root, "synthesize", 0, 0, "default", {})}
Target == {Candidate(Root, "synthesize", IF Lemmas(Root) # {} THEN 0 ELSE 4, 0, "default", {})}

\* _target_correction_candidate: once in the life of the group, from the latest rejection.
Rejected(set) == Jobs(LAMBDA d : d.action = "synthesize" /\ d.verdict \in set)
TargetCorrected == Jobs(LAMBDA d : d.why = "target-correction") # {}
TargetCorrection ==
  IF limits.corrections = 1 /\ ~ TargetCorrected /\ Rejected({"rejected"}) # {}
  THEN {[Candidate(Root, "synthesize", -1, 1, "target-correction", {}) EXCEPT
           !.about = Max(Rejected({"rejected"})), !.above = Max(Rejected({"rejected"}))]} ELSE {}

\* What has happened that a plan did not know.
Events ==
  {<<"artifact", k>> : k \in {k \in DOMAIN artifacts : artifacts[k].status \in Bad \cup {"verified"}}}
    \cup {<<"review", review[c]>> : c \in {c \in Known : opinion[c] = "challenged"}}
    \cup {<<"job", n>> : n \in Jobs(LAMBDA d : d.status = "failed")}
    \cup {<<"target", n>> : n \in {n \in Rejected({"rejected", "timeout"}) :
                                     n = Max(Rejected({"rejected", "timeout"}))}}
Replan == IF Events # {} /\ Cardinality(Jobs(LAMBDA d : d.action = "plan")) < 3
          THEN {Candidate(Root, "plan", 5, 0, "events", Events)} ELSE {}

Proposed == IF history = <<>> THEN Initial
            ELSE (UNION {Auxiliary(c) : c \in Known}) \cup Target \cup TargetCorrection \cup Replan

\* Planning and critique beyond their cap are deferred at once.
Candidates == {c \in Proposed : c.action \in Plannish => Planning < limits.planning}

-------------------------------------------------------------------------------
(* Admission *)

Urgency(c) == proposal[c.claim].priority
Alphabet == [critique |-> 1, investigate |-> 2, plan |-> 3, prove |-> 4, synthesize |-> 5]
Rank(c) == <<c.rank, - Urgency(c), c.claim, Alphabet[c.action], c.order>>
Before(a, b) == \E i \in 1..5 : Rank(a)[i] < Rank(b)[i] /\ \A j \in 1..(i - 1) : Rank(a)[j] = Rank(b)[j]

First(set) == CHOOSE c \in set : \A other \in set \ {c} : Before(c, other)

Correcting == {"auxiliary-correction", "target-correction"}
\* A correction is given the frozen context of the job it corrects.
Context(c, bare) ==
  CASE c.why \in Correcting -> history[c.above].context
    [] OTHER -> IF bare THEN {} ELSE Lemmas(c.claim)

\* Fault: what was tried is forgotten when it did not end well.
PriorDone(c, bare) ==
  Jobs(LAMBDA d : d.status = "done" /\ Key(d) = <<c.claim, c.action, c.why, c.on, Context(c, bare)>>)
Prior(c, bare) == Jobs(LAMBDA d : Key(d) = <<c.claim, c.action, c.why, c.on, Context(c, bare)>>)

Tries(c) == IF c.action \in Plannish \/ (c.action = "synthesize" /\ limits.corrections = 1)
            THEN 1 ELSE 1 + limits.retries
Exhausted(c, bare) == Cardinality(Prior(c, bare)) >= Tries(c)

\* Fault: an exploration may spend all there is.
BudgetAll(c) == work
\* The work a candidate may spend: an exploration leaves the whole tail, a synthesis its other part.
Budget(c) ==
  IF c.action # "synthesize" THEN work - CompletionTail.work
  ELSE IF CompletionTail.jobs = 0 THEN work
  ELSE work - (CompletionTail.work * (CompletionTail.jobs - 1)) \div CompletionTail.jobs

\* An auxiliary correction goes to the model of the job it corrects.
Affordable(c) == {k \in Costs[Role(c.action)] :
  2 * k <= Budget(c) /\ (c.why = "auxiliary-correction" => 2 * k = history[c.above].cost)}

\* Fault: no task is held back.
HeldNone(c) == 0
HeldJobs(c) == IF c.action = "synthesize" THEN NaturalMinus(CompletionTail.jobs, 1) ELSE CompletionTail.jobs

\* _build_exact_correction: of the same claim, and under the binding of the job it corrects.
Correctable(c) ==
  /\ history[c.above].revision = revision
  /\ c.why = "auxiliary-correction" => history[c.above].claim = c.claim

\* Why a candidate is put off, "" if it is admitted.
Deferral(c, bare) ==
  CASE CompletionTail.jobs > 0 /\ Len(history) + 1 + HeldJobs(c) > limits.tasks -> "completion_job_reserve"
    [] c.action \in {"investigate", "prove"} /\ CompletionTail.checks > 0
       /\ ops >= limits.operations - CompletionTail.checks -> "completion_verification_reserve"
    [] c.why \in Correcting /\ ~ Correctable(c) -> "unfit"
    [] Exhausted(c, bare) -> "exhausted"
    [] Affordable(c) = {} -> IF c.action # "synthesize" /\ CompletionTail.work > 0
                             THEN "completion_work_reserve" ELSE "unaffordable"
    [] OTHER -> ""

\* The candidates with their deferrals; lost are those whose packet cannot be built or whose models
\* are away, which is found out after the reserved jobs and checks are looked at.
Deferrals(lost, bare) ==
  [c \in Candidates |->
    LET why == Deferral(c, bare) IN
    IF c \in lost /\ why \notin {"completion_job_reserve", "completion_verification_reserve"}
    THEN "unfit" ELSE why]
Hiccups == IF hiccups < MaxHiccups THEN (SUBSET Candidates) \X BOOLEAN ELSE {<<{}, FALSE>>}

-------------------------------------------------------------------------------
(* Advance *)

\* stop: what is queued is cancelled, what a worker holds drains.
Cancelled(d) == IF d.status = "queued" THEN [d EXCEPT !.status = "cancelled"] ELSE d
Stop(why, rows) ==
  /\ phase' = "stopped" /\ reason' = why
  /\ history' = [n \in DOMAIN rows |-> Cancelled(rows[n])]

\* The decisions whose jobs have ended, up to the first that has not.
Settled == [n \in DOMAIN history |->
  IF \A m \in 1..n : history[m].processed \/ history[m].status \in Closed
  THEN [history[n] EXCEPT !.processed = TRUE] ELSE history[n]]

\* Fault: unchecked artifacts are not waited for.
BusyJobs == Jobs(LAMBDA d : d.status \in Open) # {}
Busy == \/ Jobs(LAMBDA d : d.status \in Open) # {}
        \/ \E k \in DOMAIN artifacts : artifacts[k].status = "pending"

\* The run is in error, or the deadline is past.
Abort ==
  /\ phase = "frontier" /\ (erred \/ overdue)
  /\ Stop(IF erred THEN "verifier_error" ELSE "deadline", history)
  /\ UNCHANGED <<limits, overdue, erred, work, graphVars, ops, targetOps, binding, hiccups>>

Running == phase = "frontier" /\ ~ erred /\ ~ overdue

\* Ended jobs are marked even when the frontier then waits.
Wait ==
  /\ Running /\ (Busy \/ (~ BudgetSpent /\ ~ fresh))
  /\ Settled # history /\ history' = Settled
  /\ UNCHANGED <<limits, phase, reason, overdue, erred, work, graphVars, ops, targetOps, binding, hiccups>>

\* Without an operation left, nothing that ends in a proof is bought any more.
Spent ==
  /\ Running /\ ~ Busy /\ BudgetSpent
  /\ Stop("verification_budget", Settled)
  /\ UNCHANGED <<limits, overdue, erred, work, graphVars, ops, targetOps, binding, hiccups>>

\* _dispatch_frontier_task: a retry is a child of the try before it.
Dispatch(c, bare) ==
  LET prior  == Prior(c, bare)
      parent == IF prior # {} THEN Max(prior) ELSE c.above
  IN IF Len(history) >= limits.tasks THEN Stop("task_limit", Settled) /\ UNCHANGED work
     ELSE IF parent # 0 /\ history[parent].depth >= MaxDepth THEN Stop("task_depth", Settled) /\ UNCHANGED work
     ELSE \E k \in Affordable(c) :
            /\ work' = work - 2 * k
            /\ history' = Append(Settled,
                 [claim |-> c.claim, action |-> c.action, why |-> c.why, on |-> c.on, about |-> c.about,
                  context |-> Context(c, bare), retry |-> Cardinality(prior),
                  depth |-> IF parent = 0 THEN 0 ELSE history[parent].depth + 1,
                  cost |-> 2 * k, revision |-> revision,
                  leases |-> IF c.action \in Plannish THEN Min({2, limits.planning - Planning}) ELSE 2,
                  status |-> "queued", processed |-> FALSE, verdict |-> "none", said |-> FALSE])
            /\ UNCHANGED <<phase, reason>>

\* Nothing was admitted: the reason tells dead ends from a want of capacity.
GiveUp(why) ==
  LET held == {c \in DOMAIN why : why[c] \in
                 {"completion_job_reserve", "completion_verification_reserve", "completion_work_reserve"}}
  IN Stop(CASE \A c \in DOMAIN why : why[c] = "exhausted" -> "no_useful_frontier"
            [] held # {} -> why[First(held)]
            [] OTHER -> "capacity_or_model_budget", Settled)

\* The first candidate that is not put off is dispatched.
Select ==
  /\ Running /\ ~ Busy /\ ~ BudgetSpent /\ fresh
  /\ \E trouble \in Hiccups :
       /\ hiccups' = IF trouble = <<{}, FALSE>> THEN hiccups ELSE hiccups + 1
       /\ \E why \in {Deferrals(trouble[1], trouble[2])} :
            LET admitted == {c \in DOMAIN why : why[c] = ""} IN
            IF admitted = {} THEN GiveUp(why) /\ UNCHANGED work
            ELSE Dispatch(First(admitted), trouble[2])
  /\ UNCHANGED <<limits, overdue, erred, graphVars, ops, targetOps, binding>>

Advance == Abort \/ Wait \/ Spent \/ Select

-------------------------------------------------------------------------------
(* The queue: leases and answers *)

Lease(n) ==
  /\ history[n].status = "queued"
  /\ history' = [history EXCEPT ![n].status = "assigned"]
  /\ UNCHANGED <<limits, phase, reason, overdue, erred, work, graphVars, ops, targetOps, binding, hiccups>>

\* The worker reports a permanent failure, or the leases are spent.
Fail(n) ==
  /\ history[n].status = "assigned"
  /\ history' = [history EXCEPT ![n].status = "failed"]
  /\ UNCHANGED <<limits, phase, reason, overdue, erred, work, graphVars, ops, targetOps, binding, hiccups>>

Proof(n) ==
  /\ history[n].status = "assigned" /\ history[n].action = "synthesize"
  /\ history' = [history EXCEPT ![n].status = "verifying"]
  /\ UNCHANGED <<limits, phase, reason, overdue, erred, work, graphVars, ops, targetOps, binding, hiccups>>

\* What the batch of an answer adds to the graph; a text or a rejected batch adds nothing.
Nothing  == UNCHANGED graphVars
Suggest(set) ==
  /\ set # {} /\ set \cap Known = {}
  /\ opinion' = [c \in Aux |-> IF c \in set THEN "suggested" ELSE opinion[c]]
  /\ UNCHANGED <<review, artifacts, proposal>>
Review(c, verdict) ==
  LET number == 1 + Max({review[a] : a \in Aux}) IN
  /\ c \in Known /\ number <= MaxReviews
  /\ opinion' = [opinion EXCEPT ![c] = verdict]
  /\ review' = [review EXCEPT ![c] = number]
  /\ UNCHANGED <<artifacts, proposal>>
Prove(set, n) ==
  /\ set # {} /\ set \subseteq Known /\ history[n].action \in {"investigate", "prove"}
  /\ Len(artifacts) + Cardinality(set) <= MaxArtifacts
  /\ \E order \in [1..Cardinality(set) -> set] :
       /\ {order[i] : i \in DOMAIN order} = set
       /\ artifacts' = artifacts \o [i \in DOMAIN order |-> [claim |-> order[i], status |-> "pending", job |-> n]]
  /\ UNCHANGED <<opinion, review, proposal>>
Ask(c, action, priority) ==
  LET id == 1 + Max({proposal[a].id : a \in Claim}) IN
  /\ c \in Known \cup {Root} /\ id <= MaxProposals
  /\ proposal' = [proposal EXCEPT ![c] = [action |-> action, id |-> id, priority |-> priority]]
  /\ UNCHANGED <<opinion, review, artifacts>>

\* The answer to a model.respond job is ingested in the transaction that records it, also when the
\* group has stopped meanwhile.
Answer(n) ==
  /\ history[n].status = "assigned" /\ history[n].action # "synthesize"
  /\ \E said \in BOOLEAN :
       /\ said => history[n].action = "critique"
       /\ history' = [history EXCEPT ![n].status = "done", ![n].said = said]
  /\ \/ Nothing
     \/ \E set \in SUBSET Aux : Suggest(set) \/ Prove(set, n)
     \/ \E c \in Aux, verdict \in {"promising", "challenged", "abandoned"} : Review(c, verdict)
     \/ \E c \in Claim, action \in {"critique", "investigate", "prove"}, priority \in Priority :
          Ask(c, action, priority)
  /\ UNCHANGED <<limits, phase, reason, overdue, erred, work, ops, targetOps, binding, hiccups>>

-------------------------------------------------------------------------------
(* The scheduler's checks *)

\* The scheduler takes the oldest unchecked artifact of a group that goes on.
Oldest(k) ==
  /\ phase = "frontier" /\ artifacts[k].status = "pending"
  /\ \A j \in 1..(k - 1) : artifacts[j].status # "pending"

\* reserve_check: what a correction brought is checked only under the binding it was asked for.
Outdated(n) == history[n].why \in Correcting /\ history[n].revision # revision

\* An artifact is judged, or set aside where its check would invade the tail.
Judge(k, verdict) ==
  /\ Oldest(k) /\ ~ Outdated(artifacts[k].job) /\ ~ BudgetSpent
  /\ IF TailInvaded(FALSE) THEN verdict = "incompatible" /\ UNCHANGED ops
     ELSE verdict # "incompatible" /\ ops' = ops + 1
  /\ artifacts' = [artifacts EXCEPT ![k].status = verdict]
  /\ UNCHANGED <<limits, phase, reason, overdue, erred, history, work, opinion, review, proposal,
                 targetOps, binding, hiccups>>

\* Fault: only an idle frontier finds that the operations are spent.
IdleStops(k) ==
  /\ Oldest(k) /\ BudgetSpent /\ ~ Busy
  /\ Stop("verification_budget", history)
  /\ UNCHANGED <<limits, overdue, erred, work, graphVars, ops, targetOps, binding, hiccups>>
\* An artifact without an operation left, or of an outdated correction, stops its group.
ArtifactStops(k) ==
  /\ Oldest(k) /\ (Outdated(artifacts[k].job) \/ BudgetSpent)
  /\ Stop(IF Outdated(artifacts[k].job) THEN "verifier_binding_changed" ELSE "verification_budget", history)
  /\ UNCHANGED <<limits, overdue, erred, work, graphVars, ops, targetOps, binding, hiccups>>

\* A verdict ends the job; a proof ends the group whatever had stopped it.
Verdict(n, verdict) ==
  /\ history[n].status = "verifying" /\ ~ Outdated(n) /\ ~ BudgetSpent /\ ~ TailInvaded(TRUE)
  /\ \A k \in DOMAIN artifacts : ~ Oldest(k)
  /\ history' = [history EXCEPT ![n].status = "done", ![n].verdict = verdict,
                                ![n].processed = @ \/ verdict = "verified"]
  /\ ops' = ops + 1 /\ targetOps' = targetOps + 1
  /\ IF verdict = "verified" THEN phase' = "stopped" /\ reason' = "verified_target" ELSE UNCHANGED <<phase, reason>>
  /\ erred' = (erred \/ verdict = "verifier_error")
  /\ UNCHANGED <<limits, overdue, work, graphVars, binding, hiccups>>

\* stop_unchecked_target.
Unchecked(n) ==
  /\ history[n].status = "verifying" /\ (Outdated(n) \/ BudgetSpent \/ TailInvaded(TRUE))
  /\ Stop(CASE Outdated(n) -> "verifier_binding_changed"
            [] ~ Outdated(n) /\ BudgetSpent -> "verification_budget"
            [] OTHER -> "completion_verification_reserve",
          [history EXCEPT ![n].status = "cancelled"])
  /\ UNCHANGED <<limits, overdue, erred, work, graphVars, ops, targetOps, binding, hiccups>>

\* A check begun by a process that died, or whose binding changed before its result: its operation
\* stays spent.
CheckAbandoned ==
  /\ hiccups < MaxHiccups /\ hiccups' = hiccups + 1 /\ ~ BudgetSpent
  /\ \/ /\ \E k \in DOMAIN artifacts : Oldest(k) /\ ~ Outdated(artifacts[k].job)
        /\ ~ TailInvaded(FALSE) /\ UNCHANGED targetOps
     \/ /\ \E n \in DOMAIN history : history[n].status = "verifying" /\ ~ Outdated(n)
        /\ ~ TailInvaded(TRUE) /\ targetOps' = targetOps + 1
  /\ ops' = ops + 1
  /\ UNCHANGED <<limits, phase, reason, overdue, erred, history, work, graphVars, binding>>

\* bind_group_artifact_verifier.  Another identity, none included, raises the revision and puts
\* every verified artifact up for another check, those of stopped groups too.
Recheck == [k \in DOMAIN artifacts |->
  IF artifacts[k].status = "verified" THEN [artifacts[k] EXCEPT !.status = "pending"] ELSE artifacts[k]]
Rebind == revision' = revision + 1 /\ artifacts' = Recheck

\* The process restarts, its verifier has no identity, or another process bound another one.
Unbind ==
  /\ hiccups < MaxHiccups /\ hiccups' = hiccups + 1 /\ fresh' = FALSE
  /\ Rebind \/ UNCHANGED <<revision, artifacts>>
  /\ UNCHANGED <<limits, phase, reason, overdue, erred, history, work, opinion, review, proposal, ops, targetOps>>
\* The process binds what it finds: the persisted identity or another.
Bind ==
  /\ ~ fresh /\ fresh' = TRUE
  /\ Rebind \/ UNCHANGED <<revision, artifacts>>
  /\ UNCHANGED <<limits, phase, reason, overdue, erred, history, work, opinion, review, proposal, ops, targetOps,
                 hiccups>>

DeadlinePasses ==
  /\ phase = "frontier" /\ ~ overdue /\ overdue' = TRUE
  /\ UNCHANGED <<limits, phase, reason, erred, history, work, graphVars, ops, targetOps, binding, hiccups>>

-------------------------------------------------------------------------------
Init ==
  /\ limits \in Limits
  /\ phase = "frontier" /\ reason = "none" /\ overdue = FALSE /\ erred = FALSE
  /\ history = <<>> /\ work = limits.work
  /\ opinion = [c \in Aux |-> "none"] /\ review = [c \in Aux |-> 0]
  /\ artifacts = <<>>
  /\ proposal = [c \in Claim |-> [action |-> "none", id |-> 0, priority |-> 0]]
  /\ ops = 0 /\ targetOps = 0 /\ fresh = TRUE /\ revision = 1 /\ hiccups = 0

Queue  == \E n \in DOMAIN history : Lease(n) \/ Fail(n) \/ Proof(n) \/ Answer(n)
Checks == \/ \E k \in DOMAIN artifacts, v \in {"verified", "rejected", "failed", "incompatible"} : Judge(k, v)
          \/ \E n \in DOMAIN history, v \in {"verified", "rejected", "timeout", "verifier_error"} : Verdict(n, v)
          \/ \E n \in DOMAIN history : Unchecked(n)
          \/ \E k \in DOMAIN artifacts : ArtifactStops(k)

Next == Advance \/ Queue \/ Checks \/ CheckAbandoned \/ Unbind \/ Bind \/ DeadlinePasses

Spec == Init /\ [][Next]_vars

\* The scheduler ticks for ever and binds the verifier it finds; leased jobs end, by an answer or by
\* their leases. That one of them acts while any can is all that is needed.
Tick == Queue \/ Checks \/ Bind \/ Advance
LiveSpec == Spec /\ WF_vars(Tick)

-------------------------------------------------------------------------------
(* Properties *)

\* A correction is sent once per claim, and once for the target, whatever artifacts, contexts or
\* retries come after it; it answers a rejection by Lean, not a timeout, and is given exactly the
\* context of the job it corrects, under the verifier binding which that context was frozen with
\* (docs/repair-evaluation-plan.md, stages 1 and 3).
CorrectedOnce ==
  /\ \A c \in Claim : Cardinality(Jobs(LAMBDA d : d.claim = c /\ d.why \in Correcting)) <= 1
  /\ \A n \in DOMAIN history :
       LET d == history[n] IN
       /\ d.why = "auxiliary-correction" =>
            /\ artifacts[d.about].claim = d.claim /\ artifacts[d.about].status = "rejected"
            /\ LET job == history[artifacts[d.about].job]
               IN  d.context = job.context /\ d.revision = job.revision
       /\ d.why = "target-correction" =>
            /\ history[d.about].verdict = "rejected"
            /\ d.context = history[d.about].context /\ d.revision = history[d.about].revision

\* No strategy is tried on the same declarations more often than its retries allow, plans and
\* critiques never twice, and no two decisions have one key: a duplicate would fail the UNIQUE
\* constraint in every tick from then on (_admit_candidate, frontier_decisions).  Plans and critiques
\* never reserve more assignments than their cap, and at most three plans are made, however many
\* events ask for one (_frontier_candidates, _dispatch_frontier_task).
StrategiesBounded ==
  /\ Planning <= limits.planning
  /\ Cardinality(Jobs(LAMBDA d : d.action = "plan")) <= 3
  /\ \A n \in DOMAIN history :
       LET same == Jobs(LAMBDA d : Key(d) = Key(history[n])) IN
       /\ Cardinality(same) <= (IF history[n].action \in Plannish THEN 1 ELSE 1 + limits.retries)
       /\ \A m \in same \ {n} : history[m].retry # history[n].retry

\* What the completion needs is never spent on anything else: given enough at the start, the tasks,
\* the work and the operations left cover the tail, whichever models were routed to and however
\* many artifacts one answer brought (completion_tail, _admit_candidate, reserve_check).
TailFitted ==
  /\ Slots * 2 * Max(Costs["synthesizer"]) <= limits.work
  /\ Slots <= limits.tasks /\ Slots <= limits.operations
TailKept ==
  limits.reserve = 1 /\ TailFitted =>
    /\ CompletionTail.jobs <= limits.tasks - Len(history)
    /\ CompletionTail.work <= work
    /\ CompletionTail.checks <= limits.operations - ops

\* A choice is made on everything known: no decision was open, no artifact unchecked and no answer
\* unprocessed when a later one was made, and the work of all decisions is accounted for.  An older
\* artifact is unchecked only if the verifier's binding has changed since the latest choice; the
\* next choice then waits for it again (advance_frontier, bind_group_artifact_verifier).
InformedChoice ==
  /\ FTypeOK
  /\ \A n \in 1..(Len(history) - 1) : history[n].status \in Closed /\ history[n].processed
  /\ \A k \in DOMAIN artifacts : artifacts[k].status = "pending" =>
       artifacts[k].job = Len(history) \/ history[Len(history)].revision < revision
  /\ work = limits.work - Total(DOMAIN history, LAMBDA d : d.cost)

\* A group that finds nothing useful any more has tried the target, and has worked on every
\* suggestion that no reviewer objected to and Lean did not accept, unless planning was capped.  (A
\* proof accepted then is unchecked again if the verifier's binding changes later.)
GivesUpTruthfully ==
  reason = "no_useful_frontier" =>
    /\ Jobs(LAMBDA d : d.action = "synthesize") # {}
    /\ \A c \in Known : opinion[c] \in {"suggested", "promising"} =>
         Jobs(LAMBDA d : d.claim = c) # {} \/ ArtifactsOf(c, Bad \cup {"verified", "pending"}) # {}

RoomForPlan ==
  Slots < limits.tasks /\ Slots * 2 * Max(Costs["synthesizer"]) + 2 * Min(Costs["planner"]) <= limits.work
\* The reserve does what it is kept for: a group with enough for a plan besides stops without a
\* try at the target only at its deadline or because packets, models or checks failed it.
TargetTried ==
  limits.reserve = 1 /\ TailFitted /\ RoomForPlan /\ hiccups = 0 /\ phase = "stopped" /\ reason # "deadline"
    => Jobs(LAMBDA d : d.action = "synthesize") # {}

\* The frontier ends without its deadline: suggestion cycles, retries, reviews and proposals cannot
\* keep it busy for ever, and it waits for nothing that does not come (advance_frontier).
FrontierEnds == <>(phase = "stopped")

===============================================================================
