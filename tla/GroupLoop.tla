------------------------------ MODULE GroupLoop -------------------------------
(***************************************************************************)
(* The fixed six-call loop of an agent group (group_loop.py), driving its  *)
(* run through the job queue: plan, two investigations (each escalated at  *)
(* most once), review, redirection, synthesis.  advance_group performs one *)
(* transition per scheduler tick in one transaction, so each is an action. *)
(*                                                                         *)
(* The group has the queue to itself here.  group_loops.phase is phase     *)
(* until groupPhase[Group] is "stopped"; then phase is the last one before *)
(* the stop.  A call is one dispatch: a task, a job and their reservation. *)
(***************************************************************************)
EXTENDS JobQueue

CONSTANTS
  Group,        \* the group, by its run
  MaxWork,      \* agent_groups.max_work
  ModelCosts    \* the costs of the models configured for each call

Key == {"plan", "investigate-1", "investigate-2", "escalate-1", "escalate-2",
        "review", "redirect", "synthesize"}

ASSUME GroupAssumption == Group \in GroupRun /\ MaxAssignments[Group] >= 2
ASSUME WorkAssumption ==
  MaxWork \in 12..256 /\ ModelCosts \in [Key -> SUBSET (1..8)]

VARIABLES
  phase,   \* the step the loop is at
  reason,  \* group_loops.reason
  callOf,  \* the job of each call, 0 before dispatch
  task,    \* the status of each call's task
  paid,    \* group_jobs.cost of each call
  work,    \* agent_groups.remaining_work
  said     \* a completed lease's text, as it fares in the loop

loopVars == <<phase, reason, callOf, task, paid, work, said>>
allVars  == <<vars, loopVars>>

Asking  == {"plan", "review", "redirect", "synthesize"}
WaitOf  == [plan |-> "plan_wait", review |-> "review_wait", redirect |-> "redirect_wait",
            synthesize |-> "synthesis_wait"]
AfterOf == [plan |-> "investigate", review |-> "redirect", redirect |-> "synthesize"]
Phase   == Asking \cup {WaitOf[k] : k \in Asking} \cup {"none", "investigate", "investigate_wait"}

FailedCall  == [plan |-> "plan_failed", review |-> "review_failed", redirect |-> "redirect_failed"]
InvalidCall == [plan |-> "invalid_plan", review |-> "invalid_review"]
Reason == {"verified_target", "verifier_error", "deadline", "budget", "investigation_failed",
           "no_verified_target", "invalid_plan", "invalid_review", "plan_failed",
           "review_failed", "redirect_failed", "unroutable"}

\* The texts the loop can make nothing of.  Reading one raises an exception that only advance_groups
\* catches: a plan whose approach holds a lone surrogate is parsed and then encoded, JSON nested too
\* deeply exceeds the interpreter's recursion limit.  An approach of control characters is within
\* its own limit, but grows past the context's when investigation i quotes it as JSON.
LongFor(i) == IF i = 1 THEN "long-1" ELSE "long-2"
Stuck == {"raises", "long-1", "long-2"}

LoopTypeOK ==
  /\ phase \in Phase /\ reason \in Reason \cup {"none"}
  /\ callOf \in [Key -> Job \cup {0}]
  /\ task \in [Key -> {"absent", "open", "done", "blocked", "cancelled"}]
  /\ paid \in [Key -> 0..16] /\ work \in 0..MaxWork
  /\ said \in [Lease -> {"none", "good", "bad"} \cup Stuck]

KindOf(k)     == IF k = "synthesize" THEN "generate" ELSE "respond"
Original(i)   == IF i = 1 THEN "investigate-1" ELSE "investigate-2"
Escalation(i) == IF i = 1 THEN "escalate-1" ELSE "escalate-2"
FindingKey(i) == IF callOf[Escalation(i)] # 0 THEN Escalation(i) ELSE Original(i)

-------------------------------------------------------------------------------
(* One transition of advance_group.  ts is the task table it has written so far. *)

\* output() reads the first completed assignment of a finished job.  A transient failure is
\* stored as a completed assignment too and has no "output": reading it raises KeyError.
FirstCompleted(j) ==
  LET completed == {l \in Lease : leaseJob[l] = j /\ leaseStatus[l] = "completed"}
  IN {l \in completed : \A m \in completed : l <= m}

Text(j) ==
  IF FirstCompleted(j) = {} THEN "none"
  ELSE IF \E l \in FirstCompleted(j) : leaseResult[l] # "completed" THEN "error"
  ELSE said[CHOOSE l \in FirstCompleted(j) : TRUE]

\* Fault: a failed call is waited for like a queued one.
OutputWaits(k) ==
  IF callOf[k] = 0 \/ jobStatus[callOf[k]] # "done" THEN "none" ELSE Text(callOf[k])

Output(k) ==
  IF callOf[k] = 0 THEN "none"
  ELSE CASE jobStatus[callOf[k]] = "failed" -> "failed"
         [] jobStatus[callOf[k]] = "done"   -> Text(callOf[k])
         [] OTHER -> "none"

\* The text has been read and posted; a plan's approaches are quoted only later.
Answered(k) == Output(k) \in {"good", "long-1", "long-2"}

\* Fault: only the deadline and the proof settle tasks.
SettledBySome(why, k, status) ==
  IF status # "open" THEN status
  ELSE IF k = "synthesize" /\ why = "verified_target" THEN "done"
  ELSE IF why = "deadline" THEN "cancelled" ELSE "open"
Settled(why, k, status) ==
  IF status # "open" THEN status
  ELSE IF k = "synthesize" /\ why = "verified_target" THEN "done"
  ELSE IF why = "deadline" THEN "cancelled" ELSE "blocked"

StopLoop(why, ts) ==
  /\ StopGroup(Group)
  /\ reason' = why
  /\ task' = [k \in Key |-> Settled(why, k, ts[k])]
  /\ UNCHANGED <<phase, callOf, paid, work, said>>

Affordable(k) == {c \in ModelCosts[k] : 2 * c <= work}

\* Fault: the work of the second lease is not taken from the group.
ReserveOnce(k, c, ts) ==
  /\ \E j \in Job : /\ EnqueueGroupJob(Group, j, KindOf(k), 2)
                    /\ callOf' = [callOf EXCEPT ![k] = j]
  /\ paid' = [paid EXCEPT ![k] = 2 * c]
  /\ work' = work - c
  /\ task' = [ts EXCEPT ![k] = "open"]
  /\ UNCHANGED <<phase, reason, said>>

\* dispatch(), once a model of cost c is chosen: two leases at that cost are reserved.
Reserve(k, c, ts) ==
  /\ \E j \in Job : /\ EnqueueGroupJob(Group, j, KindOf(k), 2)
                    /\ callOf' = [callOf EXCEPT ![k] = j]
  /\ paid' = [paid EXCEPT ![k] = 2 * c]
  /\ work' = work - 2 * c
  /\ task' = [ts EXCEPT ![k] = "open"]
  /\ UNCHANGED <<phase, reason, said>>

\* The prompt fits no context (context_limit) or no affordable model is available and fit
\* (model_unavailable_or_unfit): one reason here, at any dispatch.
Dispatch(k, ts) ==
  /\ callOf[k] = 0
  /\ \/ \E c \in Affordable(k) : Reserve(k, c, ts)
     \/ Affordable(k) = {} /\ StopLoop("budget", ts)
     \/ StopLoop("unroutable", ts)

Move(to, ts) ==
  /\ phase' = to /\ task' = ts
  /\ UNCHANGED <<vars, reason, callOf, paid, work, said>>

\* message(): the answer becomes the group's and the task is done.
Posted(ts, k) == [ts EXCEPT ![k] = "done"]

\* What ends the loop whatever its phase; a proof or a verifier failure precedes the deadline.
Interruption ==
  IF runStatus[Group] = "solved" THEN "verified_target"
  ELSE IF runStatus[Group] = "error" THEN "verifier_error"
  ELSE IF groupPhase[Group] = "overdue" THEN "deadline" ELSE "none"

\* The synthesis is asked for once the verifier is bound and no artifact is pending: a delay here.
Ask(k) ==
  /\ phase = k
  /\ Dispatch(k, task) \/ (callOf[k] # 0 /\ Move(WaitOf[k], task))

\* A step that raises is rolled back and tried again: it changes nothing.
Settle(k) ==
  /\ phase = WaitOf[k]
  /\ \/ Output(k) = "failed" /\ StopLoop(FailedCall[k], task)
     \/ Output(k) = "bad" /\ k # "redirect" /\ StopLoop(InvalidCall[k], task)
     \/ Answered(k) /\ Move(AfterOf[k], Posted(task, k))

Quotable(i) == Output("plan") # LongFor(i)

Investigate ==
  /\ phase = "investigate"
  /\ \/ Quotable(1) /\ Dispatch("investigate-1", task)
     \/ callOf["investigate-1"] # 0 /\ Quotable(2) /\ Dispatch("investigate-2", task)
     \/ callOf["investigate-1"] # 0 /\ callOf["investigate-2"] # 0 /\ Move("investigate_wait", task)

\* A failed investigation is given to another model, once.
Escalate(i, ts) ==
  IF FindingKey(i) = Escalation(i) THEN StopLoop("investigation_failed", ts)
  ELSE Dispatch(Escalation(i), [ts EXCEPT ![Original(i)] = "blocked"])

\* Fault: the first findings to arrive are reviewed.
CollectEither ==
  /\ phase = "investigate_wait"
  /\ \E i \in {1, 2} :
       \/ Output(FindingKey(i)) = "failed" /\ Escalate(i, task)
       \/ Answered(FindingKey(i)) /\ Move("review", Posted(task, FindingKey(i)))

CollectFindings ==
  LET k1 == FindingKey(1)
      k2 == FindingKey(2)
      ts == Posted(task, k1)
  IN /\ phase = "investigate_wait"
     /\ \/ Output(k1) = "failed" /\ Escalate(1, task)
        \/ /\ Answered(k1)
           /\ \/ Output(k2) = "none" /\ task[k1] = "open" /\ Move(phase, ts)
              \/ Output(k2) = "failed" /\ Escalate(2, ts)
              \/ Answered(k2) /\ Move("review", Posted(ts, k2))

SynthesisEnds ==
  /\ phase = "synthesis_wait" /\ jobStatus[callOf["synthesize"]] \notin Live
  /\ StopLoop("no_verified_target", task)

Advance ==
  /\ groupPhase[Group] \in {"open", "overdue"}
  /\ IF Interruption # "none" THEN StopLoop(Interruption, task)
     ELSE \/ \E k \in Asking : Ask(k)
          \/ \E k \in DOMAIN AfterOf : Settle(k)
          \/ Investigate \/ CollectFindings \/ SynthesisEnds

-------------------------------------------------------------------------------
(* The rest of the system, with what the loop sees of it *)

Start ==
  /\ StartLoop(Group)
  /\ phase' = "plan"
  /\ UNCHANGED <<reason, callOf, task, paid, work, said>>

\* Only the plan and the review must have a form, but the findings are parsed too, for an artifact.
AnswerText(l) ==
  /\ Answer(l)
  /\ \E text \in {"good", "bad"} \cup Stuck :
       /\ text = "bad" => leaseJob[l] \in {callOf["plan"], callOf["review"]}
       /\ text = "raises" => leaseJob[l] # callOf["synthesize"]
       /\ text \in {LongFor(1), LongFor(2)} => leaseJob[l] = callOf["plan"]
       /\ said' = [said EXCEPT ![l] = IF leaseResult'[l] = "completed" THEN text ELSE @]
  /\ UNCHANGED <<phase, reason, callOf, task, paid, work>>

\* Fault: the reason of a stopped group stands whatever the late verdict.
CheckKeepsReason(c) ==
  \E v \in Outcome, new \in SUBSET Job :
    /\ Verified(c, v, new)
    /\ reason' = IF v = "verified" /\ reason = "none" THEN "verified_target" ELSE reason
    /\ task' = [k \in Key |-> IF v = "verified" /\ callOf[k] = leaseJob[checking[c]]
                              THEN "done" ELSE task[k]]
    /\ UNCHANGED <<phase, callOf, paid, work, said>>

\* A proof ends the group's task and overrides the reason of an earlier stop.
CheckTarget(c) ==
  \E v \in Outcome, new \in SUBSET Job :
    /\ Verified(c, v, new)
    /\ IF v = "verified"
       THEN /\ reason' = "verified_target"
            /\ task' = [k \in Key |-> IF callOf[k] = leaseJob[checking[c]] THEN "done" ELSE task[k]]
       ELSE UNCHANGED <<reason, task>>
    /\ UNCHANGED <<phase, callOf, paid, work, said>>

LoopInit ==
  /\ Init
  /\ phase = "none" /\ reason = "none"
  /\ callOf = [k \in Key |-> 0]
  /\ task = [k \in Key |-> "absent"]
  /\ paid = [k \in Key |-> 0]
  /\ work = MaxWork
  /\ said = [l \in Lease |-> "none"]

Unseen ==
  \/ DeadlinePasses(Group) \/ TimePasses \/ Expire
  \/ \E kinds \in SUBSET Kind : ClaimAny(kinds)
  \/ \E l \in Lease : Heartbeat(l)
  \/ \E c \in Checker : PickNext(c) \/ Abandon(c) \/ VerifiedAgain(c)

LoopNext ==
  \/ Start \/ Advance
  \/ \E l \in Lease : AnswerText(l)
  \/ \E c \in Checker : CheckTarget(c)
  \/ Unseen /\ UNCHANGED loopVars

LoopSpec == LoopInit /\ [][LoopNext]_allVars

\* As for the queue alone.  Nothing makes the deadline pass: the loop must end without it.
LoopFairness ==
  /\ WF_allVars(Advance)
  /\ WF_allVars(Expire /\ UNCHANGED loopVars)
  /\ WF_allVars(ClaimAny(Kind) /\ UNCHANGED loopVars)
  /\ \A l \in Lease : WF_allVars(AnswerText(l))
  /\ \A c \in Checker : WF_allVars(PickNext(c) /\ UNCHANGED loopVars) /\ SF_allVars(CheckTarget(c))

FairLoopSpec == LoopSpec /\ LoopFairness

-------------------------------------------------------------------------------
(* Properties *)

JobFailed(k) == callOf[k] # 0 /\ jobStatus[callOf[k]] = "failed"
LoopStopped  == groupPhase[Group] = "stopped"

\* docs/group-loop.md: a terminal group says why, and what it says is what the tables hold;
\* verified_target means a proof, however late, and a proof always says verified_target.
ReasonExplains ==
  /\ LoopStopped <=> reason # "none"
  /\ reason = "verified_target" <=> Proved(Group)
  /\ reason = "verifier_error" => runStatus[Group] = "error"
  /\ reason = "no_verified_target" =>
       callOf["synthesize"] # 0 /\ jobStatus[callOf["synthesize"]] \in Closed
  /\ reason = "budget" => \E k \in Key : callOf[k] = 0 /\ Affordable(k) = {}
  /\ reason = "investigation_failed" => JobFailed("escalate-1") \/ JobFailed("escalate-2")
  /\ \A k \in DOMAIN FailedCall : reason = FailedCall[k] => JobFailed(k)

Total(f) == f["plan"] + f["investigate-1"] + f["investigate-2"] + f["escalate-1"]
            + f["escalate-2"] + f["review"] + f["redirect"] + f["synthesize"]

\* Every lease a call may spend, retries included, was taken from the group's work before the
\* call was dispatched, so the leases of a group never cost more than max_work and the work never
\* becomes negative.
WorkAccounted ==
  /\ LoopTypeOK
  /\ work + Total(paid) = MaxWork
  /\ \A k \in Key : callOf[k] # 0 => Spent(callOf[k], leaseStatus) * (paid[k] \div 2) <= paid[k]

\* No task of a stopped group stays open, and none is done unless its own job is: a task's
\* answer was completed by the agent's job, the last one was proved.
TasksSettled ==
  \A k \in Key : /\ LoopStopped => task[k] # "open"
                 /\ task[k] = "done" => jobStatus[callOf[k]] = "done"
                 /\ task["synthesize"] = "done" => Proved(Group)

Used(i) == task[FindingKey(i)] = "done"

\* Each call is made on the answers it quotes: the review on both findings, the synthesis on
\* the plan, the findings, the review and the redirection; a call is escalated after it failed.
CallsInformed ==
  /\ callOf["review"] # 0 => task["plan"] = "done" /\ Used(1) /\ Used(2)
  /\ callOf["synthesize"] # 0 => callOf["review"] # 0 /\ task["review"] = "done" /\ task["redirect"] = "done"
  /\ \A i \in {1, 2} : callOf[Escalation(i)] # 0 => JobFailed(Original(i)) /\ task[Original(i)] = "blocked"

\* protocol/v1.md: a transient failure retries the same job under its assignment limit.  The
\* loop should then read the answer of the retry; output() reads the failure.
RetriedAnswerRead ==
  \A k \in Key \ {"synthesize"} :
    callOf[k] # 0 /\ jobStatus[callOf[k]] = "done" => Output(k) # "error"

\* A loop ends by itself, before any deadline, unless a call failed transiently or an answer is one
\* of the texts that its transition cannot process: no lost lease, failed call, answer of the wrong
\* form, empty budget or unproved target leaves it waiting.  (That the artifacts are settled
\* which its synthesis waits for is InputsSettled of Verification.)  Past its deadline every loop
\* ends, those waiting on such an answer too (advance_group, and advance_groups, which retries what
\* raised).
LoopEnds ==
  /\ phase = "plan" ~> \/ LoopStopped
                       \/ \E l \in Lease : leaseResult[l] = "transient" \/ said[l] \in Stuck
  /\ groupPhase[Group] = "overdue" ~> LoopStopped
===============================================================================
