--------------------------- MODULE GroupLoopProofs ----------------------------
(***************************************************************************)
(* Theorems about GroupLoop: driven by the loop, the queue still keeps all *)
(* its promises, a group's terminal reason is what the tables hold, its    *)
(* work is accounted for, its tasks are settled when it ends, and no call  *)
(* is made before what it has to know is there.                            *)
(***************************************************************************)
EXTENDS GroupLoop, JobQueueBounds

-------------------------------------------------------------------------------
(* Every transition of the loop is one of the queue's, or changes none of its tables *)

LEMMA StopIsQueueStep ==
  ASSUME NEW why, NEW ts, StopLoop(why, ts) PROVE Next
<1>1. StopGroup(Group) /\ Group \in GroupRun
  BY GroupAssumption DEF StopLoop
<1>2. QED
  BY <1>1 DEF Next, Groups

LEMMA ReserveIsQueueStep ==
  ASSUME NEW k \in Key, NEW c, NEW ts, Reserve(k, c, ts) PROVE Next
<1>1. PICK j \in Job : EnqueueGroupJob(Group, j, KindOf(k), 2)
  BY DEF Reserve
<1>2. Group \in GroupRun /\ 2 \in 1..MaxAssignments[Group]
  BY GroupAssumption, LimitAssumption
<1>3. KindOf(k) \in Kind
  BY DEF KindOf, Kind
<1>4. QED
  BY <1>1, <1>2, <1>3 DEF Next, Requests

LEMMA DispatchIsQueueStep ==
  ASSUME NEW k \in Key, NEW ts, Dispatch(k, ts) PROVE Next
BY StopIsQueueStep, ReserveIsQueueStep DEF Dispatch

LEMMA MoveStutters == ASSUME NEW to, NEW ts, Move(to, ts) PROVE UNCHANGED vars
BY DEF Move

LEMMA AdvanceIsQueueStep == ASSUME Advance PROVE [Next]_vars
<1>1. ASSUME NEW k \in Asking, Ask(k) PROVE [Next]_vars
  BY <1>1, DispatchIsQueueStep, MoveStutters DEF Ask, Asking, Key
<1>2. ASSUME NEW k \in DOMAIN AfterOf, Settle(k) PROVE [Next]_vars
  BY <1>2, StopIsQueueStep, MoveStutters DEF Settle
<1>3. ASSUME Investigate PROVE [Next]_vars
  BY <1>3, DispatchIsQueueStep, MoveStutters DEF Investigate, Key
<1>4. ASSUME NEW i \in {1, 2}, NEW ts, Escalate(i, ts) PROVE [Next]_vars
  BY <1>4, DispatchIsQueueStep, StopIsQueueStep DEF Escalate, Escalation, Key
<1>5. ASSUME CollectFindings PROVE [Next]_vars
  BY <1>4, <1>5, MoveStutters DEF CollectFindings
<1>6. QED
  BY <1>1, <1>2, <1>3, <1>5, StopIsQueueStep DEF Advance, SynthesisEnds

LEMMA LoopStepIsQueueStep == ASSUME [LoopNext]_allVars PROVE [Next]_vars
<1>1. ASSUME Start PROVE Next
  BY <1>1, GroupAssumption DEF Start, Next, Groups
<1>2. ASSUME NEW l \in Lease, AnswerText(l) PROVE Next
  BY <1>2 DEF AnswerText, Next, Workers
<1>3. ASSUME NEW c \in Checker, CheckTarget(c) PROVE Next
  BY <1>3 DEF CheckTarget, Check, Next, Loops
<1>4. ASSUME Unseen PROVE Next
  BY <1>4, GroupAssumption DEF Unseen, Next, Groups, Workers, Loops
<1>5. QED
  BY <1>1, <1>2, <1>3, <1>4, AdvanceIsQueueStep DEF LoopNext, allVars

\* The loop uses the queue only through the queue's own operations: whatever holds of JobQueue
\* holds of a queue a group drives.
THEOREM LoopImplementsQueue == LoopSpec => Spec
<1>1. LoopInit => Init
  BY DEF LoopInit
<1>2. [LoopNext]_allVars => [Next]_vars
  BY LoopStepIsQueueStep
<1>3. QED
  BY <1>1, <1>2, PTL DEF LoopSpec, Spec

-------------------------------------------------------------------------------
(* The terminal reason *)

\* What the reasons rest on: the calls are jobs of the table, the table has the group's jobs
\* only, and the loop waits for a synthesis it has dispatched.
LoopRows ==
  /\ \A k \in Key : callOf[k] # 0 => callOf[k] \in Job /\ jobStatus[callOf[k]] # "absent"
  /\ \A j \in Job : jobStatus[j] # "absent" => RunOf(j) = Group /\ groupPhase[Group] # "none"
  /\ phase = "synthesis_wait" => callOf["synthesize"] # 0

LoopInv == LoopTypeOK /\ LoopRows /\ ReasonExplains

\* A reason stays true as long as nothing stops the group and nothing proves the target.
LEMMA ReasonStays ==
  ASSUME IInv', LoopInv, RecordsKept, RunMoves, UNCHANGED <<reason, callOf, work>>,
         LoopStopped' <=> LoopStopped,
         runStatus'[Group] = "solved" <=> runStatus[Group] = "solved",
         SolvedIffProved
  PROVE  ReasonExplains'
<1>1. Group \in Run /\ Group \in GroupRun
  BY GroupAssumption, LimitAssumption
<1>2. Proved(Group)' <=> Proved(Group)
  BY <1>1 DEF IInv, SolvedIffProved
<1>3. \A k \in Key : JobFailed(k) => JobFailed(k)'
  BY DEF LoopInv, LoopRows, JobFailed, RecordsKept, Closed
<1>4. \A k \in Key : callOf[k] # 0 /\ jobStatus[callOf[k]] \in Closed => jobStatus'[callOf[k]] \in Closed
  BY DEF LoopInv, LoopRows, RecordsKept
<1>5. runStatus[Group] = "error" => runStatus'[Group] = "error"
  BY <1>1 DEF RunMoves
<1>6. reason = "budget" => \E k \in Key : callOf'[k] = 0 /\ Affordable(k)' = {}
  BY DEF LoopInv, ReasonExplains, Affordable
<1>7. "synthesize" \in Key /\ DOMAIN FailedCall \subseteq Key
      /\ "escalate-1" \in Key /\ "escalate-2" \in Key
  BY DEF FailedCall, Key
<1>8. QED
  BY <1>2, <1>3, <1>4, <1>5, <1>6, <1>7 DEF LoopInv, ReasonExplains

\* Worker steps and the loops' reading steps: they insert no job, stop no group, prove nothing.
LEMMA QuietSteps ==
  ASSUME IInv, Start \/ Unseen \/ \E l \in Lease : AnswerText(l)
  PROVE  /\ jobRow' = jobRow
         /\ \A j \in Job : jobStatus[j] = "absent" => jobStatus'[j] = "absent"
         /\ LoopStopped' <=> LoopStopped
         /\ groupPhase[Group] # "none" => groupPhase'[Group] # "none"
         /\ runStatus'[Group] = "solved" => runStatus[Group] = "solved"
<1> USE DEF IInv
<1>0. Group \in Run /\ Group \in GroupRun /\ groupPhase \in [GroupRun -> {"none", "open", "overdue", "stopped"}]
  BY GroupAssumption, LimitAssumption DEF TypeOK
<1>1. CASE StartLoop(Group) \/ DeadlinePasses(Group)
  BY <1>0, <1>1 DEF StartLoop, DeadlinePasses, jobVars, LoopStopped
<1>2. CASE TimePasses \/ \E l \in Lease : Heartbeat(l)
  BY <1>2 DEF TimePasses, Heartbeat, runVars, jobVars, LoopStopped
<1>3. CASE \E c \in Checker : PickNext(c) \/ Abandon(c) \/ VerifiedAgain(c)
  BY <1>3 DEF PickNext, Pick, Abandon, VerifiedAgain, runVars, jobVars, LoopStopped
<1>4. CASE Expire
  BY <1>0, <1>4, SweepFacts DEF Expire, LoopStopped
<1>5. CASE \E kinds \in SUBSET Kind : ClaimAny(kinds)
  <2>1. PICK kinds \in SUBSET Kind : \E j \in Job, l \in Lease : Claim(kinds, j, l)
    BY <1>5, ClaimParts
  <2>2. PICK j \in Job, l \in Lease : Claim(kinds, j, l)
    BY <2>1
  <2>3. SweptJobs[j] = "queued" /\ jobStatus' = [SweptJobs EXCEPT ![j] = "assigned"]
        /\ runStatus' = SweptRuns /\ UNCHANGED <<groupPhase, jobRow>>
    BY <2>2 DEF Claim, Claimable
  <2>4. QED
    BY <1>0, <2>3, SweepFacts DEF LoopStopped
<1>6. CASE \E l \in Lease : AnswerText(l)
  <2>1. PICK l \in Lease, p \in Payload : Result(l, p)
    BY <1>6 DEF AnswerText, Answer
  <2> DEFINE j == leaseJob[l]
             js == [jobStatus EXCEPT ![j] = AnsweredStatus(j, p, leaseStatus')]
  <2>2. j \in Job /\ jobStatus[j] = "assigned" /\ jobRow' = jobRow /\ groupPhase' = groupPhase
        /\ Refresh(runStatus, js)
    BY <2>1 DEF Result, Holds, RowInv, SoleLease, LeasedJob
  <2>3. AnsweredStatus(j, p, leaseStatus') \in JobStatus
    BY DEF AnsweredStatus, RetryStatus, JobStatus, Live, Closed
  <2>4. js \in [Job -> JobStatus] /\ \A k \in Job \ {j} : js[k] = jobStatus[k]
    BY <2>2, <2>3 DEF TypeOK
  <2> HIDE DEF js
  <2>5. /\ \A k \in Job : jobStatus'[k] = js[k] \/ (js[k] = "queued" /\ jobStatus'[k] = "cancelled")
        /\ \A q \in Run : runStatus'[q] = runStatus[q] \/ (runStatus[q] = "running" /\ runStatus'[q] = "exhausted")
    BY <2>2, <2>4, RefreshWrite DEF TypeOK
  <2>6. QED
    BY <1>0, <2>2, <2>4, <2>5 DEF LoopStopped
<1>7. QED
  BY <1>1, <1>2, <1>3, <1>4, <1>5, <1>6 DEF Start, Unseen

LEMMA QuietInv ==
  ASSUME IInv, IInv', RecordsKept, RunMoves, LoopInv,
         Start \/ (Unseen /\ UNCHANGED loopVars) \/ \E l \in Lease : AnswerText(l)
  PROVE  LoopInv'
<1>1. /\ UNCHANGED <<reason, callOf, task, paid, work>>
      /\ phase' = phase \/ phase' = "plan"
      /\ said' \in [Lease -> {"none", "good", "bad"} \cup Stuck]
  BY DEF Start, AnswerText, loopVars, LoopInv, LoopTypeOK
<1>2. Group \in Run
  BY GroupAssumption, LimitAssumption
<1>3. LoopTypeOK'
  BY <1>1 DEF LoopInv, LoopTypeOK, Phase, Asking
<1>4. LoopRows'
  BY <1>1, QuietSteps DEF LoopInv, LoopRows, RecordsKept, RunOf
<1>5. runStatus'[Group] = "solved" <=> runStatus[Group] = "solved"
  BY <1>2, QuietSteps DEF RunMoves
<1>6. ReasonExplains'
  BY <1>1, <1>5, QuietSteps, ReasonStays DEF IInv
<1>7. QED
  BY <1>3, <1>4, <1>6 DEF LoopInv

\* What a transition must know to stop the loop for the given reason.
Justified(why) ==
  /\ why \in Reason
  /\ why = "verified_target" <=> runStatus[Group] = "solved"
  /\ why = "verifier_error" => runStatus[Group] = "error"
  /\ why = "no_verified_target" => phase = "synthesis_wait" /\ jobStatus[callOf["synthesize"]] \notin Live
  /\ why = "budget" => \E k \in Key : callOf[k] = 0 /\ Affordable(k) = {}
  /\ why = "investigation_failed" => JobFailed("escalate-1") \/ JobFailed("escalate-2")
  /\ \A k \in DOMAIN FailedCall : why = FailedCall[k] => JobFailed(k)

TaskTable == [Key -> {"absent", "open", "done", "blocked", "cancelled"}]

LEMMA StopInv ==
  ASSUME IInv, IInv', RecordsKept, RunMoves, LoopInv, NEW why, NEW ts \in TaskTable,
         StopLoop(why, ts), Justified(why)
  PROVE  LoopInv'
<1>0. Group \in Run /\ Group \in GroupRun /\ runStatus \in [Run -> RunStatus]
  BY GroupAssumption, LimitAssumption DEF IInv, TypeOK
<1>1. /\ jobStatus \in [Job -> JobStatus] /\ StopGroupJobs(Group, jobStatus)
      /\ UNCHANGED <<phase, callOf, paid, work, said>> /\ reason' = why
      /\ task' = [k \in Key |-> Settled(why, k, ts[k])]
  BY DEF StopLoop, StopGroup, IInv, TypeOK
<1>2. /\ jobRow' = jobRow /\ groupPhase'[Group] = "stopped" /\ reason' # "none"
      /\ groupPhase[Group] # "stopped"
  BY <1>0, <1>1 DEF StopGroupJobs, IInv, TypeOK, Justified, Reason
<1>3. /\ \A j \in Job : jobStatus'[j] = jobStatus[j] \/ (jobStatus[j] = "queued" /\ jobStatus'[j] = "cancelled")
      /\ \A q \in Run : runStatus'[q] = runStatus[q] \/ (runStatus[q] = "running" /\ runStatus'[q] = "exhausted")
  BY <1>0, <1>1, StopWrite
<1>4. LoopTypeOK'
  <2>1. task' \in TaskTable
    BY <1>1 DEF Settled, TaskTable
  <2>2. QED
    BY <1>1, <2>1 DEF LoopInv, LoopTypeOK, Justified, TaskTable
<1>5. LoopRows'
  BY <1>1, <1>2, <1>3 DEF LoopInv, LoopRows, RunOf
<1>6. ReasonExplains'
  <2>1. runStatus'[Group] = "solved" <=> Proved(Group)'
    BY <1>0 DEF IInv, SolvedIffProved
  <2>2. /\ why = "verified_target" <=> runStatus'[Group] = "solved"
        /\ why = "verifier_error" => runStatus'[Group] = "error"
    BY <1>0, <1>3 DEF Justified
  <2>3. why = "no_verified_target" =>
          callOf["synthesize"] # 0 /\ jobStatus'[callOf["synthesize"]] \in Closed
    <3>1. "synthesize" \in Key
      BY DEF Key
    <3>2. QED
      BY <1>1, <1>3, <3>1 DEF Justified, LoopInv, LoopRows, JobStatus, Closed, Live
  <2>4. \A k \in Key : JobFailed(k) => JobFailed(k)'
    BY <1>1, <1>3 DEF JobFailed, LoopInv, LoopRows
  <2>5. why = "budget" => \E k \in Key : callOf'[k] = 0 /\ Affordable(k)' = {}
    BY <1>1 DEF Justified, Affordable
  <2>6. "escalate-1" \in Key /\ "escalate-2" \in Key /\ DOMAIN FailedCall \subseteq Key
    BY DEF Key, FailedCall
  <2>7. QED
    BY <1>1, <1>2, <2>1, <2>2, <2>3, <2>4, <2>5, <2>6 DEF Justified, ReasonExplains, LoopStopped
<1>7. QED
  BY <1>4, <1>5, <1>6 DEF LoopInv

\* A dispatch reopens or starts the run and adds a job and its reservation to the tables.
LEMMA ReserveInv ==
  ASSUME IInv, IInv', RecordsKept, LoopInv, NEW k \in Key, NEW c \in Affordable(k),
         NEW ts \in TaskTable, Reserve(k, c, ts), groupPhase[Group] # "none"
  PROVE  LoopInv'
<1>0. Group \in Run /\ Group \in GroupRun /\ runStatus \in [Run -> RunStatus]
  BY GroupAssumption, LimitAssumption DEF IInv, TypeOK
<1>1. PICK j \in Job : EnqueueGroupJob(Group, j, KindOf(k), 2) /\ callOf' = [callOf EXCEPT ![k] = j]
  BY DEF Reserve
<1>2. /\ jobRow' = [i \in Job |-> IF i = j THEN NewJob(Group, KindOf(k), 2) ELSE jobRow[i]]
      /\ jobStatus' = [i \in Job |-> IF i = j THEN "queued" ELSE jobStatus[i]]
      /\ runStatus'[Group] = "running" /\ groupPhase' = groupPhase /\ groupPhase[Group] # "stopped"
  BY <1>0, <1>1 DEF EnqueueGroupJob, InsertJobs
<1>3. LoopTypeOK'
  <2>1. c \in 1..8 /\ 2 * c <= work /\ work \in 0..MaxWork /\ MaxWork \in Nat
    BY WorkAssumption DEF Affordable, LoopInv, LoopTypeOK
  <2>2. work' \in 0..MaxWork /\ 2 * c \in 0..16
    BY <2>1 DEF Reserve
  <2>3. QED
    BY <1>1, <2>2 DEF Reserve, LoopInv, LoopTypeOK, TaskTable
<1>4. LoopRows'
  <2>1. RunOf(j)' = Group
    BY <1>2 DEF RunOf, NewJob
  <2>2. \A x \in Key : callOf'[x] # 0 => callOf'[x] \in Job /\ jobStatus'[callOf'[x]] # "absent"
    BY <1>1, <1>2 DEF LoopInv, LoopRows, LoopTypeOK
  <2>3. "synthesize" \in Key /\ j # 0
    BY RowAssumption DEF Key
  <2>4. QED
    BY <1>1, <1>2, <2>1, <2>2, <2>3 DEF Reserve, LoopInv, LoopRows, LoopTypeOK, RunOf
<1>5. ReasonExplains'
  <2>1. ~ Proved(Group)'
    BY <1>0, <1>2 DEF IInv, SolvedIffProved
  <2>2. reason' = "none" /\ ~ LoopStopped'
    BY <1>2 DEF Reserve, LoopInv, ReasonExplains, LoopStopped
  <2>3. QED
    BY <2>1, <2>2 DEF ReasonExplains, FailedCall
<1>6. QED
  BY <1>3, <1>4, <1>5 DEF LoopInv

LEMMA MoveInv ==
  ASSUME IInv, IInv', LoopInv, NEW to \in Phase, NEW ts \in TaskTable, Move(to, ts),
         to = "synthesis_wait" => callOf["synthesize"] # 0
  PROVE  LoopInv'
<1>1. UNCHANGED <<runStatus, groupPhase, jobRow, jobStatus, leaseJob, verdict, reason, callOf, paid, work, said>>
      /\ phase' = to /\ task' = ts
  BY DEF Move, vars, runVars, jobVars, leaseVars, proofVars
<1>2. LoopTypeOK' /\ LoopRows'
  BY <1>1 DEF LoopInv, LoopTypeOK, LoopRows, TaskTable, RunOf
<1>3. ReasonExplains'
  BY <1>1 DEF LoopInv, ReasonExplains, LoopStopped, Proved, RunOf, JobFailed, Affordable
<1>4. QED
  BY <1>2, <1>3 DEF LoopInv

LEMMA DispatchInv ==
  ASSUME IInv, IInv', RecordsKept, RunMoves, LoopInv, NEW k \in Key, NEW ts \in TaskTable,
         Dispatch(k, ts), groupPhase[Group] # "none", runStatus[Group] \notin {"solved", "error"}
  PROVE  LoopInv'
<1>1. ASSUME NEW c \in Affordable(k), Reserve(k, c, ts) PROVE LoopInv'
  BY <1>1, ReserveInv
<1>2. ASSUME NEW why \in {"budget", "unroutable"}, StopLoop(why, ts), why = "budget" => Affordable(k) = {}
      PROVE  LoopInv'
  <2>1. callOf[k] = 0
    BY DEF Dispatch
  <2>2. Justified(why)
    BY <1>2, <2>1 DEF Justified, Reason, FailedCall
  <2>3. QED
    BY <1>2, <2>2, StopInv
<1>3. QED
  BY <1>1, <1>2 DEF Dispatch

\* No text reads as a failure: only a failed job does.
LEMMA FailureRead ==
  ASSUME LoopTypeOK, NEW k \in Key, Output(k) = "failed" PROVE JobFailed(k)
<1>1. CASE callOf[k] = 0 \/ jobStatus[callOf[k]] # "done"
  BY <1>1 DEF Output, JobFailed
<1>2. CASE callOf[k] # 0 /\ jobStatus[callOf[k]] = "done"
  <2> DEFINE j == callOf[k]
             first == CHOOSE l \in FirstCompleted(j) : TRUE
  <2>1. Text(j) = "failed"
    BY <1>2 DEF Output
  <2>2. FirstCompleted(j) # {} /\ FirstCompleted(j) \subseteq Lease
    BY <2>1 DEF Text, FirstCompleted
  <2>3. first \in Lease
    BY <2>2
  <2>4. said[first] # "failed"
    BY <2>3 DEF LoopTypeOK, Stuck
  <2>5. QED
    BY <2>1, <2>4 DEF Text
<1>3. QED
  BY <1>1, <1>2

LEMMA PostedTyped ==
  ASSUME NEW ts \in TaskTable, NEW k \in Key, NEW status \in {"done", "blocked"}
  PROVE  [ts EXCEPT ![k] = status] \in TaskTable
BY DEF TaskTable

LEMMA AdvanceInv ==
  ASSUME IInv, IInv', RecordsKept, RunMoves, LoopInv, Advance PROVE LoopInv'
<1>1. groupPhase[Group] # "none" /\ task \in TaskTable
  BY DEF Advance, LoopInv, LoopTypeOK, TaskTable
<1>2. CASE Interruption # "none"
  <2>1. StopLoop(Interruption, task)
    BY <1>2 DEF Advance
  <2>2. /\ Interruption \in {"verified_target", "verifier_error", "deadline"}
        /\ Interruption = "verified_target" <=> runStatus[Group] = "solved"
        /\ Interruption = "verifier_error" => runStatus[Group] = "error"
    BY <1>2 DEF Interruption
  <2>3. Justified(Interruption)
    BY <2>2 DEF Justified, Reason, FailedCall
  <2>4. QED
    BY <1>1, <2>1, <2>3, StopInv
<1>3. CASE Interruption = "none"
  <2>0. runStatus[Group] \notin {"solved", "error"}
    BY <1>3 DEF Interruption
  <2>1. ASSUME NEW k \in Asking, Ask(k) PROVE LoopInv'
    <3>1. k \in Key /\ WaitOf[k] \in Phase /\ (WaitOf[k] = "synthesis_wait" => k = "synthesize")
      BY DEF Asking, Key, Phase, WaitOf
    <3>2. QED
      BY <1>1, <2>0, <2>1, <3>1, DispatchInv, MoveInv DEF Ask
  <2>2. ASSUME NEW k \in DOMAIN AfterOf, Settle(k) PROVE LoopInv'
    <3>1. /\ k \in Key /\ AfterOf[k] \in Phase /\ AfterOf[k] # "synthesis_wait"
          /\ k \in DOMAIN FailedCall
      BY DEF AfterOf, Key, Phase, Asking, FailedCall
    <3>2. CASE Output(k) = "failed" /\ StopLoop(FailedCall[k], task)
      <4>1. JobFailed(k)
        BY <3>1, <3>2, FailureRead DEF LoopInv
      <4>2. /\ FailedCall[k] \in {"plan_failed", "review_failed", "redirect_failed"}
            /\ \A x \in DOMAIN FailedCall : FailedCall[x] = FailedCall[k] => x = k
        BY <3>1 DEF FailedCall
      <4>3. Justified(FailedCall[k])
        BY <2>0, <4>1, <4>2 DEF Justified, Reason
      <4>4. QED
        BY <1>1, <3>2, <4>3, StopInv
    <3>3. CASE k # "redirect" /\ StopLoop(InvalidCall[k], task)
      <4>1. InvalidCall[k] \in {"invalid_plan", "invalid_review"}
        BY <3>1, <3>3 DEF InvalidCall, FailedCall
      <4>2. Justified(InvalidCall[k])
        BY <2>0, <4>1 DEF Justified, Reason, FailedCall
      <4>3. QED
        BY <1>1, <3>3, <4>2, StopInv
    <3>4. CASE Move(AfterOf[k], Posted(task, k))
      BY <1>1, <3>1, <3>4, PostedTyped, MoveInv DEF Posted
    <3>5. QED
      BY <2>2, <3>2, <3>3, <3>4 DEF Settle
  <2>3. ASSUME Investigate PROVE LoopInv'
    <3>1. "investigate-1" \in Key /\ "investigate-2" \in Key /\ "investigate_wait" \in Phase
      BY DEF Key, Phase
    <3>2. QED
      BY <1>1, <2>0, <2>3, <3>1, DispatchInv, MoveInv DEF Investigate
  <2>4. \A i \in {1, 2} : FindingKey(i) \in Key /\ Escalation(i) \in Key /\ Original(i) \in Key
    BY DEF FindingKey, Escalation, Original, Key
  <2>5. ASSUME NEW i \in {1, 2}, NEW ts \in TaskTable, Output(FindingKey(i)) = "failed", Escalate(i, ts)
        PROVE  LoopInv'
    <3>1. CASE FindingKey(i) = Escalation(i) /\ StopLoop("investigation_failed", ts)
      <4>1. JobFailed(Escalation(i))
        BY <2>4, <2>5, <3>1, FailureRead DEF LoopInv
      <4>2. Justified("investigation_failed")
        BY <2>0, <4>1 DEF Justified, Reason, FailedCall, Escalation
      <4>3. QED
        BY <2>5, <3>1, <4>2, StopInv
    <3>2. CASE Dispatch(Escalation(i), [ts EXCEPT ![Original(i)] = "blocked"])
      BY <1>1, <2>0, <2>4, <3>2, PostedTyped, DispatchInv
    <3>3. QED
      BY <2>5, <3>1, <3>2 DEF Escalate
  <2>6. ASSUME CollectFindings PROVE LoopInv'
    <3>1. Posted(task, FindingKey(1)) \in TaskTable
          /\ Posted(Posted(task, FindingKey(1)), FindingKey(2)) \in TaskTable
      BY <1>1, <2>4, PostedTyped DEF Posted
    <3>2. phase \in Phase /\ phase # "synthesis_wait" /\ "review" \in Phase
      BY <2>6 DEF CollectFindings, Phase, Asking
    <3>3. QED
      BY <1>1, <2>5, <2>6, <3>1, <3>2, MoveInv DEF CollectFindings
  <2>7. ASSUME SynthesisEnds PROVE LoopInv'
    <3>1. Justified("no_verified_target")
      BY <2>0, <2>7 DEF SynthesisEnds, Justified, Reason, FailedCall
    <3>2. QED
      BY <1>1, <2>7, <3>1, StopInv DEF SynthesisEnds
  <2>8. QED
    BY <1>3, <2>1, <2>2, <2>3, <2>6, <2>7 DEF Advance
<1>4. QED
  BY <1>2, <1>3

\* A verdict on the group's candidate: a proof gives the reason, even to a stopped group.
LEMMA CheckInv ==
  ASSUME IInv, IInv', RecordsKept, RunMoves, CheckedLives, LoopInv,
         NEW c \in Checker, CheckTarget(c)
  PROVE  LoopInv'
<1>1. PICK v \in Outcome, new \in SUBSET Job :
        /\ Verified(c, v, new)
        /\ IF v = "verified"
           THEN /\ reason' = "verified_target"
                /\ task' = [k \in Key |-> IF callOf[k] = leaseJob[checking[c]] THEN "done" ELSE task[k]]
           ELSE UNCHANGED <<reason, task>>
        /\ UNCHANGED <<phase, callOf, paid, work, said>>
  BY DEF CheckTarget
<1> DEFINE a == checking[c]
           j == leaseJob[a]
<1>2. /\ a \in Lease /\ verdict[a] = "pending" /\ j \in Job /\ jobStatus[j] # "absent"
      /\ RunOf(j) = Group /\ groupPhase[Group] # "none"
  BY <1>1 DEF Verified, IInv, TypeOK, RowInv, LoopInv, LoopRows
<1>3. /\ \A k \in new : jobStatus[k] = "absent"
      /\ jobRow' = [k \in Job |-> IF k \in new THEN RepairRow(j, a) ELSE jobRow[k]]
      /\ verdict' = [verdict EXCEPT ![a] = v] /\ leaseJob' = leaseJob
      /\ groupPhase' = [g \in GroupRun |-> IF g = Group /\ v = "verified" /\ groupPhase[g] # "none"
                                           THEN "stopped" ELSE groupPhase[g]]
      /\ Refresh([runStatus EXCEPT ![Group] = Judged(@, v)],
                 [k \in Job |-> IF k \in new THEN "queued" ELSE IF k = j THEN "done" ELSE jobStatus[k]])
  BY <1>1, <1>2 DEF Verified, NextRows, JobRows, leaseVars
<1>4. /\ jobRow'[j].run = Group
      /\ \A k \in new : jobRow'[k].run = Group
      /\ \A k \in Job \ new : jobRow'[k] = jobRow[k]
  BY <1>2, <1>3 DEF RunOf, RepairRow, TypeOK
<1> DEFINE rs == [runStatus EXCEPT ![Group] = Judged(@, v)]
           js == [k \in Job |-> IF k \in new THEN "queued" ELSE IF k = j THEN "done" ELSE jobStatus[k]]
<1>5. \A k \in Job : jobStatus'[k] # "absent" => k \in new \/ jobStatus[k] # "absent"
  <2>1. js \in [Job -> JobStatus] /\ rs \in [Run -> RunStatus] /\ jobRow' \in [Job -> JobRow \cup {NoJob}]
    <3>1. runStatus \in [Run -> RunStatus] /\ jobStatus \in [Job -> JobStatus]
      BY DEF IInv, TypeOK
    <3>2. Group \in Run /\ Judged(runStatus[Group], v) \in RunStatus
      BY <3>1, GroupAssumption, LimitAssumption DEF Judged, RunStatus
    <3>3. QED
      BY <3>1, <3>2 DEF IInv, TypeOK, JobStatus, Live, Closed
  <2>2. \A k \in Job : js[k] # "absent" => k \in new \/ jobStatus[k] # "absent"
    BY <1>2
  <2>3. Refresh(rs, js)
    BY <1>3
  <2> HIDE DEF rs, js
  <2>4. QED
    BY <2>1, <2>2, <2>3, RefreshWrite
<1>6. LoopRows'
  <2>1. groupPhase'[Group] # "none"
    BY <1>2, <1>3, GroupAssumption
  <2>2. UNCHANGED <<phase, callOf>>
    BY <1>1
  <2>3. \A k \in Job : jobStatus'[k] # "absent" => jobRow'[k].run = Group
    BY <1>4, <1>5 DEF LoopInv, LoopRows, RunOf
  <2>4. QED
    BY <2>1, <2>2, <2>3 DEF LoopInv, LoopRows, RecordsKept, RunOf
<1>7. LoopTypeOK'
  BY <1>1 DEF LoopInv, LoopTypeOK, Reason
<1>8. CASE v = "verified"
  <2>1. Proved(Group)' /\ LoopStopped'
    BY <1>2, <1>3, <1>4, <1>8, GroupAssumption DEF Proved, RunOf, LoopStopped, IInv, TypeOK
  <2>2. reason' = "verified_target"
    BY <1>1, <1>8
  <2>3. ReasonExplains'
    BY <2>1, <2>2 DEF ReasonExplains, FailedCall
  <2>4. QED
    BY <1>6, <1>7, <2>3 DEF LoopInv
<1>9. CASE v # "verified"
  <2>1. UNCHANGED <<reason, callOf, work>> /\ (LoopStopped' <=> LoopStopped)
    BY <1>1, <1>3, <1>9, GroupAssumption DEF LoopStopped
  <2>2. Proved(Group)' <=> Proved(Group)
    <3>1. \A l \in Lease : verdict'[l] = "verified" <=> verdict[l] = "verified"
      BY <1>2, <1>3, <1>9 DEF IInv, TypeOK
    <3>2. \A l \in Lease : verdict[l] = "verified" => leaseJob[l] \in Job \ new
      BY <1>3 DEF IInv, RowInv
    <3>3. QED
      BY <1>3, <1>4, <3>1, <3>2 DEF Proved, RunOf
  <2>3. runStatus'[Group] = "solved" <=> runStatus[Group] = "solved"
    BY <2>2, GroupAssumption, LimitAssumption DEF IInv, SolvedIffProved
  <2>4. ReasonExplains'
    BY <2>1, <2>3, ReasonStays DEF IInv
  <2>5. QED
    BY <1>6, <1>7, <2>4 DEF LoopInv
<1>10. QED
  BY <1>8, <1>9

LEMMA LoopInvInit == ASSUME LoopInit PROVE LoopInv
<1>1. LoopTypeOK
  BY WorkAssumption DEF LoopInit, LoopTypeOK, Phase, Reason
<1>2. LoopRows
  BY DEF LoopInit, Init, LoopRows
<1>3. ReasonExplains
  BY GroupAssumption DEF LoopInit, Init, ReasonExplains, LoopStopped, Proved, FailedCall
<1>4. QED
  BY <1>1, <1>2, <1>3 DEF LoopInv

LEMMA LoopInvNext ==
  ASSUME IInv, CheckedLives, LoopInv, [LoopNext]_allVars PROVE LoopInv'
<1>1. [Next]_vars
  BY LoopStepIsQueueStep
<1>2. IInv' /\ RecordsKept /\ RunMoves
  BY <1>1, NextInv, NextKeeps
<1>3. CASE UNCHANGED allVars
  <2>1. UNCHANGED <<phase, reason, callOf, task, paid, work, said, runStatus, groupPhase, jobRow,
                    jobStatus, leaseJob, verdict>>
    BY <1>3 DEF allVars, loopVars, vars, runVars, jobVars, leaseVars, proofVars
  <2>2. QED
    BY <2>1 DEF LoopInv, LoopTypeOK, LoopRows, ReasonExplains, LoopStopped, Proved, RunOf, JobFailed, Affordable
<1>4. CASE LoopNext
  BY <1>2, <1>4, QuietInv, AdvanceInv, CheckInv DEF LoopNext
<1>5. QED
  BY <1>3, <1>4

LEMMA LoopInvHolds == LoopSpec => []LoopInv
<1>1. LoopSpec => []IInv /\ []CheckedLives
  BY LoopImplementsQueue, InvHolds, CheckedHolds, PTL
<1>2. QED
  BY <1>1, LoopInvInit, LoopInvNext, PTL DEF LoopSpec

\* Whatever the workers, the verifier and the deadline do, and for every budget and every set
\* of models, a stopped group's reason is what the tables hold: a proof, however late, always
\* reads verified_target and nothing else does.
THEOREM ReasonsAreTrue == LoopSpec => []ReasonExplains
<1>1. LoopInv => ReasonExplains
  BY DEF LoopInv
<1>2. QED
  BY <1>1, LoopInvHolds, PTL

-------------------------------------------------------------------------------
(* The calls: what they cost, what becomes of their tasks, what they are made on *)

AfterPlan      == Phase \ {"none", "plan", "plan_wait"}
FromReview     == {"review", "review_wait", "redirect", "redirect_wait", "synthesize", "synthesis_wait"}
FromRedirect   == FromReview \ {"review", "review_wait"}
FromSynthesize == {"synthesize", "synthesis_wait"}

\* The phases in which call k may have been dispatched.
Since(k) ==
  CASE k = "plan" -> Phase \ {"none"}
    [] k \in {"investigate-1", "investigate-2"} -> AfterPlan
    [] k \in {"escalate-1", "escalate-2"} -> AfterPlan \ {"investigate"}
    [] k = "review" -> FromReview
    [] k = "redirect" -> FromRedirect
    [] k = "synthesize" -> FromSynthesize

\* The group's jobs are its calls, each of its own kind and with two leases.
CallRows ==
  /\ \A k \in Key : callOf[k] = 0 => task[k] = "absent" /\ paid[k] = 0
  /\ \A k \in Key : callOf[k] # 0 => jobRow[callOf[k]].kind = KindOf(k) /\ jobRow[callOf[k]].max = 2
  /\ \A j \in Job : jobStatus[j] # "absent" => \E k \in Key : callOf[k] = j
  /\ \A k, m \in Key : callOf[k] # 0 /\ callOf[k] = callOf[m] => k = m

\* Work is taken from the group for two leases at once.
Purse ==
  /\ work + Total(paid) = MaxWork
  /\ \A k \in Key : \E c \in 0..8 : paid[k] = 2 * c

\* What the loop has when it reaches a phase.
Progress ==
  /\ groupPhase[Group] = "none" => phase = "none"
  /\ \A k \in Key : callOf[k] # 0 => phase \in Since(k)
  /\ phase \in AfterPlan => task["plan"] = "done"
  /\ phase \in FromReview => Used(1) /\ Used(2)
  /\ phase \in FromRedirect => task["review"] = "done"
  /\ phase \in FromSynthesize => task["redirect"] = "done"
  /\ \A i \in {1, 2} : callOf[Escalation(i)] # 0 => JobFailed(Original(i)) /\ task[Original(i)] = "blocked"

TaskInv == CallRows /\ Purse /\ Progress /\ TasksSettled

\* The tasks as a transition has written them: no answer is undone, none is invented.
GoodTasks(ts) ==
  /\ ts \in TaskTable
  /\ \A k \in Key : callOf[k] = 0 => ts[k] = "absent"
  /\ \A k \in Key : task[k] = "done" => ts[k] = "done"
  /\ \A k \in Key : ts[k] = "done" => jobStatus[callOf[k]] = "done"
  /\ ts["synthesize"] = "done" => Proved(Group)
  /\ \A i \in {1, 2} : callOf[Escalation(i)] # 0 => ts[Original(i)] = "blocked"

LEMMA KeyFacts ==
  /\ "plan" \in Key /\ "review" \in Key /\ "redirect" \in Key /\ "synthesize" \in Key
  /\ \A i \in {1, 2} : /\ Original(i) \in Key /\ Escalation(i) \in Key /\ FindingKey(i) \in Key
                       /\ Original(i) \in {"investigate-1", "investigate-2"}
                       /\ Escalation(i) \in {"escalate-1", "escalate-2"}
                       /\ FindingKey(i) \in {Original(i), Escalation(i)}
  /\ \A k \in Key : KindOf(k) = "generate" <=> k = "synthesize"
BY DEF Key, Original, Escalation, FindingKey, KindOf

LEMMA TasksGood ==
  ASSUME LoopInv, TaskInv PROVE GoodTasks(task)
<1>1. task \in TaskTable
  BY DEF LoopInv, LoopTypeOK, TaskTable
<1>2. /\ \A k \in Key : callOf[k] = 0 => task[k] = "absent"
      /\ \A i \in {1, 2} : callOf[Escalation(i)] # 0 => task[Original(i)] = "blocked"
  BY DEF TaskInv, CallRows, Progress
<1>3. /\ \A k \in Key : task[k] = "done" => jobStatus[callOf[k]] = "done"
      /\ task["synthesize"] = "done" => Proved(Group)
  BY KeyFacts DEF TaskInv, TasksSettled
<1>4. QED
  BY <1>1, <1>2, <1>3 DEF GoodTasks

\* A row once there stays what it is, and so do the calls that point at it.
LEMMA RowsCarry ==
  ASSUME LoopInv, CallRows, RecordsKept, UNCHANGED <<callOf, paid>>,
         \A j \in Job : jobRow'[j] = jobRow[j] /\ (jobStatus[j] = "absent" => jobStatus'[j] = "absent"),
         \A k \in Key : callOf[k] = 0 => task'[k] = "absent"
  PROVE  CallRows'
<1>1. \A k \in Key : callOf[k] # 0 => jobRow'[callOf[k]] = jobRow[callOf[k]]
  BY DEF LoopInv, LoopRows
<1>2. \A j \in Job : jobStatus'[j] # "absent" => jobStatus[j] # "absent"
  OBVIOUS
<1>3. QED
  BY <1>1, <1>2 DEF CallRows

LEMMA PurseCarries == ASSUME Purse, UNCHANGED <<work, paid>> PROVE Purse'
BY DEF Purse, Total

LEMMA FailuresCarry ==
  ASSUME LoopInv, RecordsKept, callOf' = callOf
  PROVE  /\ \A k \in Key : JobFailed(k) => JobFailed(k)'
         /\ \A k \in Key : callOf[k] # 0 /\ jobStatus[callOf[k]] = "done" => jobStatus'[callOf[k]] = "done"
BY DEF LoopInv, LoopRows, JobFailed, RecordsKept, Closed

\* Steps that dispatch nothing, stop nothing and write no task.
LEMMA TasksQuiet ==
  ASSUME IInv, IInv', LoopInv, TaskInv, RecordsKept, UNCHANGED <<callOf, task, paid, work>>,
         \A j \in Job : jobRow'[j] = jobRow[j] /\ (jobStatus[j] = "absent" => jobStatus'[j] = "absent"),
         LoopStopped' => LoopStopped,
         groupPhase'[Group] = "none" => groupPhase[Group] = "none",
         \/ phase' = phase
         \/ groupPhase[Group] = "none" /\ groupPhase'[Group] # "none" /\ phase' = "plan",
         Proved(Group) => Proved(Group)'
  PROVE  TaskInv'
<1> USE DEF TaskInv
<1>1. CallRows' /\ Purse'
  BY RowsCarry, PurseCarries DEF CallRows
<1>2. TasksSettled'
  <2>1. \A k \in Key : task[k] = "done" => callOf[k] # 0
    BY DEF CallRows
  <2>2. QED
    BY <2>1, FailuresCarry DEF TasksSettled
<1>3. Progress'
  <2>1. CASE phase' = phase
    BY <2>1, FailuresCarry, KeyFacts DEF Progress, Used, FindingKey, Escalation, Original, Since
  <2>2. CASE groupPhase[Group] = "none" /\ groupPhase'[Group] # "none" /\ phase' = "plan"
    <3>1. phase = "none" /\ \A k \in Key : phase \notin Since(k)
      BY <2>2 DEF Progress, Since, Key, AfterPlan, FromReview, FromRedirect, FromSynthesize
    <3>2. \A k \in Key : callOf'[k] = 0
      BY <3>1 DEF Progress
    <3>3. phase' \notin AfterPlan' /\ phase' \notin FromReview' /\ phase' \notin FromRedirect' /\ phase' \notin FromSynthesize'
      BY <2>2 DEF AfterPlan, FromReview, FromRedirect, FromSynthesize
    <3>4. QED
      BY <2>2, <3>2, <3>3, KeyFacts DEF Progress
  <2>3. QED
    BY <2>1, <2>2
<1>4. QED
  BY <1>1, <1>2, <1>3

\* The proof of a group is that of its synthesis.
LEMMA TargetIsSynthesis ==
  ASSUME IInv, BoundInv, LoopInv, TaskInv, NEW l \in Lease, verdict[l] # "none",
         RunOf(leaseJob[l]) = Group
  PROVE  callOf["synthesize"] = leaseJob[l] /\ callOf["synthesize"] # 0
<1>1. leaseJob[l] \in Job /\ jobStatus[leaseJob[l]] # "absent" /\ jobRow[leaseJob[l]].kind = "generate"
  BY DEF IInv, RowInv, BoundInv, Families
<1>2. PICK k \in Key : callOf[k] = leaseJob[l]
  BY <1>1 DEF TaskInv, CallRows
<1>3. callOf[k] # 0
  BY <1>1, <1>2, RowAssumption
<1>4. KindOf(k) = "generate"
  BY <1>1, <1>2, <1>3 DEF TaskInv, CallRows
<1>5. QED
  BY <1>2, <1>3, <1>4, KeyFacts

\* Once the synthesis is dispatched no other task is open.
LEMMA OthersClosed ==
  ASSUME LoopInv, TaskInv, callOf["synthesize"] # 0
  PROVE  \A k \in Key \ {"synthesize"} : task[k] # "open"
<1>1. phase \in FromSynthesize
  BY KeyFacts DEF TaskInv, Progress, Since
<1>2. phase \in AfterPlan /\ phase \in FromReview /\ phase \in FromRedirect
  BY <1>1 DEF FromSynthesize, FromRedirect, FromReview, AfterPlan, Phase, Asking, WaitOf
<1>3. task["plan"] = "done" /\ task["review"] = "done" /\ task["redirect"] = "done" /\ Used(1) /\ Used(2)
  BY <1>1, <1>2 DEF TaskInv, Progress
<1>4. ASSUME NEW i \in {1, 2} PROVE task[Original(i)] # "open" /\ task[Escalation(i)] # "open"
  <2>1. task[FindingKey(i)] = "done"
    BY <1>3, <1>4 DEF Used
  <2>2. CASE callOf[Escalation(i)] # 0
    BY <2>1, <2>2 DEF FindingKey, TaskInv, Progress
  <2>3. CASE callOf[Escalation(i)] = 0
    BY <2>1, <2>3, KeyFacts DEF FindingKey, TaskInv, CallRows
  <2>4. QED
    BY <2>2, <2>3
<1>5. QED
  BY <1>3, <1>4 DEF Key, Original, Escalation

LEMMA StopTasks ==
  ASSUME IInv, IInv', BoundInv, LoopInv, TaskInv, RecordsKept, RunMoves, NEW why, NEW ts, GoodTasks(ts),
         StopLoop(why, ts), why = "verified_target" => Proved(Group)
  PROVE  TaskInv'
<1> USE DEF TaskInv
<1>0. Group \in Run /\ Group \in GroupRun
  BY GroupAssumption, LimitAssumption
<1>1. /\ jobStatus \in [Job -> JobStatus] /\ StopGroupJobs(Group, jobStatus)
      /\ UNCHANGED <<phase, callOf, paid, work, said, leaseJob, verdict>>
      /\ task' = [k \in Key |-> Settled(why, k, ts[k])]
  BY DEF StopLoop, StopGroup, leaseVars, proofVars, IInv, TypeOK
<1>2. jobRow' = jobRow /\ groupPhase'[Group] = "stopped"
  BY <1>0, <1>1 DEF StopGroupJobs, IInv, TypeOK
<1>3. \A j \in Job : jobStatus[j] = "absent" => jobStatus'[j] = "absent"
  BY <1>0, <1>1, StopWrite
<1>4. /\ \A k \in Key : ts[k] # "open" => task'[k] = ts[k]
      /\ \A k \in Key : task'[k] # "open"
      /\ \A k \in Key : task'[k] = "done" => ts[k] = "done" \/ (k = "synthesize" /\ Proved(Group) /\ ts[k] = "open")
  BY <1>1 DEF Settled, GoodTasks, TaskTable
<1>5. Proved(Group)' <=> Proved(Group)
  BY <1>1, <1>2 DEF Proved, RunOf
<1>6. Proved(Group) => callOf["synthesize"] # 0 /\ jobStatus[callOf["synthesize"]] = "done"
  <2>1. ASSUME NEW l \in Lease, verdict[l] = "verified", RunOf(leaseJob[l]) = Group
        PROVE  callOf["synthesize"] # 0 /\ jobStatus[callOf["synthesize"]] = "done"
    BY <2>1, TargetIsSynthesis DEF IInv, OneCandidate, LeasedJob, Outcome
  <2>2. QED
    BY <2>1 DEF Proved
<1>7. CallRows' /\ Purse'
  <2>1. \A k \in Key : callOf[k] = 0 => task'[k] = "absent"
    BY <1>4 DEF GoodTasks
  <2>2. QED
    BY <1>1, <1>2, <1>3, <2>1, RowsCarry, PurseCarries
<1>8. TasksSettled'
  <2>1. \A k \in Key : task'[k] = "done" => callOf[k] # 0 /\ jobStatus[callOf[k]] = "done"
    BY <1>4, <1>6 DEF GoodTasks
  <2>2. \A k \in Key : task'[k] = "done" => jobStatus'[callOf'[k]] = "done"
    BY <1>1, <2>1, FailuresCarry
  <2>3. task'["synthesize"] = "done" => Proved(Group)'
    BY <1>4, <1>5, KeyFacts DEF GoodTasks
  <2>4. QED
    BY <1>4, <2>2, <2>3 DEF TasksSettled
<1>9. Progress'
  <2>1. \A k \in Key : task[k] = "done" => task'[k] = "done"
    BY <1>4 DEF GoodTasks
  <2>2. \A i \in {1, 2} : callOf[Escalation(i)] # 0 => task'[Original(i)] = "blocked" /\ JobFailed(Original(i))'
    BY <1>1, <1>4, FailuresCarry, KeyFacts DEF GoodTasks, Progress
  <2>3. \A i \in {1, 2} : FindingKey(i)' = FindingKey(i) /\ FindingKey(i) \in Key
    BY <1>1, KeyFacts DEF FindingKey, Escalation, Original
  <2>4. QED
    BY <1>1, <1>2, <2>1, <2>2, <2>3, KeyFacts DEF Progress, Used
<1>10. QED
  BY <1>7, <1>8, <1>9

LEMMA TotalGrows ==
  ASSUME NEW k \in Key, NEW n \in Nat, paid \in [Key -> Nat], paid[k] = 0
  PROVE  Total([paid EXCEPT ![k] = n]) = Total(paid) + n
BY DEF Key, Total

LEMMA ReserveTasks ==
  ASSUME IInv, IInv', LoopInv, TaskInv, RecordsKept, NEW k \in Key, NEW c \in Affordable(k), NEW ts,
         GoodTasks(ts), Reserve(k, c, ts), callOf[k] = 0, phase \in Since(k),
         \A i \in {1, 2} : k = Escalation(i) =>
           phase \notin FromReview /\ JobFailed(Original(i)) /\ ts[Original(i)] = "blocked"
  PROVE  TaskInv'
<1> USE DEF TaskInv
<1>0. Group \in Run /\ Group \in GroupRun /\ groupPhase \in [GroupRun -> {"none", "open", "overdue", "stopped"}]
  BY GroupAssumption, LimitAssumption DEF IInv, TypeOK
<1>1. PICK j \in Job : EnqueueGroupJob(Group, j, KindOf(k), 2) /\ callOf' = [callOf EXCEPT ![k] = j]
  BY DEF Reserve
<1>2. /\ jobStatus[j] = "absent" /\ j # 0
      /\ jobRow' = [i \in Job |-> IF i = j THEN NewJob(Group, KindOf(k), 2) ELSE jobRow[i]]
      /\ jobStatus' = [i \in Job |-> IF i = j THEN "queued" ELSE jobStatus[i]]
      /\ UNCHANGED <<groupPhase, leaseJob, verdict, phase>> /\ groupPhase[Group] # "stopped"
  BY <1>1, RowAssumption DEF EnqueueGroupJob, InsertJobs, NextRows, JobRows, Reserve, leaseVars, proofVars
<1>3. /\ task' = [ts EXCEPT ![k] = "open"] /\ paid' = [paid EXCEPT ![k] = 2 * c] /\ work' = work - 2 * c
      /\ callOf \in [Key -> Job \cup {0}] /\ ts \in TaskTable
      /\ ts[k] = "absent" /\ task[k] = "absent" /\ paid[k] = 0
  BY DEF Reserve, LoopInv, LoopTypeOK, GoodTasks, CallRows
<1>4. \A m \in Key \ {k} : callOf'[m] = callOf[m] /\ task'[m] = ts[m] /\ (callOf[m] # 0 => callOf[m] # j)
  BY <1>1, <1>2, <1>3 DEF TaskTable, LoopInv, LoopRows
<1>5. callOf'[k] = j /\ task'[k] = "open"
  BY <1>1, <1>3 DEF TaskTable
<1>6. CallRows'
  <2>1. \A m \in Key : callOf'[m] = 0 => task'[m] = "absent" /\ paid'[m] = 0
    BY <1>2, <1>3, <1>4, <1>5 DEF GoodTasks, CallRows, LoopInv, LoopTypeOK
  <2>2. \A m \in Key : callOf'[m] # 0 => jobRow'[callOf'[m]].kind = KindOf(m) /\ jobRow'[callOf'[m]].max = 2
    <3>1. \A m \in Key \ {k} : callOf'[m] # 0 => jobRow'[callOf'[m]] = jobRow[callOf[m]]
      BY <1>2, <1>4 DEF LoopInv, LoopRows
    <3>2. jobRow'[callOf'[k]] = NewJob(Group, KindOf(k), 2)
      BY <1>2, <1>5
    <3>3. QED
      BY <1>4, <3>1, <3>2 DEF NewJob, CallRows
  <2>3. \A i \in Job : jobStatus'[i] # "absent" => \E m \in Key : callOf'[m] = i
    <3>1. SUFFICES ASSUME NEW i \in Job, jobStatus'[i] # "absent", i # j PROVE \E m \in Key : callOf'[m] = i
      BY <1>5
    <3>2. PICK m \in Key : callOf[m] = i
      BY <1>2, <3>1 DEF CallRows
    <3>3. m # k
      BY <3>1, <3>2, RowAssumption
    <3>4. QED
      BY <1>4, <3>2, <3>3
  <2>4. \A m, n \in Key : callOf'[m] # 0 /\ callOf'[m] = callOf'[n] => m = n
    BY <1>4, <1>5 DEF CallRows
  <2>5. QED
    BY <2>1, <2>2, <2>3, <2>4 DEF CallRows, KindOf
<1>7. Purse'
  <2>1. c \in 1..8 /\ 2 * c <= work /\ work \in Nat /\ paid \in [Key -> 0..16] /\ MaxWork \in Nat
    BY WorkAssumption DEF Affordable, LoopInv, LoopTypeOK
  <2>2. paid \in [Key -> Nat] /\ 2 * c \in Nat
    BY <2>1
  <2>3. Total(paid') = Total(paid) + 2 * c
    BY <1>3, <2>2, TotalGrows
  <2>4. Total(paid) \in Nat
    BY <2>2 DEF Total, Key
  <2>5. work' + Total(paid') = MaxWork
    BY <1>3, <2>1, <2>3, <2>4 DEF Purse
  <2>6. \A m \in Key : \E d \in 0..8 : paid'[m] = 2 * d
    BY <1>3, <2>1 DEF Purse
  <2>7. QED
    BY <2>5, <2>6 DEF Purse, Total
<1>8. \A m \in Key : callOf[m] # 0 => callOf'[m] = callOf[m] /\ jobStatus'[callOf[m]] = jobStatus[callOf[m]]
  BY <1>2, <1>4 DEF LoopInv, LoopRows
<1>9. \A m \in Key : task'[m] = "done" => ts[m] = "done" /\ callOf[m] # 0
  BY <1>4, <1>5 DEF GoodTasks
<1>10. TasksSettled'
  <2>1. \A m \in Key : task'[m] = "done" => jobStatus'[callOf'[m]] = "done"
    BY <1>8, <1>9 DEF GoodTasks
  <2>2. ~ LoopStopped'
    BY <1>2 DEF LoopStopped
  <2>3. Proved(Group) => Proved(Group)'
    BY <1>2 DEF Proved, RunOf, IInv, RowInv
  <2>4. QED
    BY <1>9, <2>1, <2>2, <2>3, KeyFacts DEF TasksSettled, GoodTasks
<1>11. Progress'
  <2>1. \A m \in Key : task[m] = "done" => task'[m] = "done"
    BY <1>3, <1>4 DEF GoodTasks
  <2>2. \A m \in Key : callOf'[m] # 0 => phase \in Since(m)
    BY <1>4 DEF Progress
  <2>3. ASSUME NEW i \in {1, 2}, callOf'[Escalation(i)] # 0
        PROVE  JobFailed(Original(i))' /\ task'[Original(i)] = "blocked"
    <3>1. JobFailed(Original(i)) /\ ts[Original(i)] = "blocked"
      BY <1>4, <2>3, KeyFacts DEF Progress, GoodTasks
    <3>2. Original(i) # k /\ callOf[Original(i)] # 0
      BY <1>3, <3>1 DEF JobFailed
    <3>3. JobFailed(Original(i))'
      BY <1>8, <3>1, <3>2, KeyFacts DEF JobFailed, Original
    <3>4. QED
      BY <1>4, <3>1, <3>2, <3>3, KeyFacts
  <2>4. phase \in FromReview => Used(1)' /\ Used(2)'
    <3>1. ASSUME NEW i \in {1, 2}, phase \in FromReview PROVE Used(i)'
      <4>1. k # Escalation(i) /\ task[FindingKey(i)] = "done" /\ FindingKey(i) \in Key
        BY <3>1, KeyFacts DEF Progress, Used
      <4>2. FindingKey(i)' = FindingKey(i)
        BY <1>4, <4>1, KeyFacts DEF FindingKey, Escalation, Original
      <4>3. QED
        BY <2>1, <4>1, <4>2 DEF Used
    <3>2. QED
      BY <3>1
  <2>5. groupPhase'[Group] = "none" => phase' = "none"
    BY <1>2 DEF Progress
  <2>6. /\ phase \in AfterPlan => task'["plan"] = "done"
        /\ phase \in FromRedirect => task'["review"] = "done"
        /\ phase \in FromSynthesize => task'["redirect"] = "done"
    BY <2>1, KeyFacts DEF Progress
  <2>7. phase' = phase
    BY <1>2
  <2>8. QED
    BY <2>2, <2>3, <2>4, <2>5, <2>6, <2>7 DEF Progress, Since, AfterPlan, FromReview, FromRedirect, FromSynthesize
<1>12. QED
  BY <1>6, <1>7, <1>10, <1>11

\* A move to a later phase, which finds there what the phase requires.
LEMMA MoveTasks ==
  ASSUME IInv, LoopInv, TaskInv, NEW to \in Phase, NEW ts, GoodTasks(ts), Move(to, ts), ~ LoopStopped,
         \A k \in Key : phase \in Since(k) => to \in Since(k), groupPhase[Group] # "none",
         to \in AfterPlan => ts["plan"] = "done",
         to \in FromReview => ts[FindingKey(1)] = "done" /\ ts[FindingKey(2)] = "done",
         to \in FromRedirect => ts["review"] = "done",
         to \in FromSynthesize => ts["redirect"] = "done"
  PROVE  TaskInv'
<1> USE DEF TaskInv
<1>1. /\ UNCHANGED <<groupPhase, jobRow, jobStatus, leaseJob, verdict, callOf, paid, work>>
      /\ phase' = to /\ task' = ts
  BY DEF Move, vars, runVars, jobVars, leaseVars, proofVars
<1>2. CallRows' /\ Purse'
  BY <1>1, PurseCarries DEF CallRows, GoodTasks
<1>3. TasksSettled'
  BY <1>1 DEF TasksSettled, GoodTasks, LoopStopped, Proved, RunOf
<1>4. Progress'
  <2>1. \A k \in Key : callOf[k] # 0 => to \in Since(k)
    BY DEF Progress
  <2>2. \A i \in {1, 2} : callOf[Escalation(i)] # 0 => JobFailed(Original(i)) /\ ts[Original(i)] = "blocked"
    BY DEF Progress, GoodTasks
  <2>3. \A i \in {1, 2} : JobFailed(Original(i))' = JobFailed(Original(i)) /\ FindingKey(i)' = FindingKey(i)
    BY <1>1 DEF JobFailed, FindingKey, Escalation, Original
  <2>4. QED
    BY <1>1, <2>1, <2>2, <2>3 DEF Progress, Used, Since, AfterPlan, FromReview, FromRedirect, FromSynthesize
<1>5. QED
  BY <1>2, <1>3, <1>4

LEMMA DispatchTasks ==
  ASSUME IInv, IInv', BoundInv, LoopInv, TaskInv, RecordsKept, RunMoves, NEW k \in Key, NEW ts,
         GoodTasks(ts), Dispatch(k, ts), phase \in Since(k),
         \A i \in {1, 2} : k = Escalation(i) =>
           phase \notin FromReview /\ JobFailed(Original(i)) /\ ts[Original(i)] = "blocked"
  PROVE  TaskInv'
BY StopTasks, ReserveTasks DEF Dispatch

\* An answer settles its task.
LEMMA PostedGood ==
  ASSUME LoopInv, TaskInv, NEW ts, GoodTasks(ts), NEW k \in Key \ {"synthesize"}, Answered(k),
         \A i \in {1, 2} : k = Original(i) => callOf[Escalation(i)] = 0
  PROVE  GoodTasks(Posted(ts, k)) /\ Posted(ts, k)[k] = "done"
<1>1. callOf[k] # 0 /\ jobStatus[callOf[k]] = "done"
  BY DEF Answered, Output
<1>2. ts \in TaskTable
  BY DEF GoodTasks
<1>3. /\ Posted(ts, k) \in TaskTable /\ Posted(ts, k)[k] = "done"
      /\ \A m \in Key \ {k} : Posted(ts, k)[m] = ts[m]
  BY <1>2, PostedTyped DEF Posted, TaskTable
<1>4. \A i \in {1, 2} : callOf[Escalation(i)] # 0 => Posted(ts, k)[Original(i)] = "blocked"
  BY <1>3, KeyFacts DEF GoodTasks
<1> HIDE DEF Posted
<1>5. QED
  BY <1>1, <1>3, <1>4, KeyFacts DEF GoodTasks

\* An original call that failed is blocked before it is escalated.
LEMMA BlockedGood ==
  ASSUME LoopInv, TaskInv, NEW ts, GoodTasks(ts), NEW i \in {1, 2}, JobFailed(Original(i))
  PROVE  /\ GoodTasks([ts EXCEPT ![Original(i)] = "blocked"])
         /\ [ts EXCEPT ![Original(i)] = "blocked"][Original(i)] = "blocked"
<1> DEFINE us == [ts EXCEPT ![Original(i)] = "blocked"]
<1>1. callOf[Original(i)] # 0 /\ jobStatus[callOf[Original(i)]] = "failed" /\ Original(i) \in Key
  BY KeyFacts DEF JobFailed
<1>2. task[Original(i)] # "done" /\ ts \in TaskTable
  BY <1>1 DEF TaskInv, TasksSettled, GoodTasks
<1>3. us \in TaskTable /\ us[Original(i)] = "blocked" /\ \A m \in Key \ {Original(i)} : us[m] = ts[m]
  BY <1>1, <1>2, PostedTyped DEF TaskTable
<1>4. \A n \in {1, 2} : callOf[Escalation(n)] # 0 => us[Original(n)] = "blocked"
  BY <1>3, KeyFacts DEF GoodTasks
<1>5. Original(i) # "synthesize"
  BY KeyFacts
<1> HIDE DEF us
<1>6. GoodTasks(us)
  BY <1>1, <1>2, <1>3, <1>4, <1>5, KeyFacts DEF GoodTasks
<1>7. QED
  BY <1>3, <1>6 DEF us

LEMMA EscalateTasks ==
  ASSUME IInv, IInv', BoundInv, LoopInv, TaskInv, RecordsKept, RunMoves, NEW i \in {1, 2}, NEW ts,
         GoodTasks(ts), phase = "investigate_wait", Output(FindingKey(i)) = "failed", Escalate(i, ts)
  PROVE  TaskInv'
<1>1. CASE StopLoop("investigation_failed", ts)
  BY <1>1, StopTasks
<1>2. CASE FindingKey(i) # Escalation(i) /\ Dispatch(Escalation(i), [ts EXCEPT ![Original(i)] = "blocked"])
  <2>1. JobFailed(Original(i))
    <3>1. FindingKey(i) = Original(i) /\ Original(i) \in Key
      BY <1>2 DEF FindingKey, Original, Key
    <3>2. QED
      BY <3>1, FailureRead DEF LoopInv
  <2>2. phase \in Since(Escalation(i)) /\ phase \notin FromReview
    BY KeyFacts DEF Since, AfterPlan, FromReview, Phase
  <2>3. \A n \in {1, 2} : Escalation(i) = Escalation(n) => n = i
    BY DEF Escalation
  <2> DEFINE us == [ts EXCEPT ![Original(i)] = "blocked"]
  <2>4. GoodTasks(us) /\ us[Original(i)] = "blocked"
    BY <2>1, BlockedGood
  <2>5. Escalation(i) \in Key /\ Dispatch(Escalation(i), us)
    BY <1>2, KeyFacts
  <2> HIDE DEF us
  <2>6. \A n \in {1, 2} : Escalation(i) = Escalation(n) =>
          phase \notin FromReview /\ JobFailed(Original(n)) /\ us[Original(n)] = "blocked"
    BY <2>1, <2>2, <2>3, <2>4
  <2>7. QED
    BY <2>2, <2>4, <2>5, <2>6, DispatchTasks
<1>3. QED
  BY <1>1, <1>2 DEF Escalate

LEMMA AdvanceTasks ==
  ASSUME IInv, IInv', BoundInv, LoopInv, TaskInv, RecordsKept, RunMoves, Advance
  PROVE  TaskInv'
<1>0. GoodTasks(task) /\ ~ LoopStopped /\ groupPhase[Group] # "none" /\ Group \in Run
  BY TasksGood, GroupAssumption, LimitAssumption DEF Advance, LoopStopped
<1>1. CASE Interruption # "none"
  <2>1. StopLoop(Interruption, task)
    BY <1>1 DEF Advance
  <2>2. Interruption = "verified_target" => Proved(Group)
    BY <1>0 DEF Interruption, IInv, SolvedIffProved
  <2>3. QED
    BY <1>0, <2>1, <2>2, StopTasks
<1>2. ASSUME NEW k \in Asking, Ask(k) PROVE TaskInv'
  <2>1. /\ k \in Key /\ phase = k /\ k \notin {"escalate-1", "escalate-2"} /\ phase \in Since(k)
        /\ WaitOf[k] \in Phase
    BY <1>2 DEF Ask, Asking, Key, Since, AfterPlan, FromReview, FromRedirect, FromSynthesize, Phase, WaitOf
  <2>2. CASE Dispatch(k, task)
    BY <1>0, <2>1, <2>2, DispatchTasks, KeyFacts
  <2>3. CASE Move(WaitOf[k], task)
    <3>1. /\ \A m \in Key : phase \in Since(m) => WaitOf[k] \in Since(m)
          /\ WaitOf[k] \in AfterPlan => phase \in AfterPlan
          /\ WaitOf[k] \in FromReview => phase \in FromReview
          /\ WaitOf[k] \in FromRedirect => phase \in FromRedirect
          /\ WaitOf[k] \in FromSynthesize => phase \in FromSynthesize
      BY <2>1 DEF Asking, Key, Since, AfterPlan, FromReview, FromRedirect, FromSynthesize, Phase, WaitOf
    <3>2. QED
      BY <1>0, <2>1, <2>3, <3>1, MoveTasks DEF TaskInv, Progress, Used
  <2>4. QED
    BY <1>2, <2>2, <2>3 DEF Ask
<1>3. ASSUME NEW k \in DOMAIN AfterOf, Settle(k) PROVE TaskInv'
  <2>1. /\ k \in Key \ {"synthesize"} /\ k \in {"plan", "review", "redirect"} /\ phase = WaitOf[k]
        /\ AfterOf[k] \in Phase
    BY <1>3 DEF Settle, AfterOf, Key, Phase, Asking
  <2>2. ASSUME NEW why, StopLoop(why, task), why # "verified_target" PROVE TaskInv'
    BY <1>0, <2>2, StopTasks
  <2>3. FailedCall[k] # "verified_target" /\ (k # "redirect" => InvalidCall[k] # "verified_target")
    BY <2>1 DEF FailedCall, InvalidCall
  <2>4. CASE Answered(k) /\ Move(AfterOf[k], Posted(task, k))
    <3>1. GoodTasks(Posted(task, k)) /\ Posted(task, k)[k] = "done"
      BY <1>0, <2>1, <2>4, PostedGood, KeyFacts
    <3>2. /\ \A m \in Key : phase \in Since(m) => AfterOf[k] \in Since(m)
          /\ AfterOf[k] \in AfterPlan => k = "plan" \/ phase \in AfterPlan
          /\ AfterOf[k] \in FromReview => phase \in FromReview
          /\ AfterOf[k] \in FromRedirect => k = "review" \/ phase \in FromRedirect
          /\ AfterOf[k] \in FromSynthesize => k = "redirect"
      BY <2>1 DEF AfterOf, Key, Since, AfterPlan, FromReview, FromRedirect, FromSynthesize, Phase, WaitOf, Asking
    <3>3. \A m \in Key : task[m] = "done" => Posted(task, k)[m] = "done"
      BY <3>1 DEF GoodTasks
    <3>4. QED
      BY <1>0, <2>1, <2>4, <3>1, <3>2, <3>3, MoveTasks, KeyFacts DEF TaskInv, Progress, Used
  <2>5. QED
    BY <1>3, <2>2, <2>3, <2>4 DEF Settle
<1>4. ASSUME Investigate PROVE TaskInv'
  <2>1. phase = "investigate" /\ phase \in AfterPlan
    BY <1>4 DEF Investigate, AfterPlan, Phase
  <2>2. ASSUME NEW k \in {"investigate-1", "investigate-2"}, Dispatch(k, task) PROVE TaskInv'
    BY <1>0, <2>1, <2>2, DispatchTasks, KeyFacts DEF Since, Key
  <2>3. CASE Move("investigate_wait", task)
    <3>1. /\ "investigate_wait" \in Phase
          /\ \A m \in Key : phase \in Since(m) => "investigate_wait" \in Since(m)
          /\ "investigate_wait" \notin FromReview
          /\ "investigate_wait" \notin FromRedirect
          /\ "investigate_wait" \notin FromSynthesize
      BY <2>1 DEF Key, Since, AfterPlan, FromReview, FromRedirect, FromSynthesize, Phase
    <3>2. QED
      BY <1>0, <2>1, <2>3, <3>1, MoveTasks DEF TaskInv, Progress
  <2>4. QED
    BY <1>4, <2>2, <2>3 DEF Investigate
<1>5. ASSUME CollectFindings PROVE TaskInv'
  <2> DEFINE k1 == FindingKey(1)
             k2 == FindingKey(2)
             ts == Posted(task, k1)
  <2>1. phase = "investigate_wait" /\ phase \in AfterPlan
    BY <1>5 DEF CollectFindings, AfterPlan, Phase
  <2>2. ASSUME NEW i \in {1, 2}
        PROVE  /\ FindingKey(i) \in Key \ {"synthesize"}
               /\ \A n \in {1, 2} : FindingKey(i) = Original(n) => callOf[Escalation(n)] = 0
    BY <2>2 DEF FindingKey, Original, Escalation, Key
  <2>3. CASE Output(k1) = "failed" /\ Escalate(1, task)
    BY <1>0, <2>1, <2>3, EscalateTasks
  <2>4. CASE Answered(k1)
    <3>1. GoodTasks(ts) /\ ts[k1] = "done"
      BY <1>0, <2>2, <2>4, PostedGood
    <3>2. \A m \in Key : task[m] = "done" => ts[m] = "done"
      BY <3>1 DEF GoodTasks
    <3>3. CASE Move(phase, ts)
      <4>1. phase \notin FromReview /\ phase \notin FromRedirect /\ phase \notin FromSynthesize /\ phase \in Phase
        BY <2>1 DEF FromReview, FromRedirect, FromSynthesize, Phase
      <4> HIDE DEF ts
      <4>2. QED
        BY <1>0, <2>1, <3>1, <3>2, <3>3, <4>1, MoveTasks, KeyFacts DEF TaskInv, Progress
    <3>4. CASE Output(k2) = "failed" /\ Escalate(2, ts)
      BY <2>1, <3>1, <3>4, EscalateTasks
    <3>5. CASE Answered(k2) /\ Move("review", Posted(ts, k2))
      <4>1. GoodTasks(Posted(ts, k2)) /\ Posted(ts, k2)[k2] = "done"
        BY <2>2, <3>1, <3>5, PostedGood
      <4>2. Posted(ts, k2)[k1] = "done" /\ Posted(ts, k2)["plan"] = "done"
        <5>1. task["plan"] = "done" /\ k1 \in Key /\ k2 \in Key
          BY <2>1, KeyFacts DEF TaskInv, Progress
        <5>2. ts["plan"] = "done" /\ ts \in TaskTable
          BY <3>1, <3>2, <5>1, KeyFacts DEF GoodTasks
        <5>3. QED
          BY <3>1, <5>1, <5>2, KeyFacts DEF Posted, TaskTable
      <4>3. /\ "review" \in Phase /\ \A m \in Key : phase \in Since(m) => "review" \in Since(m)
            /\ "review" \notin FromRedirect
            /\ "review" \notin FromSynthesize
        BY <2>1 DEF Key, Since, AfterPlan, FromReview, FromRedirect, FromSynthesize, Phase, Asking
      <4>4. QED
        BY <1>0, <3>5, <4>1, <4>2, <4>3, MoveTasks
    <3>6. QED
      BY <1>5, <2>4, <3>3, <3>4, <3>5 DEF CollectFindings, Answered
  <2>5. QED
    BY <1>5, <2>3, <2>4 DEF CollectFindings
<1>6. ASSUME SynthesisEnds PROVE TaskInv'
  BY <1>0, <1>6, StopTasks DEF SynthesisEnds
<1>7. QED
  BY <1>1, <1>2, <1>3, <1>4, <1>5, <1>6 DEF Advance

\* A verdict: a group's jobs are never repaired, and a proof is that of the synthesis.
LEMMA CheckTasks ==
  ASSUME IInv, IInv', BoundInv, LoopInv, TaskInv, RecordsKept, NEW c \in Checker, CheckTarget(c)
  PROVE  TaskInv'
<1> USE DEF TaskInv
<1>0. Group \in Run /\ Group \in GroupRun
  BY GroupAssumption, LimitAssumption
<1>1. PICK v \in Outcome, new \in SUBSET Job :
        /\ Verified(c, v, new)
        /\ IF v = "verified"
           THEN /\ reason' = "verified_target"
                /\ task' = [k \in Key |-> IF callOf[k] = leaseJob[checking[c]] THEN "done" ELSE task[k]]
           ELSE UNCHANGED <<reason, task>>
        /\ UNCHANGED <<phase, callOf, paid, work, said>>
  BY DEF CheckTarget
<1> DEFINE a == checking[c]
           j == leaseJob[a]
           rs == [runStatus EXCEPT ![Group] = Judged(@, v)]
           js == [k \in Job |-> IF k = j THEN "done" ELSE jobStatus[k]]
<1>2. /\ a \in Lease /\ verdict[a] = "pending" /\ j \in Job /\ jobStatus[j] # "absent"
      /\ RunOf(j) = Group /\ groupPhase[Group] # "none" /\ jobRow[j] \in JobRow
  BY <1>1 DEF Verified, IInv, TypeOK, RowInv, LoopInv, LoopRows
<1>3. new = {}
  BY <1>0, <1>1, <1>2, LimitAssumption DEF Verified, Repairs, JobRow
<1>4. /\ jobRow' = [k \in Job |-> jobRow[k]] /\ leaseJob' = leaseJob
      /\ verdict' = [verdict EXCEPT ![a] = v]
      /\ groupPhase' = [g \in GroupRun |-> IF g = Group /\ v = "verified" /\ groupPhase[g] # "none"
                                           THEN "stopped" ELSE groupPhase[g]]
      /\ Refresh(rs, js)
  BY <1>1, <1>2, <1>3 DEF Verified, leaseVars
<1>5. \A k \in Job : jobStatus[k] = "absent" => jobStatus'[k] = "absent"
  <2>1. runStatus \in [Run -> RunStatus] /\ jobStatus \in [Job -> JobStatus]
        /\ jobRow' \in [Job -> JobRow \cup {NoJob}]
    BY DEF IInv, TypeOK
  <2>2. Judged(runStatus[Group], v) \in RunStatus
    BY <1>0, <2>1 DEF Judged, RunStatus
  <2>3. js \in [Job -> JobStatus] /\ rs \in [Run -> RunStatus] /\ \A k \in Job : jobStatus[k] = "absent" => js[k] = "absent"
    BY <1>2, <2>1, <2>2 DEF JobStatus, Closed
  <2> HIDE DEF js, rs
  <2>4. QED
    BY <1>4, <2>1, <2>3, RefreshWrite
<1>6. callOf["synthesize"] = j /\ j # 0
  BY <1>2, TargetIsSynthesis
<1>7. \A k \in Key : callOf[k] = j <=> k = "synthesize"
  BY <1>6, KeyFacts DEF CallRows
<1>8. CASE v = "verified"
  <2>1. LoopStopped' /\ Proved(Group)'
    BY <1>0, <1>2, <1>4, <1>8 DEF LoopStopped, Proved, RunOf, IInv, TypeOK
  <2>2. /\ task'["synthesize"] = "done" /\ \A k \in Key \ {"synthesize"} : task'[k] = task[k]
        /\ UNCHANGED <<phase, callOf, paid, work>>
    BY <1>1, <1>7, <1>8, KeyFacts
  <2>3. CallRows' /\ Purse'
    <3>1. \A k \in Key : callOf[k] = 0 => task'[k] = "absent"
      BY <1>6, <2>2 DEF CallRows
    <3>2. QED
      BY <1>4, <1>5, <2>2, <3>1, RowsCarry, PurseCarries
  <2>4. \A k \in Key : task'[k] # "open"
    BY <1>6, <2>2, OthersClosed
  <2>5. jobStatus'[j] = "done"
    BY <1>2, <1>4, <1>8 DEF IInv, TypeOK, OneCandidate, LeasedJob
  <2>6. \A k \in Key : task'[k] = "done" => jobStatus'[callOf'[k]] = "done"
    <3>1. \A k \in Key \ {"synthesize"} : task'[k] = "done" => callOf[k] # 0 /\ jobStatus[callOf[k]] = "done"
      BY <2>2 DEF CallRows, TasksSettled
    <3>2. QED
      BY <1>6, <2>2, <2>5, <3>1, FailuresCarry
  <2>7. TasksSettled'
    BY <2>1, <2>4, <2>6 DEF TasksSettled
  <2>8. Progress'
    <3>1. \A k \in Key : task[k] = "done" => task'[k] = "done"
      BY <2>2
    <3>2. \A i \in {1, 2} : callOf[Escalation(i)] # 0 => JobFailed(Original(i))' /\ task'[Original(i)] = "blocked"
      BY <2>2, FailuresCarry, KeyFacts DEF Progress
    <3>3. \A i \in {1, 2} : FindingKey(i)' = FindingKey(i) /\ FindingKey(i) \in Key
      BY <2>2, KeyFacts DEF FindingKey, Escalation, Original
    <3>4. groupPhase'[Group] # "none"
      BY <2>1 DEF LoopStopped
    <3>5. QED
      BY <2>2, <3>1, <3>2, <3>3, <3>4, KeyFacts
         DEF Progress, Used, Since, AfterPlan, FromReview, FromRedirect, FromSynthesize
  <2>9. QED
    BY <2>3, <2>7, <2>8
<1>9. CASE v # "verified"
  <2>1. UNCHANGED <<callOf, task, paid, work, phase>>
    BY <1>1, <1>9
  <2>2. LoopStopped' <=> LoopStopped
    BY <1>0, <1>4, <1>9 DEF LoopStopped, IInv, TypeOK
  <2>3. groupPhase'[Group] = "none" => groupPhase[Group] = "none"
    BY <1>0, <1>2, <1>4, <1>9
  <2>4. Proved(Group) => Proved(Group)'
    <3>1. \A l \in Lease : verdict[l] = "verified" => leaseJob[l] \in Job
      BY DEF IInv, RowInv
    <3>2. \A l \in Lease : verdict[l] = "verified" => verdict'[l] = "verified"
      BY <1>2, <1>4 DEF IInv, TypeOK
    <3>3. QED
      BY <1>4, <3>1, <3>2 DEF Proved, RunOf
  <2>5. \A k \in Job : jobRow'[k] = jobRow[k]
    BY <1>4
  <2>6. QED
    BY <1>5, <2>1, <2>2, <2>3, <2>4, <2>5, TasksQuiet
<1>10. QED
  BY <1>8, <1>9

LEMMA TaskInvInit == ASSUME LoopInit PROVE TaskInv
<1>1. CallRows
  BY DEF LoopInit, Init, CallRows
<1>2. TasksSettled
  BY KeyFacts DEF LoopInit, TasksSettled
<1>3. Purse
  <2>1. 0 \in 0..8 /\ 0 = 2 * 0 /\ MaxWork \in Nat
    BY WorkAssumption
  <2>2. QED
    BY <2>1 DEF LoopInit, Purse, Total, Key
<1>4. Progress
  BY KeyFacts DEF LoopInit, Progress, AfterPlan, FromReview, FromRedirect, FromSynthesize
<1>5. QED
  BY <1>1, <1>2, <1>3, <1>4 DEF TaskInv

LEMMA TaskInvNext ==
  ASSUME IInv, CheckedLives, BoundInv, LoopInv, TaskInv, [LoopNext]_allVars PROVE TaskInv'
<1>0. Group \in Run
  BY GroupAssumption, LimitAssumption
<1>1. [Next]_vars
  BY LoopStepIsQueueStep
<1>2. IInv' /\ RecordsKept /\ RunMoves
  BY <1>1, NextInv, NextKeeps
<1>3. CASE UNCHANGED allVars
  <2>1. UNCHANGED <<phase, callOf, task, paid, work, groupPhase, jobRow, jobStatus, leaseJob, verdict>>
    BY <1>3 DEF allVars, loopVars, vars, runVars, jobVars, leaseVars, proofVars
  <2>2. QED
    BY <1>2, <2>1, TasksQuiet DEF LoopStopped, Proved, RunOf
<1>4. CASE Start \/ (Unseen /\ UNCHANGED loopVars) \/ \E l \in Lease : AnswerText(l)
  <2>1. /\ jobRow' = jobRow
        /\ \A j \in Job : jobStatus[j] = "absent" => jobStatus'[j] = "absent"
        /\ LoopStopped' <=> LoopStopped
        /\ groupPhase'[Group] = "none" => groupPhase[Group] = "none"
    BY <1>4, QuietSteps
  <2>2. UNCHANGED <<callOf, task, paid, work>>
    BY <1>4 DEF Start, AnswerText, loopVars
  <2>3. \/ phase' = phase
        \/ groupPhase[Group] = "none" /\ groupPhase'[Group] # "none" /\ phase' = "plan"
    BY <1>4, GroupAssumption DEF Start, StartLoop, AnswerText, loopVars, IInv, TypeOK
  <2>4. Proved(Group) => Proved(Group)'
    BY <1>0, <1>2 DEF IInv, SolvedIffProved, RunMoves
  <2>5. QED
    BY <1>2, <2>1, <2>2, <2>3, <2>4, TasksQuiet
<1>5. CASE Advance
  BY <1>2, <1>5, AdvanceTasks
<1>6. CASE \E c \in Checker : CheckTarget(c)
  BY <1>2, <1>6, CheckTasks
<1>7. QED
  BY <1>3, <1>4, <1>5, <1>6 DEF LoopNext

LEMMA TaskInvHolds == LoopSpec => []TaskInv /\ []LoopInv /\ []BoundInv /\ []IInv
<1>1. LoopSpec => []IInv /\ []CheckedLives /\ []BoundInv
  BY LoopImplementsQueue, InvHolds, CheckedHolds, BoundsHold, PTL
<1>2. LoopSpec => []LoopInv
  BY LoopInvHolds
<1>3. QED
  BY <1>1, <1>2, TaskInvInit, TaskInvNext, PTL DEF LoopSpec

LEMMA SpentHalf ==
  ASSUME NEW n \in 0..2, NEW c \in 0..8 PROVE n * ((2 * c) \div 2) <= 2 * c
<1>1. (2 * c) \div 2 = c
  OBVIOUS
<1>2. QED
  BY <1>1

\* Every lease a call may ever spend was taken from the group's work before the call went out: the
\* books of a group balance in every reachable state, for every max_work and every set of models.
THEOREM WorkIsAccounted == LoopSpec => []WorkAccounted
<1>1. ASSUME IInv, BoundInv, LoopInv, TaskInv PROVE WorkAccounted
  <2>1. ASSUME NEW k \in Key, callOf[k] # 0
        PROVE  Spent(callOf[k], leaseStatus) * (paid[k] \div 2) <= paid[k]
    <3>1. callOf[k] \in JobRows /\ jobRow[callOf[k]].max = 2
      BY <1>1, <2>1 DEF LoopInv, LoopRows, JobRows, TaskInv, CallRows
    <3>2. Spent(callOf[k], leaseStatus) <= 2 /\ Spent(callOf[k], leaseStatus) \in Nat
      BY <1>1, <3>1, SpentFacts DEF BoundInv, Budget, WithinBudget
    <3>3. PICK c \in 0..8 : paid[k] = 2 * c
      BY <1>1 DEF TaskInv, Purse
    <3>4. Spent(callOf[k], leaseStatus) \in 0..2
      BY <3>2
    <3>5. QED
      BY <3>3, <3>4, SpentHalf
  <2>2. QED
    BY <1>1, <2>1 DEF WorkAccounted, LoopInv, TaskInv, Purse
<1>2. QED
  BY <1>1, TaskInvHolds, PTL

\* When a group has stopped, for whatever reason and however late its target is proved, none of its
\* tasks is open; and no task is ever done without its answer, nor the last one without a proof.
THEOREM TasksAreSettled == LoopSpec => []TasksSettled
<1>1. TaskInv => TasksSettled
  BY DEF TaskInv
<1>2. QED
  BY <1>1, TaskInvHolds, PTL

\* Whatever order the answers arrive in, no call is made before the answers it quotes, and no
\* investigation is escalated that has not failed.
THEOREM CallsAreInformed == LoopSpec => []CallsInformed
<1>1. ASSUME LoopInv, TaskInv PROVE CallsInformed
  <2>1. callOf["review"] # 0 => task["plan"] = "done" /\ Used(1) /\ Used(2)
    BY <1>1, KeyFacts DEF TaskInv, Progress, Since, AfterPlan, FromReview, Phase, Asking, WaitOf
  <2>2. callOf["synthesize"] # 0 => callOf["review"] # 0 /\ task["review"] = "done" /\ task["redirect"] = "done"
    <3>1. callOf["synthesize"] # 0 => phase \in FromSynthesize /\ phase \in FromRedirect
      BY <1>1, KeyFacts DEF TaskInv, Progress, Since, FromSynthesize, FromRedirect, FromReview
    <3>2. QED
      BY <1>1, <3>1, KeyFacts DEF TaskInv, Progress, CallRows
  <2>3. QED
    BY <1>1, <2>1, <2>2 DEF TaskInv, Progress, CallsInformed
<1>2. QED
  BY <1>1, TaskInvHolds, PTL

===============================================================================
