---------------------------- MODULE JobQueueProofs ----------------------------
(***************************************************************************)
(* Theorems about JobQueue, for every number of runs, groups, jobs, leases *)
(* and loops and every limit: the invariant of the tables, and that the    *)
(* steps keep what is recorded and move every run along the transition     *)
(* table of RunLifecycle.                                                  *)
(***************************************************************************)
EXTENDS JobQueue, TLAPS

-------------------------------------------------------------------------------
(* What _refresh and _expire do to the tables *)

\* _refresh only cancels queued jobs and only exhausts running runs; afterwards no run it
\* covered has a queued job if it is solved or in error, and none is running without live job.
Refreshed(runs, rs, row, js, J, R) ==
  /\ J \in [Job -> JobStatus] /\ R \in [Run -> RunStatus]
  /\ \A j \in Job : J[j] = js[j] \/ (js[j] = "queued" /\ J[j] = "cancelled")
  /\ \A j \in Job : J[j] # js[j] => rs[row[j].run] \in {"solved", "error"} /\ row[j].run \in runs
  /\ \A r \in Run : R[r] = rs[r] \/ (rs[r] = "running" /\ R[r] = "exhausted")
  /\ \A r \in Run : R[r] # rs[r] => \A j \in Job : row[j].run = r => J[j] \notin Live
  /\ \A j \in Job : J[j] = "queued" /\ row[j].run \in runs
       => rs[row[j].run] \notin {"solved", "error"}
  /\ \A r \in runs : R[r] = "running" => \E j \in Job : row[j].run = r /\ J[j] \in Live

LEMMA RefreshFacts ==
  ASSUME NEW runs \in SUBSET Run, NEW rs \in [Run -> RunStatus],
         NEW row \in [Job -> JobRow \cup {NoJob}], NEW js \in [Job -> JobStatus],
         NEW J, J = CancelQueued(runs, rs, row, js),
         NEW R, R = Exhaust(runs, rs, row, J)
  PROVE  Refreshed(runs, rs, row, js, J, R)
<1>1. /\ J \in [Job -> JobStatus]
      /\ \A j \in Job : J[j] = js[j] \/ (js[j] = "queued" /\ J[j] = "cancelled")
      /\ \A j \in Job : J[j] # js[j] => rs[row[j].run] \in {"solved", "error"} /\ row[j].run \in runs
      /\ \A j \in Job : J[j] = "queued" /\ row[j].run \in runs
           => rs[row[j].run] \notin {"solved", "error"}
  BY DEF CancelQueued, JobStatus, Closed, Live
<1>2. /\ R \in [Run -> RunStatus]
      /\ \A r \in Run : R[r] = rs[r] \/ (rs[r] = "running" /\ R[r] = "exhausted")
      /\ \A r \in Run : R[r] # rs[r] => \A j \in Job : row[j].run = r => J[j] \notin Live
      /\ \A r \in runs : R[r] = "running" => \E j \in Job : row[j].run = r /\ J[j] \in Live
  BY <1>1 DEF Exhaust, RunStatus
<1>3. QED
  BY <1>1, <1>2 DEF Refreshed

\* _expire takes every lapsed lease away, retries or ends exactly the jobs they held, and
\* refreshes the runs of those jobs.
LEMMA SweepFacts ==
  ASSUME TypeOK, RowInv, SoleLease
  PROVE  /\ SweptLeases \in [Lease -> LeaseStatus]
         /\ \A l \in Lease : SweptLeases[l] =
              IF leaseStatus[l] = "active" /\ ttl[l] = 0 THEN "expired" ELSE leaseStatus[l]
         /\ SweptJobs \in [Job -> JobStatus] /\ SweptRuns \in [Run -> RunStatus]
         /\ \A j \in Job : SweptJobs[j] # jobStatus[j] =>
              \/ jobStatus[j] = "assigned" /\ SweptJobs[j] \in {"queued", "failed", "cancelled"}
              \/ jobStatus[j] = "queued" /\ SweptJobs[j] = "cancelled"
         /\ \A j \in Job : jobStatus[j] = "assigned" /\ SweptJobs[j] # "assigned"
              => \E l \in Lapsed : leaseJob[l] = j
         /\ \A l \in Lapsed : /\ leaseJob[l] \in Job
                              /\ SweptJobs[leaseJob[l]] \in {"queued", "failed", "cancelled"}
                              /\ RunOf(leaseJob[l]) \in LapsedRuns /\ LapsedRuns \subseteq Run
         /\ \A j \in Job : SweptJobs[j] = "queued" /\ jobStatus[j] = "assigned" =>
              /\ ~ Stopped(j) /\ RunOf(j) \in LapsedRuns
              /\ runStatus[RunOf(j)] \notin {"solved", "error"}
         /\ \A j \in Job : SweptJobs[j] = "cancelled" /\ jobStatus[j] = "queued"
              => runStatus[RunOf(j)] \in {"solved", "error"}
         /\ \A j \in Job : SweptJobs[j] # jobStatus[j] => RunOf(j) \in LapsedRuns
         /\ \A r \in Run : SweptRuns[r] = runStatus[r]
              \/ (runStatus[r] = "running" /\ SweptRuns[r] = "exhausted")
         /\ \A r \in Run : SweptRuns[r] # runStatus[r]
              => \A j \in Job : RunOf(j) = r => SweptJobs[j] \notin Live
         /\ \A r \in LapsedRuns : SweptRuns[r] = "running"
              => \E j \in Job : RunOf(j) = r /\ SweptJobs[j] \in Live
<1>1. /\ SweptLeases \in [Lease -> LeaseStatus]
      /\ \A l \in Lease : SweptLeases[l] =
           IF leaseStatus[l] = "active" /\ ttl[l] = 0 THEN "expired" ELSE leaseStatus[l]
  BY DEF SweptLeases, Lapsed, TypeOK, LeaseStatus
<1>2. \A l \in Lapsed : /\ l \in Lease /\ leaseJob[l] \in Job /\ jobStatus[leaseJob[l]] = "assigned"
                        /\ RunOf(leaseJob[l]) \in Run /\ RunOf(leaseJob[l]) \in LapsedRuns
  BY DEF Lapsed, LapsedRuns, RowInv, SoleLease, LeasedJob, RunOf, JobRow, TypeOK
<1>3. LapsedRuns \in SUBSET Run
  BY <1>2 DEF LapsedRuns
<1>4. \A j \in Job : RetryStatus(j, SweptLeases) \in {"queued", "failed", "cancelled"}
                     /\ (RetryStatus(j, SweptLeases) = "queued" => ~ Stopped(j))
  BY DEF RetryStatus
<1>5. /\ RetriedJobs \in [Job -> JobStatus]
      /\ \A j \in Job : \/ RetriedJobs[j] = jobStatus[j] /\ ~ \E l \in Lapsed : leaseJob[l] = j
                        \/ /\ \E l \in Lapsed : leaseJob[l] = j
                           /\ RetriedJobs[j] \in {"queued", "failed", "cancelled"}
                           /\ RetriedJobs[j] = "queued" => ~ Stopped(j)
  BY <1>4 DEF RetriedJobs, TypeOK, JobStatus, Live, Closed
<1>6. SweptJobs = CancelQueued(LapsedRuns, runStatus, jobRow, RetriedJobs)
      /\ SweptRuns = Exhaust(LapsedRuns, runStatus, jobRow, SweptJobs)
      /\ runStatus \in [Run -> RunStatus] /\ jobRow \in [Job -> JobRow \cup {NoJob}]
  BY DEF SweptJobs, SweptRuns, TypeOK
<1>7. /\ SweptJobs \in [Job -> JobStatus] /\ SweptRuns \in [Run -> RunStatus]
      /\ \A j \in Job : SweptJobs[j] = RetriedJobs[j]
           \/ (RetriedJobs[j] = "queued" /\ SweptJobs[j] = "cancelled")
      /\ \A j \in Job : SweptJobs[j] # RetriedJobs[j] =>
           runStatus[jobRow[j].run] \in {"solved", "error"} /\ jobRow[j].run \in LapsedRuns
      /\ \A r \in Run : SweptRuns[r] = runStatus[r]
           \/ (runStatus[r] = "running" /\ SweptRuns[r] = "exhausted")
      /\ \A r \in Run : SweptRuns[r] # runStatus[r] => \A j \in Job : jobRow[j].run = r => SweptJobs[j] \notin Live
      /\ \A j \in Job : SweptJobs[j] = "queued" /\ jobRow[j].run \in LapsedRuns
              => runStatus[jobRow[j].run] \notin {"solved", "error"}
      /\ \A r \in LapsedRuns : SweptRuns[r] = "running" => \E j \in Job : jobRow[j].run = r /\ SweptJobs[j] \in Live
  <2>1. RetriedJobs \in [Job -> JobStatus]
    BY <1>5
  <2>2. Refreshed(LapsedRuns, runStatus, jobRow, RetriedJobs, SweptJobs, SweptRuns)
    BY <1>3, <1>6, <2>1, RefreshFacts
  <2>3. QED
    BY <2>2 DEF Refreshed
<1>8. QED
  BY <1>1, <1>2, <1>3, <1>5, <1>7 DEF RunOf

-------------------------------------------------------------------------------
(* Steps that insert work: new rows were absent, so no lease or attempt points at them. *)

LEMMA InsertFacts ==
  ASSUME TypeOK, RowInv, NEW new \in SUBSET Job, NEW r \in Run, NEW row \in JobRow,
         row.run = r, runStatus' \in [Run -> RunStatus], runStatus'[r] # "absent",
         \A q \in Run : runStatus[q] # "absent" => runStatus'[q] # "absent",
         InsertJobs(new, row)
  PROVE  /\ jobRow' \in [Job -> JobRow \cup {NoJob}] /\ jobStatus' \in [Job -> JobStatus]
         /\ \A j \in new : jobStatus[j] = "absent" /\ jobStatus'[j] = "queued" /\ jobRow'[j] = row
         /\ \A j \in Job \ new : jobStatus'[j] = jobStatus[j] /\ jobRow'[j] = jobRow[j]
         /\ \A j \in Job : jobStatus'[j] # "absent" =>
              jobRow'[j] \in JobRow /\ runStatus'[jobRow'[j].run] # "absent"
         /\ \A l \in Lease : leaseStatus[l] # "absent" => leaseJob[l] \in Job \ new
         /\ new # {}
<1>1. /\ new \cap JobRows = {} /\ new # {}
      /\ jobRow' = [j \in Job |-> IF j \in new THEN row ELSE jobRow[j]]
      /\ jobStatus' = [j \in Job |-> IF j \in new THEN "queued" ELSE jobStatus[j]]
  BY DEF InsertJobs, NextRows
<1>2. \A j \in new : jobStatus[j] = "absent"
  BY <1>1 DEF JobRows
<1>3. /\ jobRow' \in [Job -> JobRow \cup {NoJob}] /\ jobStatus' \in [Job -> JobStatus]
      /\ \A j \in new : jobStatus'[j] = "queued" /\ jobRow'[j] = row
      /\ \A j \in Job \ new : jobStatus'[j] = jobStatus[j] /\ jobRow'[j] = jobRow[j]
  BY <1>1 DEF TypeOK, JobStatus, Live
<1>4. \A j \in Job : jobStatus'[j] # "absent" =>
        jobRow'[j] \in JobRow /\ runStatus'[jobRow'[j].run] # "absent"
  BY <1>3 DEF RowInv, RunOf, JobRow
<1>5. \A l \in Lease : leaseStatus[l] # "absent" => leaseJob[l] \in Job \ new
  BY <1>2 DEF RowInv
<1>6. QED
  BY <1>1, <1>2, <1>3, <1>4, <1>5

LEMMA InsertStep ==
  ASSUME IInv, NEW new \in SUBSET Job, NEW r \in Run, NEW row \in JobRow, row.run = r,
         runStatus[r] \in {"absent", "running", "exhausted"},
         r \in GroupRun => groupPhase[r] # "stopped",
         runStatus' = [runStatus EXCEPT ![r] = "running"],
         InsertJobs(new, row), UNCHANGED <<groupPhase, leaseVars, proofVars, checking>>
  PROVE  IInv'
<1> USE DEF IInv
<1>1. /\ runStatus' \in [Run -> RunStatus] /\ runStatus'[r] = "running"
      /\ \A q \in Run \ {r} : runStatus'[q] = runStatus[q]
  BY DEF TypeOK, RunStatus
<1>2. /\ jobRow' \in [Job -> JobRow \cup {NoJob}] /\ jobStatus' \in [Job -> JobStatus]
      /\ \A j \in new : jobStatus[j] = "absent" /\ jobStatus'[j] = "queued" /\ jobRow'[j] = row
      /\ \A j \in Job \ new : jobStatus'[j] = jobStatus[j] /\ jobRow'[j] = jobRow[j]
      /\ \A j \in Job : jobStatus'[j] # "absent" =>
           jobRow'[j] \in JobRow /\ runStatus'[jobRow'[j].run] # "absent"
      /\ \A l \in Lease : leaseStatus[l] # "absent" => leaseJob[l] \in Job \ new
      /\ new # {}
  <2>1. \A q \in Run : runStatus[q] # "absent" => runStatus'[q] # "absent"
    BY <1>1
  <2>2. QED
    BY <1>1, <2>1, InsertFacts
<1>3. UNCHANGED <<groupPhase, leaseJob, leaseStatus, leaseResult, ttl, attempts, verdict, checking>>
  BY DEF leaseVars, proofVars
<1>4. TypeOK'
  BY <1>1, <1>2, <1>3 DEF TypeOK
<1>5. RowInv'
  BY <1>1, <1>2, <1>3 DEF RowInv, RunOf
<1>6. SoleLease'
  BY <1>2, <1>3 DEF SoleLease, LeasedJob
<1>7. OneCandidate'
  BY <1>2, <1>3 DEF OneCandidate, LeasedJob, Attempted, RowInv, Outcome
<1>8. QueueServed'
  BY <1>1, <1>2, <1>3 DEF QueueServed, Stopped, RunOf, RowInv, JobRow
<1>9. RunningWhileLive'
  BY <1>1, <1>2, <1>3 DEF RunningWhileLive, HasLive, RunOf, Live, RowInv, JobRow
<1>10. SolvedIffProved'
  <2>1. \A l \in Lease : verdict[l] = "verified" => leaseJob[l] \in Job /\ jobRow'[leaseJob[l]] = jobRow[leaseJob[l]]
    BY <1>2 DEF RowInv
  <2>2. \A q \in Run : Proved(q)' <=> Proved(q)
    BY <1>3, <2>1 DEF Proved, RunOf
  <2>3. QED
    BY <1>1, <2>2 DEF SolvedIffProved
<1>11. QED
  BY <1>4, <1>5, <1>6, <1>7, <1>8, <1>9, <1>10

LEMMA RequestsStep == ASSUME IInv, Requests PROVE IInv'
<1> USE DEF IInv
<1>1. ASSUME NEW r \in Run, NEW kind \in Kind, NEW n \in Nat
      PROVE  NewJob(r, kind, n) \in JobRow /\ NewJob(r, kind, n).run = r
  BY DEF NewJob, JobRow
<1>2. ASSUME NEW r \in Run, NEW new \in SUBSET Job, Submit(r, new) PROVE IInv'
  <2>1. MaxAssignments[r] \in Nat /\ "generate" \in Kind
    BY LimitAssumption DEF Kind
  <2>2. QED
    BY <1>1, <1>2, <2>1, InsertStep DEF Submit
<1>3. ASSUME NEW r \in Run, NEW j \in Job, EnqueueTask(r, j) PROVE IInv'
  <2>1. MaxAssignments[r] \in Nat /\ "respond" \in Kind /\ {j} \in SUBSET Job
    BY LimitAssumption DEF Kind
  <2>2. runStatus' = [runStatus EXCEPT ![r] = "running"] /\ groupPhase' = groupPhase
    BY <1>3 DEF EnqueueTask, runVars, TypeOK
  <2>3. QED
    BY <1>1, <1>3, <2>1, <2>2, InsertStep DEF EnqueueTask
<1>4. ASSUME NEW g \in GroupRun, NEW j \in Job, NEW kind \in Kind, NEW cost \in 1..MaxAssignments[g],
             EnqueueGroupJob(g, j, kind, cost)
      PROVE  IInv'
  <2>1. g \in Run /\ cost \in Nat /\ {j} \in SUBSET Job
    BY LimitAssumption
  <2>2. QED
    BY <1>1, <1>4, <2>1, InsertStep DEF EnqueueGroupJob
<1>5. QED
  BY <1>2, <1>3, <1>4 DEF Requests

-------------------------------------------------------------------------------
(* Steps of the group loop *)

\* Stopping a group: queued jobs are cancelled, dispatched work is left alone.  js is the jobs
\* table before, in which at most one verifying job of the group has been cancelled.
LEMMA StopStep ==
  ASSUME IInv, NEW g \in GroupRun, NEW js \in [Job -> JobStatus],
         \A j \in Job : js[j] = jobStatus[j] \/ (jobStatus[j] = "verifying" /\ js[j] = "cancelled"
                                                 /\ RunOf(j) = g),
         StopGroupJobs(g, js), UNCHANGED <<leaseVars, proofVars>>,
         checking' \in [Checker -> Lease \cup {NoLease}],
         \A c \in Checker : checking'[c] \in {checking[c], NoLease}
  PROVE  IInv'
<1> USE DEF IInv
<1> DEFINE ks == [j \in Job |-> IF RunOf(j) = g /\ js[j] = "queued" THEN "cancelled" ELSE js[j]]
<1>1. g \in Run
  BY LimitAssumption
<1>2. UNCHANGED <<jobRow, leaseJob, leaseStatus, leaseResult, ttl, attempts, verdict>>
  BY DEF StopGroupJobs, leaseVars, proofVars
<1>3. groupPhase' \in [GroupRun -> {"none", "open", "overdue", "stopped"}] /\ groupPhase'[g] = "stopped"
      /\ \A h \in GroupRun \ {g} : groupPhase'[h] = groupPhase[h]
  BY DEF StopGroupJobs, TypeOK
<1>4. ks \in [Job -> JobStatus] /\ jobRow \in [Job -> JobRow \cup {NoJob}] /\ runStatus \in [Run -> RunStatus]
  BY DEF TypeOK, JobStatus, Closed
<1>5. jobStatus' = CancelQueued(Run, runStatus, jobRow, ks) /\ runStatus' = Exhaust(Run, runStatus, jobRow, jobStatus')
  BY <1>2 DEF StopGroupJobs, Refresh
<1> HIDE DEF ks
<1>6. /\ jobStatus' \in [Job -> JobStatus] /\ runStatus' \in [Run -> RunStatus]
      /\ \A j \in Job : jobStatus'[j] = ks[j] \/ (ks[j] = "queued" /\ jobStatus'[j] = "cancelled")
      /\ \A r \in Run : runStatus'[r] = runStatus[r] \/ (runStatus[r] = "running" /\ runStatus'[r] = "exhausted")
      /\ \A r \in Run : runStatus'[r] # runStatus[r] => \A j \in Job : jobRow[j].run = r => jobStatus'[j] \notin Live
      /\ \A r \in Run : runStatus'[r] = "running" => \E j \in Job : jobRow[j].run = r /\ jobStatus'[j] \in Live
  <2>1. Refreshed(Run, runStatus, jobRow, ks, jobStatus', runStatus')
    BY <1>4, <1>5, RefreshFacts
  <2>2. QED
    BY <2>1 DEF Refreshed
<1>7. \A j \in Job : \/ jobStatus'[j] = jobStatus[j] /\ (jobStatus'[j] = "queued" => RunOf(j) # g)
                     \/ jobStatus[j] \in {"queued", "verifying"} /\ jobStatus'[j] = "cancelled"
  BY <1>6 DEF TypeOK, ks
<1>8. TypeOK'
  BY <1>2, <1>3, <1>6 DEF TypeOK
<1>9. RowInv'
  <2>1. \A j \in Job : jobStatus'[j] # "absent" <=> jobStatus[j] # "absent"
    BY <1>7
  <2>2. QED
    BY <1>2, <1>6, <2>1, <1>8 DEF RowInv, RunOf, TypeOK, JobRow
<1>10. SoleLease'
  BY <1>2, <1>7 DEF SoleLease, LeasedJob, RowInv
<1>11. OneCandidate'
  BY <1>2, <1>7 DEF OneCandidate, LeasedJob, Attempted, RowInv, Outcome
<1>12. QueueServed'
  BY <1>2, <1>3, <1>6, <1>7 DEF QueueServed, Stopped, RunOf, RowInv, Live, JobRow
<1>13. RunningWhileLive'
  BY <1>2, <1>6, <1>7 DEF RunningWhileLive, HasLive, RunOf, Live
<1>14. SolvedIffProved'
  BY <1>2, <1>6 DEF SolvedIffProved, Proved, RunOf
<1>15. QED
  BY <1>8, <1>9, <1>10, <1>11, <1>12, <1>13, <1>14

LEMMA GroupsStep == ASSUME IInv, Groups PROVE IInv'
<1>1. ASSUME NEW g \in GroupRun, StartLoop(g) \/ DeadlinePasses(g) PROVE IInv'
  <2>1. UNCHANGED <<runStatus, jobRow, jobStatus, leaseJob, leaseStatus, leaseResult, ttl, attempts,
                    verdict, checking>>
        /\ groupPhase' \in [GroupRun -> {"none", "open", "overdue", "stopped"}]
        /\ \A h \in GroupRun : groupPhase'[h] = "stopped" => groupPhase[h] = "stopped"
    BY <1>1 DEF StartLoop, DeadlinePasses, jobVars, leaseVars, proofVars, IInv, TypeOK
  <2>2. TypeOK' /\ RowInv' /\ SoleLease' /\ OneCandidate' /\ RunningWhileLive' /\ SolvedIffProved'
    BY <2>1 DEF IInv, TypeOK, RowInv, SoleLease, OneCandidate, RunningWhileLive, SolvedIffProved,
                RunOf, LeasedJob, Attempted, HasLive, Proved
  <2>3. QueueServed'
    BY <2>1 DEF IInv, QueueServed, Stopped, RunOf
  <2>4. QED
    BY <2>2, <2>3 DEF IInv
<1>2. ASSUME NEW g \in GroupRun, StopGroup(g) PROVE IInv'
  <2>1. jobStatus \in [Job -> JobStatus] /\ checking' = checking
        /\ checking \in [Checker -> Lease \cup {NoLease}]
    BY <1>2 DEF IInv, TypeOK, StopGroup
  <2>2. QED
    BY <1>2, <2>1, StopStep DEF StopGroup
<1>3. ASSUME NEW c \in Checker, StopUncheckedTarget(c) PROVE IInv'
  <2> DEFINE j == leaseJob[checking[c]]
             js == [jobStatus EXCEPT ![j] = IF @ = "verifying" THEN "cancelled" ELSE @]
  <2>1. checking[c] \in Lease /\ j \in Job /\ RunOf(j) \in GroupRun
    BY <1>3 DEF StopUncheckedTarget, IInv, TypeOK, RowInv
  <2>2. js \in [Job -> JobStatus]
        /\ \A k \in Job : js[k] = jobStatus[k] \/ (jobStatus[k] = "verifying" /\ js[k] = "cancelled"
                                                   /\ RunOf(k) = RunOf(j))
    BY <2>1 DEF IInv, TypeOK, JobStatus, Closed
  <2>3. checking' \in [Checker -> Lease \cup {NoLease}]
        /\ \A d \in Checker : checking'[d] \in {checking[d], NoLease}
    BY <1>3 DEF StopUncheckedTarget, IInv, TypeOK
  <2>4. StopGroupJobs(RunOf(j), js) /\ UNCHANGED <<leaseVars, proofVars>>
    BY <1>3 DEF StopUncheckedTarget
  <2> HIDE DEF j, js
  <2>5. QED
    BY <2>1, <2>2, <2>3, <2>4, StopStep
<1>4. QED
  BY <1>1, <1>2, <1>3 DEF Groups

-------------------------------------------------------------------------------
(* Steps of the worker protocol *)

\* A step that only moves the clock, or only what the loops are checking.
LEMMA ClockStep ==
  ASSUME IInv, ttl' \in [Lease -> 0..LeaseTicks],
         checking' \in [Checker -> Lease \cup {NoLease}],
         \A c \in Checker : checking'[c] # NoLease => verdict[checking'[c]] # "none",
         UNCHANGED <<runVars, jobVars, leaseJob, leaseStatus, leaseResult, proofVars>>
  PROVE  IInv'
<1>1. UNCHANGED <<runStatus, groupPhase, jobRow, jobStatus, leaseJob, leaseStatus, leaseResult,
                  attempts, verdict>>
  BY DEF runVars, jobVars, proofVars
<1>2. QED
  BY <1>1 DEF IInv, TypeOK, RowInv, SoleLease, OneCandidate, QueueServed, RunningWhileLive,
              SolvedIffProved, RunOf, LeasedJob, Attempted, HasLive, Proved, Stopped

\* The swept tables keep the two invariants about queued and live jobs; expire and claim share this.
LEMMA SweptQueueServed ==
  ASSUME IInv, NEW j \in Job, SweptJobs[j] = "queued"
  PROVE  SweptRuns[RunOf(j)] = "running" /\ ~ Stopped(j)
<1> USE DEF IInv
<1>1. jobStatus[j] \in {"queued", "assigned"} /\ RunOf(j) \in Run
  BY SweepFacts DEF RowInv, JobRow, RunOf
<1>2. ~ Stopped(j) /\ runStatus[RunOf(j)] = "running"
  <2>1. CASE jobStatus[j] = "queued"
    BY <2>1 DEF QueueServed
  <2>2. CASE jobStatus[j] = "assigned"
    <3>1. ~ Stopped(j) /\ runStatus[RunOf(j)] \notin {"solved", "error"}
      BY <2>2, SweepFacts
    <3>2. runStatus[RunOf(j)] \notin {"absent", "exhausted"}
      BY <1>1, <2>2 DEF RowInv, RunningWhileLive, HasLive, Live
    <3>3. QED
      BY <1>1, <3>1, <3>2 DEF TypeOK, RunStatus
  <2>3. QED
    BY <1>1, <2>1, <2>2
<1>3. QED
  BY <1>1, <1>2, SweepFacts DEF Live

LEMMA SweptRunningWhileLive ==
  ASSUME IInv, NEW r \in Run
  PROVE  /\ SweptRuns[r] = "running" => \E j \in Job : RunOf(j) = r /\ SweptJobs[j] \in Live
         /\ SweptRuns[r] = "exhausted" => ~ \E j \in Job : RunOf(j) = r /\ SweptJobs[j] \in Live
<1> USE DEF IInv
<1>1. ASSUME SweptRuns[r] = "running" PROVE \E j \in Job : RunOf(j) = r /\ SweptJobs[j] \in Live
  <2>1. CASE r \in LapsedRuns
    BY <1>1, <2>1, SweepFacts
  <2>2. CASE r \notin LapsedRuns
    <3>1. runStatus[r] = "running" /\ \A j \in Job : RunOf(j) = r => SweptJobs[j] = jobStatus[j]
      BY <1>1, <2>2, SweepFacts
    <3>2. QED
      BY <3>1 DEF RunningWhileLive, HasLive
  <2>3. QED
    BY <2>1, <2>2
<1>2. ASSUME SweptRuns[r] = "exhausted", NEW j \in Job, RunOf(j) = r PROVE SweptJobs[j] \notin Live
  <2>1. CASE runStatus[r] = "exhausted"
    <3>1. jobStatus[j] \notin Live
      BY <1>2, <2>1 DEF RunningWhileLive, HasLive
    <3>2. QED
      BY <3>1, SweepFacts DEF Live
  <2>2. CASE runStatus[r] # "exhausted"
    BY <1>2, <2>2, SweepFacts
  <2>3. QED
    BY <2>1, <2>2
<1>3. QED
  BY <1>1, <1>2

\* After the sweep of _expire the invariants hold of the swept tables.
LEMMA ExpireStep == ASSUME IInv, Expire PROVE IInv'
<1> USE DEF IInv
<1>1. /\ leaseStatus' = SweptLeases /\ jobStatus' = SweptJobs /\ runStatus' = SweptRuns
      /\ UNCHANGED <<groupPhase, jobRow, leaseJob, leaseResult, ttl, attempts, verdict, checking>>
  BY DEF Expire, proofVars
<1>2. /\ \A l \in Lease : leaseStatus'[l] = IF l \in Lapsed THEN "expired" ELSE leaseStatus[l]
      /\ \A l \in Lapsed : leaseStatus[l] = "active"
  BY <1>1 DEF SweptLeases, Lapsed
<1>3. TypeOK'
  BY <1>1, SweepFacts DEF TypeOK
<1>4. RowInv'
  <2>1. \A j \in Job : jobStatus'[j] # "absent" <=> jobStatus[j] # "absent"
    BY <1>1, SweepFacts
  <2>2. \A r \in Run : runStatus[r] # "absent" => runStatus'[r] # "absent"
    BY <1>1, SweepFacts
  <2>3. QED
    BY <1>1, <1>2, <2>1, <2>2 DEF RowInv, RunOf, JobRow
<1>5. SoleLease'
  <2>1. \A l \in Lease : leaseStatus'[l] = "active" => leaseStatus[l] = "active" /\ l \notin Lapsed
    BY <1>2
  <2>2. \A l \in Lease : leaseStatus'[l] = "active" => jobStatus'[leaseJob[l]] = "assigned"
    <3>1. SUFFICES ASSUME NEW l \in Lease, leaseStatus'[l] = "active" PROVE jobStatus'[leaseJob[l]] = "assigned"
      OBVIOUS
    <3>2. leaseJob[l] \in Job /\ jobStatus[leaseJob[l]] = "assigned"
      BY <2>1, <3>1 DEF SoleLease, RowInv, LeasedJob
    <3>3. ~ \E m \in Lapsed : leaseJob[m] = leaseJob[l]
      BY <2>1, <3>1 DEF SoleLease, Lapsed
    <3>4. QED
      BY <1>1, <3>2, <3>3, SweepFacts
  <2>3. \A j \in Job : jobStatus'[j] = "assigned" =>
          \E l \in Lease : leaseStatus'[l] = "active" /\ leaseJob[l] = j
    <3>1. \A j \in Job : jobStatus'[j] = "assigned" => jobStatus[j] = "assigned"
      BY <1>1, SweepFacts
    <3>2. \A l \in Lapsed : jobStatus'[leaseJob[l]] # "assigned"
      BY <1>1, SweepFacts
    <3>3. QED
      BY <1>2, <3>1, <3>2 DEF SoleLease
  <2>4. QED
    BY <1>1, <2>1, <2>2, <2>3 DEF SoleLease, LeasedJob
<1>6. OneCandidate'
  <2>1. \A j \in Job : jobStatus'[j] = "verifying" <=> jobStatus[j] = "verifying"
    BY <1>1, SweepFacts
  <2>2. \A j \in Job : jobStatus[j] \in {"verifying", "cancelled", "done"} => jobStatus'[j] = jobStatus[j]
    BY <1>1, SweepFacts
  <2>3. \A l \in Lease : verdict[l] # "none" => leaseJob[l] \in Job
    BY DEF RowInv
  <2>4. QED
    BY <1>1, <2>1, <2>2, <2>3 DEF OneCandidate, LeasedJob, Attempted, Outcome
<1>7. QueueServed'
  BY <1>1, SweptQueueServed DEF QueueServed, RunOf, Stopped
<1>8. RunningWhileLive'
  BY <1>1, SweptRunningWhileLive DEF RunningWhileLive, HasLive, RunOf
<1>9. SolvedIffProved'
  BY <1>1, SweepFacts DEF SolvedIffProved, Proved, RunOf
<1>10. QED
  BY <1>3, <1>4, <1>5, <1>6, <1>7, <1>8, <1>9

LEMMA ClaimParts ==
  ASSUME NEW kinds, ClaimAny(kinds) PROVE \E j \in Job, l \in Lease : Claim(kinds, j, l)
BY DEF ClaimAny, Claimable

\* claim: the sweep, then the oldest claimable job goes out under a new lease.
LEMMA ClaimStep ==
  ASSUME IInv, NEW kinds \in SUBSET Kind, NEW j \in Job, NEW l \in Lease, Claim(kinds, j, l)
  PROVE  IInv'
<1> USE DEF IInv
<1>1. /\ SweptJobs[j] = "queued" /\ SweptRuns[RunOf(j)] = "running"
      /\ leaseStatus[l] = "absent"
  BY DEF Claim, Claimable, NextRows, LeaseRows
<1>2. /\ runStatus' = SweptRuns
      /\ UNCHANGED <<groupPhase, jobRow, leaseResult, attempts, verdict, checking>>
  BY DEF Claim, proofVars
<1>3. /\ leaseJob' \in [Lease -> Job \cup {0}] /\ ttl' \in [Lease -> 0..LeaseTicks]
      /\ leaseJob'[l] = j /\ \A m \in Lease \ {l} : leaseJob'[m] = leaseJob[m]
  BY LimitAssumption DEF Claim, TypeOK
<1>4. /\ leaseStatus' \in [Lease -> LeaseStatus] /\ leaseStatus'[l] = "active"
      /\ \A m \in Lease \ {l} : leaseStatus'[m] = IF m \in Lapsed THEN "expired" ELSE leaseStatus[m]
      /\ \A m \in Lapsed : leaseStatus[m] = "active"
  BY SweepFacts DEF Claim, LeaseStatus, Lapsed
<1>5. /\ jobStatus' \in [Job -> JobStatus] /\ jobStatus'[j] = "assigned"
      /\ \A k \in Job \ {j} : jobStatus'[k] = SweptJobs[k]
  BY SweepFacts DEF Claim, JobStatus, Live
<1>6. TypeOK'
  BY <1>2, <1>3, <1>4, <1>5, SweepFacts DEF TypeOK
<1>7. \A k \in Job : jobStatus'[k] # "absent" <=> jobStatus[k] # "absent"
  BY <1>1, <1>5, SweepFacts
<1>8. verdict[l] = "none" /\ leaseResult[l] = "none"
  BY <1>1 DEF RowInv
<1>9. RowInv'
  <2>1. \A r \in Run : runStatus[r] # "absent" => runStatus'[r] # "absent"
    BY <1>2, SweepFacts
  <2>2. \A m \in Lease : leaseStatus'[m] # "absent" => leaseJob'[m] \in Job /\ jobStatus'[leaseJob'[m]] # "absent"
    BY <1>3, <1>4, <1>5, <1>7 DEF RowInv
  <2>3. \A m \in Lease : verdict[m] # "none" => leaseStatus'[m] = "completed"
    BY <1>4, <1>8 DEF RowInv
  <2>4. \A m \in Lease : leaseResult[m] # "none" => leaseStatus'[m] \in {"completed", "rejected"}
    BY <1>4, <1>8 DEF RowInv
  <2>5. QED
    BY <1>2, <1>7, <2>1, <2>2, <2>3, <2>4 DEF RowInv, RunOf, JobRow
<1>10. SoleLease'
  <2>1. \A m \in Lease \ {l} : leaseStatus'[m] = "active" =>
          /\ leaseStatus[m] = "active" /\ leaseJob[m] \in Job /\ leaseJob[m] # j
          /\ jobStatus'[leaseJob[m]] = "assigned"
    <3>1. SUFFICES ASSUME NEW m \in Lease \ {l}, leaseStatus'[m] = "active"
                   PROVE  /\ leaseStatus[m] = "active" /\ leaseJob[m] \in Job
                          /\ SweptJobs[leaseJob[m]] = "assigned"
      BY <1>1, <1>5
    <3>2. leaseStatus[m] = "active" /\ m \notin Lapsed
      BY <1>4, <3>1
    <3>3. leaseJob[m] \in Job /\ jobStatus[leaseJob[m]] = "assigned"
      BY <3>2 DEF SoleLease, RowInv, LeasedJob
    <3>4. ~ \E n \in Lapsed : leaseJob[n] = leaseJob[m]
      BY <3>2 DEF SoleLease, Lapsed
    <3>5. QED
      BY <3>2, <3>3, <3>4, SweepFacts
  <2>2. \A k \in Job \ {j} : jobStatus'[k] = "assigned" =>
          \E m \in Lease \ {l} : leaseStatus'[m] = "active" /\ leaseJob'[m] = k
    <3>1. SUFFICES ASSUME NEW k \in Job \ {j}, SweptJobs[k] = "assigned"
                   PROVE  \E m \in Lease \ {l} : leaseStatus'[m] = "active" /\ leaseJob'[m] = k
      BY <1>5
    <3>2. PICK m \in Lease : leaseStatus[m] = "active" /\ leaseJob[m] = k
      BY <3>1, SweepFacts DEF SoleLease
    <3>3. m \notin Lapsed /\ m # l
      BY <1>1, <3>1, <3>2, SweepFacts
    <3>4. QED
      BY <1>3, <1>4, <3>2, <3>3
  <2>3. QED
    BY <1>3, <1>4, <1>5, <2>1, <2>2 DEF SoleLease, LeasedJob
<1>11. OneCandidate'
  <2>1. \A k \in Job : jobStatus'[k] = "verifying" => jobStatus[k] = "verifying"
    BY <1>5, SweepFacts
  <2>2. \A k \in Job : jobStatus[k] \in {"verifying", "cancelled", "done"} => jobStatus'[k] = jobStatus[k]
    BY <1>1, <1>5, SweepFacts
  <2>3. \A m \in Lease : verdict[m] # "none" => leaseJob[m] \in Job /\ m # l
    BY <1>8 DEF RowInv
  <2>4. QED
    BY <1>2, <1>3, <2>1, <2>2, <2>3 DEF OneCandidate, LeasedJob, Attempted, Outcome
<1>12. QueueServed'
  <2>1. SUFFICES ASSUME NEW k \in Job, SweptJobs[k] = "queued"
                 PROVE  SweptRuns[RunOf(k)] = "running" /\ ~ Stopped(k)
    BY <1>2, <1>5 DEF QueueServed, RunOf, Stopped
  <2>2. QED
    BY <2>1, SweptQueueServed
<1>13. RunningWhileLive'
  <2>1. \A k \in Job : jobStatus'[k] \in Live <=> SweptJobs[k] \in Live
    BY <1>1, <1>5 DEF Live
  <2>2. QED
    BY <1>2, <2>1, SweptRunningWhileLive DEF RunningWhileLive, HasLive, RunOf
<1>14. SolvedIffProved'
  <2>1. \A m \in Lease : verdict[m] = "verified" => leaseJob'[m] = leaseJob[m]
    BY <1>3, <1>8
  <2>2. QED
    BY <1>2, <2>1, SweepFacts DEF SolvedIffProved, Proved, RunOf
<1>15. QED
  BY <1>6, <1>9, <1>10, <1>11, <1>12, <1>13, <1>14

\* result: the lease ends, its job moves on, and every run is refreshed.
LEMMA ResultStep ==
  ASSUME IInv, NEW l \in Lease, NEW p \in Payload, Result(l, p)
  PROVE  IInv'
<1> USE DEF IInv
<1> DEFINE j == leaseJob[l]
           answered == AnsweredStatus(j, p, leaseStatus')
           js == [jobStatus EXCEPT ![j] = answered]
           candidate == p = "completed" /\ jobRow[j].kind = "generate"
<1>1. leaseStatus[l] = "active" /\ verdict[l] = "none" /\ j \in Job /\ jobStatus[j] = "assigned"
      /\ RunOf(j) \in Run
  BY DEF Result, Holds, RowInv, SoleLease, LeasedJob, RunOf, JobRow
<1>2. /\ leaseStatus' \in [Lease -> LeaseStatus] /\ leaseStatus'[l] \in {"completed", "rejected"}
      /\ candidate => leaseStatus'[l] = "completed"
      /\ \A m \in Lease \ {l} : leaseStatus'[m] = leaseStatus[m]
      /\ leaseResult' \in [Lease -> Payload \cup {"none"}]
      /\ \A m \in Lease \ {l} : leaseResult'[m] = leaseResult[m]
      /\ ttl' \in [Lease -> 0..LeaseTicks]
      /\ UNCHANGED <<groupPhase, jobRow, leaseJob, checking>>
  BY LimitAssumption DEF Result, TypeOK, LeaseStatus
<1>3. /\ verdict' \in [Lease -> Outcome \cup {"none", "pending"}] /\ attempts' \in Seq(Lease)
      /\ verdict'[l] = IF candidate THEN "pending" ELSE "none"
      /\ \A m \in Lease \ {l} : verdict'[m] = verdict[m]
      /\ \A i \in DOMAIN attempts' : attempts'[i] # l => i \in DOMAIN attempts /\ attempts'[i] = attempts[i]
      /\ ~ candidate => attempts' = attempts
  <2>1. CASE candidate
    <3>1. attempts' = Append(attempts, l) /\ verdict' = [verdict EXCEPT ![l] = "pending"]
      BY <2>1 DEF Result
    <3>2. /\ attempts \in Seq(Lease) /\ attempts' \in Seq(Lease) /\ Len(attempts') = Len(attempts) + 1
          /\ DOMAIN attempts = 1..Len(attempts) /\ DOMAIN attempts' = 1..Len(attempts')
          /\ Len(attempts) \in Nat
          /\ \A i \in 1..Len(attempts) : attempts'[i] = attempts[i]
          /\ attempts'[Len(attempts')] = l
      BY <3>1 DEF TypeOK
    <3>3. \A i \in DOMAIN attempts' : attempts'[i] # l => i \in DOMAIN attempts /\ attempts'[i] = attempts[i]
      BY <3>2
    <3>4. QED
      BY <2>1, <3>1, <3>2, <3>3 DEF TypeOK
  <2>2. CASE ~ candidate
    <3>1. attempts' = attempts /\ verdict' = verdict
      BY <2>2 DEF Result, proofVars
    <3>2. QED
      BY <1>1, <2>2, <3>1 DEF TypeOK
  <2>3. QED
    BY <2>1, <2>2
<1>4. /\ answered \in {"verifying", "done", "failed", "queued", "cancelled"}
      /\ answered = "verifying" <=> candidate
      /\ answered = "queued" => ~ Stopped(j)
  BY DEF AnsweredStatus, RetryStatus, Payload
<1>5. js \in [Job -> JobStatus] /\ js[j] = answered /\ \A k \in Job \ {j} : js[k] = jobStatus[k]
  BY <1>1, <1>4 DEF TypeOK, JobStatus, Live, Closed
<1>6. jobStatus' = CancelQueued(Run, runStatus, jobRow, js) /\ runStatus' = Exhaust(Run, runStatus, jobRow, jobStatus')
  BY <1>2 DEF Result, Refresh
<1>7. jobRow \in [Job -> JobRow \cup {NoJob}] /\ runStatus \in [Run -> RunStatus]
  BY DEF TypeOK
<1> HIDE DEF js, answered, candidate
<1>8. Refreshed(Run, runStatus, jobRow, js, jobStatus', runStatus')
  BY <1>5, <1>6, <1>7, RefreshFacts
<1>9. /\ jobStatus' \in [Job -> JobStatus] /\ runStatus' \in [Run -> RunStatus]
      /\ \A r \in Run : runStatus'[r] = runStatus[r] \/ (runStatus[r] = "running" /\ runStatus'[r] = "exhausted")
      /\ \A r \in Run : runStatus'[r] # runStatus[r] => \A k \in Job : jobRow[k].run = r => jobStatus'[k] \notin Live
      /\ \A r \in Run : runStatus'[r] = "running" => \E k \in Job : jobRow[k].run = r /\ jobStatus'[k] \in Live
      /\ \A k \in Job \ {j} : jobStatus'[k] = jobStatus[k] \/ (jobStatus[k] = "queued" /\ jobStatus'[k] = "cancelled")
      /\ jobStatus'[j] = answered \/ (answered = "queued" /\ jobStatus'[j] = "cancelled")
      /\ jobStatus'[j] = "queued" => runStatus[RunOf(j)] \notin {"solved", "error"}
  BY <1>1, <1>5, <1>8 DEF Refreshed, RunOf
<1>10. TypeOK'
  BY <1>2, <1>3, <1>9 DEF TypeOK
<1>11. RowInv'
  <2>1. \A k \in Job : jobStatus'[k] # "absent" <=> jobStatus[k] # "absent"
    BY <1>1, <1>4, <1>9
  <2>2. \A m \in Lease : leaseStatus'[m] # "absent" => leaseStatus[m] # "absent"
    BY <1>1, <1>2
  <2>3. \A m \in Lease : verdict'[m] # "none" => leaseStatus'[m] = "completed"
    BY <1>2, <1>3 DEF RowInv
  <2>4. \A m \in Lease : leaseResult'[m] # "none" => leaseStatus'[m] \in {"completed", "rejected"}
    BY <1>2 DEF RowInv
  <2>5. \A i \in DOMAIN attempts' : verdict'[attempts'[i]] # "none"
    <3>1. \A i \in DOMAIN attempts' : attempts'[i] \in Lease
      BY <1>3
    <3>2. ASSUME NEW i \in DOMAIN attempts', attempts'[i] = l PROVE candidate
      BY <1>1, <1>3, <3>2 DEF RowInv
    <3>3. QED
      BY <1>3, <3>1, <3>2 DEF RowInv
  <2>6. \A c \in Checker : checking'[c] # NoLease => verdict'[checking'[c]] # "none"
    BY <1>1, <1>2, <1>3 DEF RowInv, TypeOK
  <2>7. QED
    BY <1>2, <1>9, <2>1, <2>2, <2>3, <2>4, <2>5, <2>6 DEF RowInv, RunOf, JobRow
<1>12. SoleLease'
  <2>1. \A m \in Lease : leaseStatus'[m] = "active" => m # l /\ leaseStatus[m] = "active" /\ leaseJob[m] # j
    BY <1>1, <1>2 DEF SoleLease
  <2>2. \A m \in Lease : leaseStatus'[m] = "active" => jobStatus'[leaseJob[m]] = "assigned"
    BY <1>9, <2>1 DEF SoleLease, LeasedJob, RowInv
  <2>3. \A k \in Job : jobStatus'[k] = "assigned" => k # j /\ jobStatus[k] = "assigned"
    BY <1>4, <1>9
  <2>4. QED
    BY <1>2, <2>1, <2>2, <2>3 DEF SoleLease, LeasedJob
<1>13. OneCandidate'
  <2>1. \A m \in Lease \ {l} : verdict[m] # "none" => leaseJob[m] \in Job \ {j}
    BY <1>1 DEF OneCandidate, LeasedJob, RowInv, TypeOK
  <2>2. \A k \in Job \ {j} : /\ jobStatus[k] \in {"verifying", "cancelled", "done"} => jobStatus'[k] = jobStatus[k]
                             /\ jobStatus'[k] = "verifying" => jobStatus[k] = "verifying"
    BY <1>9
  <2>3. jobStatus'[j] = "verifying" <=> candidate
    BY <1>4, <1>9
  <2>4. \A a, b \in Lease : verdict'[a] # "none" /\ verdict'[b] # "none" /\ leaseJob[a] = leaseJob[b] => a = b
    BY <1>3, <2>1 DEF OneCandidate, Attempted
  <2>5. \A m \in Lease : verdict'[m] = "pending" => jobStatus'[leaseJob[m]] \in {"verifying", "cancelled"}
    BY <1>3, <2>1, <2>2, <2>3 DEF OneCandidate, LeasedJob
  <2>6. \A m \in Lease : verdict'[m] \in Outcome => jobStatus'[leaseJob[m]] = "done"
    BY <1>3, <2>1, <2>2 DEF OneCandidate, LeasedJob, Outcome
  <2>7. \A k \in Job : jobStatus'[k] = "verifying" => \E m \in Lease : verdict'[m] = "pending" /\ leaseJob[m] = k
    BY <1>3, <1>1, <2>2, <2>3 DEF OneCandidate
  <2>8. QED
    BY <1>2, <2>4, <2>5, <2>6, <2>7 DEF OneCandidate, LeasedJob, Attempted
<1>14. QueueServed'
  <2>1. SUFFICES ASSUME NEW k \in Job, jobStatus'[k] = "queued"
                 PROVE  runStatus'[RunOf(k)] = "running" /\ ~ Stopped(k)
    BY <1>2 DEF QueueServed, RunOf, Stopped
  <2>2. RunOf(k) \in Run
    BY <1>1, <1>9, <2>1 DEF RowInv, RunOf, JobRow
  <2>3. ~ Stopped(k) /\ runStatus[RunOf(k)] = "running"
    <3>1. CASE k = j
      <4>1. runStatus[RunOf(j)] \notin {"absent", "exhausted"}
        BY <1>1 DEF RowInv, RunningWhileLive, HasLive, Live
      <4>2. QED
        BY <1>1, <1>4, <1>9, <2>1, <3>1, <4>1 DEF TypeOK, RunStatus
    <3>2. CASE k # j
      BY <1>9, <2>1, <3>2 DEF QueueServed
    <3>3. QED
      BY <3>1, <3>2
  <2>4. QED
    BY <1>9, <2>1, <2>2, <2>3 DEF RunOf, Live
<1>15. RunningWhileLive'
  <2>1. ASSUME NEW r \in Run, runStatus'[r] = "exhausted", NEW k \in Job, RunOf(k) = r
        PROVE  jobStatus'[k] \notin Live
    <3>1. CASE runStatus[r] = "exhausted"
      <4>1. jobStatus[k] \notin Live /\ k # j
        BY <1>1, <2>1, <3>1 DEF RunningWhileLive, HasLive, Live
      <4>2. QED
        BY <1>9, <4>1 DEF Live
    <3>2. CASE runStatus[r] # "exhausted"
      BY <1>9, <2>1, <3>2 DEF RunOf
    <3>3. QED
      BY <3>1, <3>2
  <2>2. QED
    BY <1>2, <1>9, <2>1 DEF RunningWhileLive, HasLive, RunOf
<1>16. SolvedIffProved'
  <2>1. \A m \in Lease : verdict'[m] = "verified" <=> verdict[m] = "verified"
    BY <1>1, <1>3
  <2>2. \A r \in Run : Proved(r)' <=> Proved(r)
    BY <1>2, <2>1 DEF Proved, RunOf
  <2>3. QED
    BY <1>9, <2>2 DEF SolvedIffProved
<1>17. QED
  BY <1>10, <1>11, <1>12, <1>13, <1>14, <1>15, <1>16

LEMMA WorkersStep == ASSUME IInv, Workers PROVE IInv'
<1>1. ASSUME TimePasses PROVE IInv'
  <2>1. ttl' \in [Lease -> 0..LeaseTicks]
    BY <1>1, LimitAssumption DEF TimePasses, IInv, TypeOK
  <2>2. QED
    BY <1>1, <2>1, ClockStep DEF TimePasses, IInv, TypeOK, RowInv
<1>2. ASSUME NEW l \in Lease, Heartbeat(l) PROVE IInv'
  <2>1. ttl' \in [Lease -> 0..LeaseTicks]
    BY <1>2, LimitAssumption DEF Heartbeat, IInv, TypeOK
  <2>2. QED
    BY <1>2, <2>1, ClockStep DEF Heartbeat, IInv, TypeOK, RowInv
<1>3. QED
  BY <1>1, <1>2, ExpireStep, ClaimParts, ClaimStep, ResultStep DEF Workers, Answer

-------------------------------------------------------------------------------
(* Steps of the verification loops *)

\* Steps that change nothing but what a loop has picked.
LEMMA PickStep ==
  ASSUME IInv, checking' \in [Checker -> Lease \cup {NoLease}],
         \A c \in Checker : checking'[c] # NoLease =>
           checking'[c] = checking[c] \/ verdict[checking'[c]] # "none",
         UNCHANGED <<runVars, jobVars, leaseVars, proofVars>>
  PROVE  IInv'
<1>1. UNCHANGED <<runStatus, groupPhase, jobRow, jobStatus, leaseJob, leaseStatus, leaseResult,
                  ttl, attempts, verdict>>
  BY DEF runVars, jobVars, leaseVars, proofVars
<1>2. TypeOK'
  BY <1>1 DEF IInv, TypeOK
<1>3. RowInv'
  BY <1>1 DEF IInv, RowInv, RunOf
<1>4. SoleLease' /\ OneCandidate'
  BY <1>1 DEF IInv, SoleLease, OneCandidate, LeasedJob, Attempted
<1>5. QueueServed' /\ RunningWhileLive' /\ SolvedIffProved'
  BY <1>1 DEF IInv, QueueServed, RunningWhileLive, SolvedIffProved, HasLive, Proved, RunOf, Stopped
<1>6. QED
  BY <1>2, <1>3, <1>4, <1>5 DEF IInv

\* The run's status after a verdict: solved exactly when it was or the verdict is verified.
LEMMA JudgedFacts ==
  ASSUME NEW s \in RunStatus \ {"absent"}, NEW v \in Outcome
  PROVE  /\ Judged(s, v) \in RunStatus \ {"absent"}
         /\ (Judged(s, v) = "solved") <=> (s = "solved" \/ v = "verified")
         /\ Judged(s, v) \in {"running", "exhausted"} => Judged(s, v) = s
         /\ v = "rejected" => Judged(s, v) = s
         /\ s = "running" => Judged(s, v) \in {"running", "solved", "error"}
<1>1. CASE v = "verified"
  <2>1. s \in {"running", "exhausted", "error"} => Judged(s, v) = "solved"
    BY <1>1 DEF Judged
  <2>2. s = "solved" => Judged(s, v) = "solved"
    BY <1>1 DEF Judged
  <2>3. QED
    BY <1>1, <2>1, <2>2 DEF RunStatus
<1>2. CASE v = "verifier_error"
  <2>1. s = "running" => Judged(s, v) = "error"
    BY <1>2 DEF Judged
  <2>2. s # "running" => Judged(s, v) = s
    BY <1>2 DEF Judged
  <2>3. QED
    BY <1>2, <2>1, <2>2 DEF RunStatus
<1>3. CASE v \in {"rejected", "timeout"}
  <2>1. Judged(s, v) = s
    BY <1>3 DEF Judged
  <2>2. QED
    BY <1>3, <2>1
<1>4. QED
  BY <1>1, <1>2, <1>3 DEF Outcome

\* verified: the candidate's job is done, a rejected one may have queued a repair, the run
\* takes the verdict, and every run is refreshed.
LEMMA VerifiedStep ==
  ASSUME IInv, NEW c \in Checker, NEW v \in Outcome, NEW new \in SUBSET Job, Verified(c, v, new)
  PROVE  IInv'
<1> USE DEF IInv
<1> DEFINE a == checking[c]
           j == leaseJob[a]
           r == RunOf(j)
           rs == [runStatus EXCEPT ![r] = Judged(@, v)]
           js == [k \in Job |-> IF k \in new THEN "queued" ELSE IF k = j THEN "done" ELSE jobStatus[k]]
<1>1. /\ a \in Lease /\ verdict[a] = "pending" /\ leaseStatus[a] = "completed"
      /\ j \in Job /\ jobStatus[j] \in {"verifying", "cancelled"} /\ jobRow[j] \in JobRow
      /\ r \in Run /\ runStatus[r] \in RunStatus \ {"absent"}
  BY DEF Verified, TypeOK, RowInv, OneCandidate, LeasedJob, RunOf, JobRow
<1>2. \/ new = {}
      \/ /\ v = "rejected" /\ runStatus[r] = "running" /\ r \notin GroupRun
         /\ new \cap JobRows = {}
  <2>1. CASE Repairs(j, v)
    <3>1. new \cap JobRows = {}
      BY <2>1 DEF Verified, NextRows
    <3>2. r \notin GroupRun
      <4>1. jobRow[j].depth \in Nat /\ jobRow[j].depth < MaxRepairs[r]
        BY <1>1, <2>1 DEF Repairs, JobRow
      <4>2. r \in GroupRun => MaxRepairs[r] = 0
        BY LimitAssumption
      <4>3. QED
        BY <4>1, <4>2
    <3>3. QED
      BY <2>1, <3>1, <3>2 DEF Repairs
  <2>2. CASE ~ Repairs(j, v)
    BY <2>2 DEF Verified
  <2>3. QED
    BY <2>1, <2>2
<1>3. \A k \in new : jobStatus[k] = "absent" /\ k # j
  BY <1>1, <1>2 DEF JobRows
<1>4. /\ verdict' \in [Lease -> Outcome \cup {"none", "pending"}] /\ verdict'[a] = v
      /\ \A m \in Lease \ {a} : verdict'[m] = verdict[m]
      /\ checking' \in [Checker -> Lease \cup {NoLease}]
      /\ \A d \in Checker : checking'[d] \in {checking[d], NoLease}
      /\ UNCHANGED <<leaseJob, leaseStatus, leaseResult, ttl, attempts>>
  BY <1>1 DEF Verified, TypeOK, leaseVars
<1>5. /\ jobRow' \in [Job -> JobRow \cup {NoJob}]
      /\ \A k \in new : jobRow'[k] \in JobRow /\ jobRow'[k].run = r
      /\ \A k \in Job \ new : jobRow'[k] = jobRow[k]
  <2>1. RepairRow(j, a) \in JobRow /\ RepairRow(j, a).run = r
    <3>1. ASSUME NEW row \in JobRow
          PROVE  LET repair == [row EXCEPT !.kind = "generate", !.depth = @ + 1, !.parent = a]
                 IN repair \in JobRow /\ repair.run = row.run
      <4>1. row.depth + 1 \in Nat
        BY DEF JobRow
      <4>2. QED
        BY <1>1, <4>1 DEF JobRow, Kind
    <3>2. QED
      BY <1>1, <3>1 DEF RepairRow, RunOf
  <2>2. jobRow' = [k \in Job |-> IF k \in new THEN RepairRow(j, a) ELSE jobRow[k]]
    BY DEF Verified
  <2>3. QED
    BY <2>1, <2>2 DEF TypeOK
<1>6. /\ groupPhase' \in [GroupRun -> {"none", "open", "overdue", "stopped"}]
      /\ \A g \in GroupRun : groupPhase'[g] = groupPhase[g] \/ (g = r /\ v = "verified")
  BY DEF Verified, TypeOK
<1>7. /\ rs \in [Run -> RunStatus]
      /\ \A q \in Run \ {r} : rs[q] = runStatus[q]
      /\ rs[r] # "absent"
      /\ (rs[r] = "solved") <=> (runStatus[r] = "solved" \/ v = "verified")
      /\ rs[r] \in {"running", "exhausted"} => rs[r] = runStatus[r]
      /\ v = "rejected" => rs[r] = runStatus[r]
      /\ runStatus[r] = "running" => rs[r] \in {"running", "solved", "error"}
  <2>1. rs[r] = Judged(runStatus[r], v)
    BY <1>1 DEF TypeOK
  <2>2. QED
    BY <1>1, <2>1, JudgedFacts DEF TypeOK
<1>8. /\ js \in [Job -> JobStatus]
      /\ \A k \in new : js[k] = "queued"
      /\ js[j] = "done"
      /\ \A k \in Job \ (new \cup {j}) : js[k] = jobStatus[k]
  BY <1>1, <1>3 DEF TypeOK, JobStatus, Live, Closed
<1>9. jobStatus' = CancelQueued(Run, rs, jobRow', js) /\ runStatus' = Exhaust(Run, rs, jobRow', jobStatus')
  BY DEF Verified, Refresh
<1> HIDE DEF rs, js
<1>10. Refreshed(Run, rs, jobRow', js, jobStatus', runStatus')
  BY <1>5, <1>7, <1>8, <1>9, RefreshFacts
<1>11. /\ jobStatus' \in [Job -> JobStatus] /\ runStatus' \in [Run -> RunStatus]
       /\ \A k \in new : jobStatus'[k] \in {"queued", "cancelled"}
       /\ jobStatus'[j] = "done"
       /\ \A k \in Job \ (new \cup {j}) :
            jobStatus'[k] = jobStatus[k] \/ (jobStatus[k] = "queued" /\ jobStatus'[k] = "cancelled")
       /\ \A k \in Job : jobStatus'[k] = "queued" /\ jobRow'[k].run \in Run
            => rs[jobRow'[k].run] \notin {"solved", "error"}
       /\ \A q \in Run : runStatus'[q] = rs[q] \/ (rs[q] = "running" /\ runStatus'[q] = "exhausted")
       /\ \A q \in Run : runStatus'[q] # rs[q] => \A k \in Job : jobRow'[k].run = q => jobStatus'[k] \notin Live
       /\ \A q \in Run : runStatus'[q] = "running" => \E k \in Job : jobRow'[k].run = q /\ jobStatus'[k] \in Live
  BY <1>1, <1>8, <1>10 DEF Refreshed
<1>12. \A k \in Job : jobStatus[k] # "absent" => k \notin new
  BY <1>3
<1>13. TypeOK'
  BY <1>4, <1>5, <1>6, <1>11 DEF TypeOK
<1>14. RowInv'
  <2>1. ASSUME NEW k \in Job, jobStatus'[k] # "absent"
        PROVE  jobRow'[k] \in JobRow /\ runStatus'[jobRow'[k].run] # "absent"
    <3>1. jobRow'[k] \in JobRow /\ runStatus[jobRow'[k].run] # "absent"
      <4>1. CASE k \in new
        BY <1>1, <1>5, <4>1
      <4>2. CASE k \notin new
        BY <1>1, <1>5, <1>11, <2>1, <4>2 DEF RowInv, RunOf
      <4>3. QED
        BY <4>1, <4>2
    <3>2. \A q \in Run : runStatus[q] # "absent" => runStatus'[q] # "absent"
      BY <1>7, <1>11
    <3>3. QED
      BY <3>1, <3>2 DEF JobRow
  <2>2. \A m \in Lease : leaseStatus[m] # "absent" =>
          leaseJob[m] \in Job /\ jobStatus'[leaseJob[m]] # "absent"
    BY <1>11, <1>12 DEF RowInv
  <2>3. \A m \in Lease : verdict'[m] # "none" <=> verdict[m] # "none"
    BY <1>1, <1>4 DEF Outcome
  <2>4. \A i \in DOMAIN attempts : attempts[i] \in Lease
    BY DEF TypeOK
  <2>5. \A d \in Checker : checking'[d] # NoLease => checking'[d] = checking[d] /\ checking[d] \in Lease
    BY <1>4 DEF TypeOK
  <2>6. \A l \in Lease : verdict'[l] # "none" => leaseStatus[l] = "completed"
    BY <2>3 DEF RowInv
  <2>7. \A i \in DOMAIN attempts : verdict'[attempts[i]] # "none"
    BY <2>3, <2>4 DEF RowInv
  <2>8. \A d \in Checker : checking'[d] # NoLease => verdict'[checking'[d]] # "none"
    BY <2>3, <2>5 DEF RowInv
  <2>9. QED
    BY <1>4, <2>1, <2>2, <2>6, <2>7, <2>8 DEF RowInv, RunOf
<1>15. SoleLease'
  <2>1. \A m \in Lease : leaseStatus[m] = "active" =>
          leaseJob[m] \in Job \ (new \cup {j}) /\ jobStatus[leaseJob[m]] = "assigned"
    BY <1>1, <1>12 DEF SoleLease, LeasedJob, RowInv
  <2>2. \A m \in Lease : leaseStatus[m] = "active" => jobStatus'[leaseJob[m]] = "assigned"
    BY <1>11, <2>1
  <2>3. \A k \in Job : jobStatus'[k] = "assigned" => jobStatus[k] = "assigned"
    BY <1>11
  <2>4. QED
    BY <1>4, <2>2, <2>3 DEF SoleLease, LeasedJob
<1>16. OneCandidate'
  <2>1. \A m \in Lease \ {a} : verdict[m] # "none" => leaseJob[m] \in Job \ (new \cup {j})
    BY <1>1, <1>12 DEF OneCandidate, LeasedJob, Attempted, RowInv
  <2>2. \A k \in Job \ (new \cup {j}) :
          /\ jobStatus[k] \in {"verifying", "cancelled", "done"} => jobStatus'[k] = jobStatus[k]
          /\ jobStatus'[k] = "verifying" => jobStatus[k] = "verifying"
    BY <1>11
  <2>3. \A m, n \in Lease : verdict'[m] # "none" /\ verdict'[n] # "none" /\ leaseJob[m] = leaseJob[n] => m = n
    BY <1>1, <1>4 DEF OneCandidate, Attempted
  <2>4. \A m \in Lease : verdict'[m] = "pending" => jobStatus'[leaseJob[m]] \in {"verifying", "cancelled"}
    BY <1>4, <2>1, <2>2 DEF OneCandidate, LeasedJob, Outcome
  <2>5. \A m \in Lease : verdict'[m] \in Outcome => jobStatus'[leaseJob[m]] = "done"
    BY <1>4, <1>11, <2>1, <2>2 DEF OneCandidate, LeasedJob, Outcome
  <2>6. \A k \in Job : jobStatus'[k] = "verifying" => \E m \in Lease : verdict'[m] = "pending" /\ leaseJob[m] = k
    <3>1. SUFFICES ASSUME NEW k \in Job, jobStatus'[k] = "verifying"
                   PROVE  \E m \in Lease : verdict'[m] = "pending" /\ leaseJob[m] = k
      OBVIOUS
    <3>2. k # j /\ jobStatus[k] = "verifying"
      BY <1>11, <3>1
    <3>3. PICK m \in Lease : verdict[m] = "pending" /\ leaseJob[m] = k
      BY <3>2 DEF OneCandidate
    <3>4. QED
      BY <1>4, <3>2, <3>3
  <2>7. QED
    BY <1>4, <2>3, <2>4, <2>5, <2>6 DEF OneCandidate, LeasedJob, Attempted
<1>17. QueueServed'
  <2>1. SUFFICES ASSUME NEW k \in Job, jobStatus'[k] = "queued"
                 PROVE  runStatus'[RunOf(k)'] = "running" /\ ~ Stopped(k)'
    BY DEF QueueServed
  <2> DEFINE q == jobRow'[k].run
  <2>2. q \in Run
    BY <1>14, <2>1 DEF RowInv, RunOf, JobRow
  <2>3. runStatus[q] = "running" /\ (q \in GroupRun => groupPhase[q] # "stopped")
    <3>1. CASE k \in new
      BY <1>2, <1>5, <3>1
    <3>2. CASE k \notin new
      <4>1. jobStatus[k] = "queued" /\ q = RunOf(k)
        BY <1>5, <1>11, <2>1, <3>2 DEF RunOf
      <4>2. QED
        BY <4>1 DEF QueueServed, Stopped
    <3>3. QED
      BY <3>1, <3>2
  <2>4. rs[q] = "running"
    BY <1>7, <1>11, <2>1, <2>2, <2>3
  <2>5. runStatus'[q] = "running"
    BY <1>11, <2>1, <2>2, <2>4 DEF Live
  <2>6. q \in GroupRun => groupPhase'[q] # "stopped"
    BY <1>6, <1>7, <2>3, <2>4
  <2>7. QED
    BY <2>5, <2>6 DEF RunOf, Stopped
<1>18. RunningWhileLive'
  <2>1. ASSUME NEW q \in Run, runStatus'[q] = "exhausted", NEW k \in Job, jobRow'[k].run = q
        PROVE  jobStatus'[k] \notin Live
    <3>1. CASE rs[q] = "exhausted"
      <4>1. runStatus[q] = "exhausted"
        BY <1>7, <3>1
      <4>2. \A i \in Job : jobRow[i].run = q => jobStatus[i] \notin Live
        BY <4>1 DEF RunningWhileLive, HasLive, RunOf
      <4>3. k \notin new
        BY <1>2, <1>5, <2>1, <4>1
      <4>4. QED
        BY <1>5, <1>11, <2>1, <4>2, <4>3 DEF Live
    <3>2. CASE rs[q] # "exhausted"
      BY <1>11, <2>1, <3>2
    <3>3. QED
      BY <3>1, <3>2
  <2>2. QED
    BY <1>11, <2>1 DEF RunningWhileLive, HasLive, RunOf
<1>19. SolvedIffProved'
  <2>1. \A m \in Lease : verdict[m] # "none" => jobRow'[leaseJob[m]] = jobRow[leaseJob[m]]
    BY <1>5, <1>12 DEF RowInv
  <2>2. \A q \in Run : Proved(q)' <=> (Proved(q) \/ (q = r /\ v = "verified"))
    BY <1>1, <1>4, <2>1 DEF Proved, RunOf
  <2>3. \A q \in Run : runStatus'[q] = "solved" <=> rs[q] = "solved"
    BY <1>11
  <2>4. QED
    BY <1>7, <2>2, <2>3 DEF SolvedIffProved
<1>20. QED
  BY <1>13, <1>14, <1>15, <1>16, <1>17, <1>18, <1>19

LEMMA LoopsStep == ASSUME IInv, Loops PROVE IInv'
<1>1. ASSUME NEW c \in Checker, NEW i \in DOMAIN attempts, Pick(c, i) PROVE IInv'
  <2>1. attempts[i] \in Lease /\ verdict[attempts[i]] # "none"
    BY DEF IInv, TypeOK, RowInv
  <2>2. checking' \in [Checker -> Lease \cup {NoLease}]
    BY <1>1, <2>1 DEF Pick, IInv, TypeOK
  <2>3. \A d \in Checker : checking'[d] = checking[d] \/ checking'[d] = attempts[i]
    BY <1>1 DEF Pick, IInv, TypeOK
  <2>4. QED
    BY <1>1, <2>1, <2>2, <2>3, PickStep DEF Pick
<1>2. ASSUME NEW c \in Checker, Abandon(c) \/ VerifiedAgain(c) PROVE IInv'
  <2>1. checking' = [checking EXCEPT ![c] = NoLease] /\ UNCHANGED <<runVars, jobVars, leaseVars, proofVars>>
    BY <1>2 DEF Abandon, VerifiedAgain
  <2>2. /\ checking' \in [Checker -> Lease \cup {NoLease}]
        /\ \A d \in Checker : checking'[d] \in {checking[d], NoLease}
    BY <2>1 DEF IInv, TypeOK
  <2>3. QED
    BY <2>1, <2>2, PickStep
<1>3. QED
  BY <1>1, <1>2, VerifiedStep DEF Loops, PickNext, Check

-------------------------------------------------------------------------------
(* The invariant holds of the specification *)

LEMMA InitInv == Init => IInv
<1> SUFFICES ASSUME Init PROVE IInv
  OBVIOUS
<1>1. TypeOK
  <2>1. attempts \in Seq(Lease)
    BY DEF Init
  <2>2. 0 \in 0..LeaseTicks
    BY LimitAssumption
  <2>3. groupPhase \in [GroupRun -> {"none", "open", "overdue", "stopped"}]
    BY DEF Init
  <2>4. QED
    BY <2>1, <2>2, <2>3 DEF Init, TypeOK, RunStatus, JobStatus, LeaseStatus
<1>2. RowInv
  BY DEF Init, RowInv
<1>3. SoleLease /\ OneCandidate
  BY DEF Init, SoleLease, OneCandidate, LeasedJob, Attempted, Outcome
<1>4. QueueServed /\ RunningWhileLive /\ SolvedIffProved
  BY DEF Init, QueueServed, RunningWhileLive, SolvedIffProved, Proved
<1>5. QED
  BY <1>1, <1>2, <1>3, <1>4 DEF IInv

LEMMA NextInv == ASSUME IInv, [Next]_vars PROVE IInv'
<1>1. CASE UNCHANGED vars
  <2>1. checking' = checking /\ UNCHANGED <<runVars, jobVars, leaseVars, proofVars>>
    BY <1>1 DEF vars
  <2>2. QED
    BY <2>1, PickStep DEF IInv, TypeOK
<1>2. CASE Next
  BY <1>2, RequestsStep, GroupsStep, WorkersStep, LoopsStep DEF Next
<1>3. QED
  BY <1>1, <1>2

LEMMA InvHolds == Spec => []IInv
<1>1. QED
  BY InitInv, NextInv, PTL DEF Spec

\* Every table holds rows of the shape the schema declares.
THEOREM TypeCorrect == Spec => []TypeOK
<1>1. IInv => TypeOK
  BY DEF IInv
<1>2. QED
  BY <1>1, InvHolds, PTL

\* No job is worked on under two leases and no assigned job is without one.
THEOREM LeaseSafety == Spec => []SoleLease
<1>1. IInv => SoleLease
  BY DEF IInv
<1>2. QED
  BY <1>1, InvHolds, PTL

\* Whatever answers arrive late, a job yields at most one candidate.
THEOREM CandidateSafety == Spec => []OneCandidate
<1>1. IInv => OneCandidate
  BY DEF IInv
<1>2. QED
  BY <1>1, InvHolds, PTL

\* protocol/v1.md: a run is solved exactly when one of its candidates was verified.
THEOREM VerifiedPrecedence == Spec => []SolvedIffProved
<1>1. IInv => SolvedIffProved
  BY DEF IInv
<1>2. QED
  BY <1>1, InvHolds, PTL

\* No queued job is stranded by the end of its run or of its group.
THEOREM NoStrandedJob == Spec => []QueueServed
<1>1. IInv => QueueServed
  BY DEF IInv
<1>2. QED
  BY <1>1, InvHolds, PTL

\* A run is running while one of its jobs is live, and never longer.
THEOREM RunningExactly == Spec => []RunningWhileLive
<1>1. IInv => RunningWhileLive
  BY DEF IInv
<1>2. QED
  BY <1>1, InvHolds, PTL


-------------------------------------------------------------------------------
(* What each kind of step writes *)

\* Requests change no record and only start, keep or reopen the run they name.
LEMMA RequestsWrite ==
  ASSUME IInv, Requests
  PROVE  /\ UNCHANGED <<leaseResult, verdict, attempts, leaseJob, checking>>
         /\ \A j \in Job : jobStatus[j] # "absent" => jobStatus'[j] = jobStatus[j]
         /\ \A q \in Run : \/ runStatus'[q] = runStatus[q]
                           \/ runStatus[q] = "absent" /\ runStatus'[q] = "running"
                           \/ q \in GroupRun /\ runStatus[q] = "exhausted" /\ runStatus'[q] = "running"
<1>1. ASSUME NEW new, NEW row, InsertJobs(new, row)
      PROVE  \A j \in Job : jobStatus[j] # "absent" => jobStatus'[j] = jobStatus[j]
  BY <1>1 DEF InsertJobs, NextRows, JobRows
<1>2. ASSUME NEW r \in Run, NEW new \in SUBSET Job, Submit(r, new)
      PROVE  /\ UNCHANGED <<leaseResult, verdict, attempts, leaseJob, checking>>
             /\ \A q \in Run : runStatus'[q] = runStatus[q] \/ (runStatus[q] = "absent" /\ runStatus'[q] = "running")
             /\ \E rows, row : InsertJobs(rows, row)
  BY <1>2 DEF Submit, leaseVars, proofVars, IInv, TypeOK
<1>3. ASSUME NEW r \in Run, NEW j \in Job, EnqueueTask(r, j)
      PROVE  /\ UNCHANGED <<leaseResult, verdict, attempts, leaseJob, checking, runStatus>>
             /\ \E rows, row : InsertJobs(rows, row)
  BY <1>3 DEF EnqueueTask, leaseVars, proofVars, runVars
<1>4. ASSUME NEW g \in GroupRun, NEW j \in Job, NEW kind, NEW cost, EnqueueGroupJob(g, j, kind, cost)
      PROVE  /\ UNCHANGED <<leaseResult, verdict, attempts, leaseJob, checking>>
             /\ \A q \in Run : \/ runStatus'[q] = runStatus[q]
                               \/ runStatus[q] = "absent" /\ runStatus'[q] = "running"
                               \/ q \in GroupRun /\ runStatus[q] = "exhausted" /\ runStatus'[q] = "running"
             /\ \E rows, row : InsertJobs(rows, row)
  BY <1>4 DEF EnqueueGroupJob, leaseVars, proofVars, IInv, TypeOK
<1>5. QED
  BY <1>1, <1>2, <1>3, <1>4 DEF Requests

\* A refresh cancels queued jobs and exhausts running runs.
LEMMA RefreshWrite ==
  ASSUME NEW rs \in [Run -> RunStatus], NEW js \in [Job -> JobStatus],
         jobRow' \in [Job -> JobRow \cup {NoJob}], Refresh(rs, js)
  PROVE  /\ \A j \in Job : jobStatus'[j] = js[j] \/ (js[j] = "queued" /\ jobStatus'[j] = "cancelled")
         /\ \A q \in Run : runStatus'[q] = rs[q] \/ (rs[q] = "running" /\ runStatus'[q] = "exhausted")
<1>1. Refreshed(Run, rs, jobRow', js, jobStatus', runStatus')
  BY RefreshFacts DEF Refresh
<1>2. QED
  BY <1>1 DEF Refreshed

\* Stopping a group leaves records alone; of the jobs it cancels, all but the given one are queued.
LEMMA StopWrite ==
  ASSUME IInv, NEW g \in GroupRun, NEW js \in [Job -> JobStatus], StopGroupJobs(g, js)
  PROVE  /\ \A j \in Job : jobStatus'[j] = js[j] \/ (js[j] = "queued" /\ jobStatus'[j] = "cancelled")
         /\ \A q \in Run : runStatus'[q] = runStatus[q]
                           \/ (runStatus[q] = "running" /\ runStatus'[q] = "exhausted")
<1> DEFINE ks == [j \in Job |-> IF RunOf(j) = g /\ js[j] = "queued" THEN "cancelled" ELSE js[j]]
<1>1. ks \in [Job -> JobStatus] /\ Refresh(runStatus, ks)
      /\ jobRow' \in [Job -> JobRow \cup {NoJob}] /\ runStatus \in [Run -> RunStatus]
  BY DEF StopGroupJobs, JobStatus, Closed, IInv, TypeOK
<1>2. \A j \in Job : ks[j] = js[j] \/ (js[j] = "queued" /\ ks[j] = "cancelled")
  OBVIOUS
<1> HIDE DEF ks
<1>3. QED
  BY <1>1, <1>2, RefreshWrite

\* Every move of a run is in the transition table; a solved run is told by its status.
RunMoves ==
  \A q \in Run : \/ runStatus'[q] = runStatus[q]
                 \/ runStatus[q] = "absent" /\ runStatus'[q] = "running"
                 \/ runStatus[q] = "running" /\ runStatus'[q] \in {"error", "exhausted"}
                 \/ q \in GroupRun /\ runStatus[q] = "exhausted" /\ runStatus'[q] = "running"
                 \/ runStatus[q] # "absent" /\ runStatus'[q] = "solved"

\* A step that leaves every verified, done or verifying job as it was leaves the picked ones alive.
LEMMA CheckedStep ==
  ASSUME IInv, CheckedLives, UNCHANGED <<checking, leaseJob>>,
         \A j \in Job : jobStatus[j] \in {"verifying", "done"} => jobStatus'[j] = jobStatus[j]
  PROVE  CheckedLives'
<1>1. \A l \in Lease : verdict[l] # "none" => leaseJob[l] \in Job /\ jobStatus[leaseJob[l]] \in {"verifying", "done", "cancelled"}
  BY DEF IInv, OneCandidate, LeasedJob, RowInv, TypeOK
<1>2. \A c \in Checker : checking[c] # NoLease => checking[c] \in Lease /\ verdict[checking[c]] # "none"
  BY DEF IInv, TypeOK, RowInv
<1>3. QED
  BY <1>1, <1>2 DEF CheckedLives

LEMMA RequestsKeep ==
  ASSUME IInv, CheckedLives, Requests PROVE RecordsKept /\ RunMoves /\ CheckedLives'
<1>1. RecordsKept /\ RunMoves
  BY RequestsWrite DEF RecordsKept, RunMoves, Closed
<1>2. CheckedLives'
  BY RequestsWrite, CheckedStep
<1>3. QED
  BY <1>1, <1>2

LEMMA GroupsKeep ==
  ASSUME IInv, CheckedLives, Groups PROVE RecordsKept /\ RunMoves /\ CheckedLives'
<1> USE DEF IInv
<1>1. ASSUME NEW g \in GroupRun, StartLoop(g) \/ DeadlinePasses(g) PROVE RecordsKept /\ RunMoves /\ CheckedLives'
  <2>1. UNCHANGED <<runStatus, jobStatus, leaseJob, leaseResult, attempts, verdict, checking>>
    BY <1>1 DEF StartLoop, DeadlinePasses, jobVars, leaseVars, proofVars
  <2>2. QED
    BY <2>1, CheckedStep DEF RecordsKept, RunMoves
<1>2. ASSUME NEW g \in GroupRun, StopGroup(g) PROVE RecordsKept /\ RunMoves /\ CheckedLives'
  <2>1. UNCHANGED <<leaseJob, leaseResult, attempts, verdict, checking>>
    BY <1>2 DEF StopGroup, leaseVars, proofVars
  <2>2. jobStatus \in [Job -> JobStatus] /\ StopGroupJobs(g, jobStatus)
    BY <1>2 DEF StopGroup, TypeOK
  <2>3. /\ \A j \in Job : jobStatus'[j] = jobStatus[j] \/ (jobStatus[j] = "queued" /\ jobStatus'[j] = "cancelled")
        /\ \A q \in Run : runStatus'[q] = runStatus[q] \/ (runStatus[q] = "running" /\ runStatus'[q] = "exhausted")
    BY <2>2, StopWrite
  <2>4. QED
    BY <2>1, <2>3, CheckedStep DEF RecordsKept, RunMoves, Closed
<1>3. ASSUME NEW c \in Checker, StopUncheckedTarget(c) PROVE RecordsKept /\ RunMoves /\ CheckedLives'
  <2> DEFINE a == checking[c]
             j == leaseJob[a]
             js == [jobStatus EXCEPT ![j] = IF @ = "verifying" THEN "cancelled" ELSE @]
  <2>1. a \in Lease /\ verdict[a] = "pending" /\ j \in Job /\ RunOf(j) \in GroupRun
        /\ StopGroupJobs(RunOf(j), js)
    BY <1>3 DEF StopUncheckedTarget, TypeOK, RowInv
  <2>2. /\ UNCHANGED <<leaseJob, leaseResult, attempts, verdict>>
        /\ checking' = [checking EXCEPT ![c] = NoLease]
        /\ \A d \in Checker \ {c} : checking[d] # a
    BY <1>3 DEF StopUncheckedTarget, leaseVars, proofVars
  <2>3. /\ js \in [Job -> JobStatus] /\ \A k \in Job \ {j} : js[k] = jobStatus[k]
        /\ js[j] = jobStatus[j] \/ (jobStatus[j] = "verifying" /\ js[j] = "cancelled")
    BY <2>1 DEF TypeOK, JobStatus, Closed
  <2> HIDE DEF js
  <2>4. /\ \A k \in Job : jobStatus'[k] = js[k] \/ (js[k] = "queued" /\ jobStatus'[k] = "cancelled")
        /\ \A q \in Run : runStatus'[q] = runStatus[q] \/ (runStatus[q] = "running" /\ runStatus'[q] = "exhausted")
    BY <2>1, <2>3, StopWrite
  <2>5. RecordsKept /\ RunMoves
    BY <2>2, <2>3, <2>4 DEF RecordsKept, RunMoves, Closed
  <2>6. ASSUME NEW d \in Checker, checking'[d] # NoLease PROVE jobStatus'[leaseJob[checking'[d]]] # "cancelled"
    <3>1. d # c /\ checking'[d] = checking[d] /\ checking[d] \in Lease \ {a}
      BY <2>2, <2>6 DEF TypeOK
    <3>2. verdict[checking[d]] # "none" /\ leaseJob[checking[d]] \in Job \ {j}
      BY <2>1, <2>6, <3>1 DEF RowInv, OneCandidate, Attempted
    <3>3. jobStatus[leaseJob[checking[d]]] \in {"verifying", "done"}
      BY <2>6, <3>1, <3>2 DEF OneCandidate, LeasedJob, TypeOK, CheckedLives
    <3>4. QED
      BY <2>3, <2>4, <3>1, <3>2, <3>3
  <2>7. QED
    BY <2>2, <2>5, <2>6 DEF CheckedLives
<1>4. QED
  BY <1>1, <1>2, <1>3 DEF Groups

LEMMA WorkersKeep ==
  ASSUME IInv, CheckedLives, Workers PROVE RecordsKept /\ RunMoves /\ CheckedLives'
<1> USE DEF IInv
<1>1. ASSUME TimePasses \/ \E l \in Lease : Heartbeat(l) PROVE RecordsKept /\ RunMoves /\ CheckedLives'
  <2>1. UNCHANGED <<runStatus, jobStatus, leaseJob, leaseResult, attempts, verdict, checking>>
    BY <1>1 DEF TimePasses, Heartbeat, runVars, jobVars, proofVars
  <2>2. QED
    BY <2>1, CheckedStep DEF RecordsKept, RunMoves
<1>2. ASSUME Expire PROVE RecordsKept /\ RunMoves /\ CheckedLives'
  <2>1. /\ UNCHANGED <<leaseJob, leaseResult, attempts, verdict, checking>>
        /\ jobStatus' = SweptJobs /\ runStatus' = SweptRuns
    BY <1>2 DEF Expire, proofVars
  <2>2. \A j \in Job : jobStatus[j] \in Closed \cup {"verifying"} => jobStatus'[j] = jobStatus[j]
    BY <2>1, SweepFacts DEF Closed
  <2>3. RecordsKept /\ RunMoves
    BY <2>1, <2>2, SweepFacts DEF RecordsKept, RunMoves
  <2>4. QED
    BY <2>1, <2>2, <2>3, CheckedStep DEF Closed
<1>3. ASSUME NEW kinds \in SUBSET Kind, NEW j \in Job, NEW l \in Lease, Claim(kinds, j, l)
      PROVE  RecordsKept /\ RunMoves /\ CheckedLives'
  <2>1. /\ UNCHANGED <<leaseResult, attempts, verdict, checking>>
        /\ SweptJobs[j] = "queued" /\ jobStatus' = [SweptJobs EXCEPT ![j] = "assigned"]
        /\ runStatus' = SweptRuns /\ leaseJob' = [leaseJob EXCEPT ![l] = j] /\ leaseStatus[l] = "absent"
    BY <1>3 DEF Claim, Claimable, NextRows, LeaseRows, proofVars
  <2>2. \A k \in Job : jobStatus[k] \in Closed \cup {"verifying"} => k # j /\ jobStatus'[k] = jobStatus[k]
    BY <2>1, SweepFacts DEF Closed
  <2>3. RecordsKept /\ RunMoves
    BY <2>1, <2>2, SweepFacts DEF RecordsKept, RunMoves
  <2>4. ASSUME NEW c \in Checker, checking[c] # NoLease PROVE jobStatus'[leaseJob'[checking[c]]] # "cancelled"
    <3>1. checking[c] \in Lease \ {l} /\ verdict[checking[c]] # "none"
      BY <2>1, <2>4 DEF TypeOK, RowInv
    <3>2. leaseJob'[checking[c]] = leaseJob[checking[c]] /\ leaseJob[checking[c]] \in Job
      BY <2>1, <3>1 DEF RowInv, TypeOK
    <3>3. jobStatus[leaseJob[checking[c]]] \in {"verifying", "done"}
      BY <2>4, <3>1, <3>2 DEF OneCandidate, LeasedJob, TypeOK, CheckedLives
    <3>4. QED
      BY <2>2, <3>2, <3>3 DEF Closed
  <2>5. QED
    BY <2>1, <2>3, <2>4 DEF CheckedLives
<1>4. ASSUME NEW l \in Lease, NEW p \in Payload, Result(l, p) PROVE RecordsKept /\ RunMoves /\ CheckedLives'
  <2> DEFINE j == leaseJob[l]
             js == [jobStatus EXCEPT ![j] = AnsweredStatus(j, p, leaseStatus')]
  <2>1. leaseStatus[l] = "active" /\ leaseResult[l] = "none" /\ verdict[l] = "none"
        /\ j \in Job /\ jobStatus[j] = "assigned"
    BY <1>4 DEF Result, Holds, RowInv, SoleLease, LeasedJob
  <2>2. /\ UNCHANGED <<jobRow, leaseJob, checking>> /\ Refresh(runStatus, js)
        /\ \A m \in Lease \ {l} : leaseResult'[m] = leaseResult[m] /\ verdict'[m] = verdict[m]
        /\ attempts' = attempts \/ attempts' = Append(attempts, l)
    BY <1>4 DEF Result, TypeOK, proofVars
  <2>3. AnsweredStatus(j, p, leaseStatus') \in {"verifying", "done", "failed", "queued", "cancelled"}
    BY DEF AnsweredStatus, RetryStatus
  <2>4. js \in [Job -> JobStatus] /\ \A k \in Job \ {j} : js[k] = jobStatus[k]
    BY <2>1, <2>3 DEF TypeOK, JobStatus, Live, Closed
  <2> HIDE DEF js
  <2>5. /\ \A k \in Job : jobStatus'[k] = js[k] \/ (js[k] = "queued" /\ jobStatus'[k] = "cancelled")
        /\ \A q \in Run : runStatus'[q] = runStatus[q] \/ (runStatus[q] = "running" /\ runStatus'[q] = "exhausted")
    BY <2>2, <2>4, RefreshWrite DEF TypeOK
  <2>6. \A k \in Job : jobStatus[k] \in Closed \cup {"verifying"} => jobStatus'[k] = jobStatus[k]
    BY <2>1, <2>4, <2>5 DEF Closed
  <2>7. \A i \in DOMAIN attempts : attempts'[i] = attempts[i]
    <3>1. attempts \in Seq(Lease) /\ DOMAIN attempts = 1..Len(attempts)
      BY DEF TypeOK
    <3>2. \A i \in 1..Len(attempts) : Append(attempts, l)[i] = attempts[i]
      BY <3>1
    <3>3. QED
      BY <2>2, <3>1, <3>2
  <2>8. RecordsKept /\ RunMoves
    <3>1. js[j] # "absent"
      BY <2>1, <2>3, <2>4 DEF TypeOK, js
    <3>2. \A k \in Job : jobStatus[k] # "absent" => jobStatus'[k] # "absent"
      BY <2>4, <2>5, <3>1
    <3>3. QED
      BY <2>1, <2>2, <2>5, <2>6, <2>7, <3>2 DEF RecordsKept, RunMoves, Outcome
  <2>9. QED
    BY <2>2, <2>6, <2>8, CheckedStep DEF Closed
<1>5. QED
  BY <1>1, <1>2, <1>3, <1>4, ClaimParts DEF Workers, Answer

LEMMA LoopsKeep ==
  ASSUME IInv, CheckedLives, Loops PROVE RecordsKept /\ RunMoves /\ CheckedLives'
<1> USE DEF IInv
<1>1. ASSUME NEW c \in Checker, PickNext(c) \/ Abandon(c) \/ VerifiedAgain(c)
      PROVE  RecordsKept /\ RunMoves /\ CheckedLives'
  <2>1. UNCHANGED <<runStatus, jobStatus, leaseJob, leaseResult, attempts, verdict>>
    BY <1>1 DEF PickNext, Pick, Abandon, VerifiedAgain, runVars, jobVars, leaseVars, proofVars
  <2>2. \A d \in Checker : checking'[d] # NoLease =>
          checking'[d] = checking[d] \/ jobStatus[leaseJob[checking'[d]]] # "cancelled"
    BY <1>1 DEF PickNext, Pick, Unjudged, Abandon, VerifiedAgain, TypeOK
  <2>3. CheckedLives'
    BY <2>1, <2>2 DEF CheckedLives
  <2>4. QED
    BY <2>1, <2>3 DEF RecordsKept, RunMoves
<1>2. ASSUME NEW c \in Checker, NEW v \in Outcome, NEW new \in SUBSET Job, Verified(c, v, new)
      PROVE  RecordsKept /\ RunMoves /\ CheckedLives'
  <2> DEFINE a == checking[c]
             j == leaseJob[a]
             r == RunOf(j)
             rs == [runStatus EXCEPT ![r] = Judged(@, v)]
             js == [k \in Job |-> IF k \in new THEN "queued" ELSE IF k = j THEN "done" ELSE jobStatus[k]]
  <2>1. /\ a \in Lease /\ verdict[a] = "pending" /\ j \in Job /\ jobStatus[j] = "verifying"
        /\ r \in Run /\ runStatus[r] \in RunStatus \ {"absent"}
    BY <1>2 DEF Verified, TypeOK, RowInv, OneCandidate, LeasedJob, RunOf, JobRow, CheckedLives
  <2>2. \A k \in new : jobStatus[k] = "absent"
    BY <1>2 DEF Verified, NextRows, JobRows
  <2>3. /\ UNCHANGED <<leaseJob, leaseResult, attempts>> /\ Refresh(rs, js)
        /\ \A m \in Lease \ {a} : verdict'[m] = verdict[m]
        /\ \A d \in Checker : checking'[d] \in {checking[d], NoLease}
    BY <1>2, <2>1 DEF Verified, leaseVars, TypeOK
  <2>4. js \in [Job -> JobStatus] /\ \A k \in Job \ (new \cup {j}) : js[k] = jobStatus[k]
    BY DEF TypeOK, JobStatus, Live, Closed
  <2>5. js[j] = "done"
    BY <2>1, <2>2
  <2>6. /\ rs \in [Run -> RunStatus] /\ rs[r] = Judged(runStatus[r], v)
        /\ \A q \in Run \ {r} : rs[q] = runStatus[q]
    BY <2>1, JudgedFacts DEF TypeOK
  <2>7. /\ \A q \in Run : rs[q] = runStatus[q] \/ rs[q] = "solved" \/ (runStatus[q] = "running" /\ rs[q] = "error")
        /\ rs[r] # "absent" /\ runStatus[r] # "absent"
    <3>1. Judged(runStatus[r], v) = runStatus[r] \/ Judged(runStatus[r], v) = "solved"
          \/ (runStatus[r] = "running" /\ Judged(runStatus[r], v) = "error")
      BY DEF Judged
    <3>2. QED
      BY <2>1, <2>6, <3>1, JudgedFacts
  <2> HIDE DEF js, rs
  <2>8. jobRow' \in [Job -> JobRow \cup {NoJob}]
    BY <1>2, NextInv DEF Next, Loops, Check, TypeOK
  <2>9. /\ \A k \in Job : jobStatus'[k] = js[k] \/ (js[k] = "queued" /\ jobStatus'[k] = "cancelled")
        /\ \A q \in Run : runStatus'[q] = rs[q] \/ (rs[q] = "running" /\ runStatus'[q] = "exhausted")
    BY <2>3, <2>4, <2>6, <2>8, RefreshWrite
  <2>10. /\ \A k \in Job : jobStatus[k] \in Closed => jobStatus'[k] = jobStatus[k]
         /\ \A k \in Job : jobStatus[k] # "absent" => jobStatus'[k] # "absent"
    <3>1. \A k \in Job : jobStatus[k] \in Closed => k \notin new \cup {j}
      BY <2>1, <2>2 DEF Closed
    <3>2. \A k \in Job : jobStatus[k] # "absent" => k \notin new /\ js[k] # "absent"
      BY <2>2, <2>4, <2>5
    <3>3. QED
      BY <2>4, <2>9, <3>1, <3>2 DEF Closed
  <2>11. RecordsKept
    BY <2>1, <2>3, <2>10 DEF RecordsKept, Outcome
  <2>12. RunMoves
    <3>1. \A q \in Run \ {r} : rs[q] = runStatus[q]
      BY <2>6
    <3>2. QED
      BY <2>7, <2>9, <3>1 DEF RunMoves
  <2>13. ASSUME NEW d \in Checker, checking'[d] # NoLease PROVE jobStatus'[leaseJob[checking'[d]]] # "cancelled"
    <3>1. checking'[d] = checking[d] /\ checking[d] \in Lease /\ verdict[checking[d]] # "none"
      BY <2>3, <2>13 DEF TypeOK, RowInv
    <3>2. /\ leaseJob[checking[d]] \in Job \ new
          /\ jobStatus[leaseJob[checking[d]]] \in {"verifying", "done"}
      BY <2>2, <2>13, <3>1 DEF RowInv, OneCandidate, LeasedJob, TypeOK, CheckedLives
    <3>3. QED
      BY <2>4, <2>5, <2>9, <3>1, <3>2
  <2>14. QED
    BY <2>3, <2>11, <2>12, <2>13 DEF CheckedLives
<1>3. QED
  BY <1>1, <1>2 DEF Loops, Check

-------------------------------------------------------------------------------
LEMMA NextKeeps ==
  ASSUME IInv, CheckedLives, [Next]_vars PROVE RecordsKept /\ RunMoves /\ CheckedLives'
<1>1. CASE UNCHANGED vars
  <2>1. UNCHANGED <<runStatus, jobStatus, leaseJob, leaseResult, attempts, verdict, checking>>
    BY <1>1 DEF vars, runVars, jobVars, leaseVars, proofVars
  <2>2. QED
    BY <2>1 DEF RecordsKept, RunMoves, CheckedLives
<1>2. CASE Next
  BY <1>2, RequestsKeep, GroupsKeep, WorkersKeep, LoopsKeep DEF Next
<1>3. QED
  BY <1>1, <1>2

\* No loop is checking the target of a group that was stopped without checking it.
LEMMA CheckedHolds == Spec => []CheckedLives
<1>1. Init => CheckedLives
  BY DEF Init, CheckedLives
<1>2. IInv /\ CheckedLives /\ [Next]_vars => CheckedLives'
  BY NextKeeps
<1>3. QED
  BY <1>1, <1>2, InvHolds, PTL DEF Spec

\* The first result, the first verdict, the order of attempts and the end of a job are final,
\* whatever the workers and the verification loops do afterwards.
THEOREM RecordsAreFinal == Spec => RecordsStand
<1>1. IInv /\ CheckedLives /\ [Next]_vars => [RecordsKept]_vars
  BY NextKeeps
<1>2. QED
  BY <1>1, InvHolds, CheckedHolds, PTL DEF Spec, RecordsStand

\* The queue implements the transition table of docs/ticket-08.
THEOREM QueueKeepsPromise == Spec => RunPromise
<1>1. Init => Lifecycle!Init
  BY DEF Init, Lifecycle!Init, Proved
<1>2. ASSUME IInv, IInv', CheckedLives, [Next]_vars
      PROVE  Lifecycle!Next
  <2>1. RunMoves /\ DOMAIN runStatus' = Run
    BY <1>2, NextKeeps DEF IInv, TypeOK
  <2>2. \A q \in Run : runStatus'[q] = "solved" <=> Proved(q)'
    BY <1>2 DEF IInv, SolvedIffProved
  <2>3. QED
    BY <2>1, <2>2 DEF RunMoves, Lifecycle!Next, Lifecycle!Start, Lifecycle!Prove, Lifecycle!Fail,
                      Lifecycle!Reopen, Lifecycle!Stay
<1>3. QED
  BY <1>1, <1>2, InvHolds, CheckedHolds, PTL DEF Spec, RunPromise, Lifecycle!Spec

===============================================================================
