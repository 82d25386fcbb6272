------------------------------- MODULE JobQueue -------------------------------
(***************************************************************************)
(* The coordinator's durable job queue (store.py): runs, jobs, leases      *)
(* ("assignments"), candidate proofs ("attempts") and their verdicts       *)
(* ("verifications").  Every store operation is one BEGIN IMMEDIATE        *)
(* transaction, hence one action here.  Between transactions only two      *)
(* things survive in memory: the lease a worker holds and the attempt the  *)
(* verification loop has picked and is checking (checking).                *)
(*                                                                         *)
(* Rows are identified by their rowid: a new row takes the smallest unused *)
(* identifier of Job or Lease, so "oldest" is "smallest".  Tables keep     *)
(* every row, so identifiers are never reused.  An attempt is identified   *)
(* with the lease that delivered it (attempts.assignment_id is UNIQUE).    *)
(***************************************************************************)
EXTENDS Naturals, Sequences, FiniteSets

CONSTANTS
  Run,             \* run identifiers
  GroupRun,        \* the runs that belong to an agent group, one run per group
  Job, Lease,      \* rowids available for jobs and for assignments
  Checker,         \* verification loops (one per coordinator process)
  MaxRepairs,      \* runs.max_repairs of each run
  MaxAssignments,  \* runs.max_assignments of each run; for a group, its largest job cost
  MaxInitial,      \* bound: initial jobs per submission
  LeaseTicks,      \* lease length, in units of the coarse clock
  MaxRejections,   \* bound: pre-execution rejections in a behaviour
  NoRun, NoLease   \* "no such row"

ASSUME RowAssumption ==
  /\ Job \subseteq Nat \ {0} /\ Lease \subseteq Nat
  /\ NoRun \notin Run /\ NoLease \notin Lease
ASSUME LimitAssumption ==
  /\ GroupRun \subseteq Run
  /\ MaxRepairs \in [Run -> Nat]
  /\ MaxAssignments \in [Run -> Nat \ {0}]
  /\ \A g \in GroupRun : MaxRepairs[g] = 0
  /\ MaxInitial \in Nat /\ LeaseTicks \in Nat \ {0} /\ MaxRejections \in Nat

VARIABLES
  runStatus,    \* runs.status, "absent" before submission
  jobRow,       \* the columns of a job that never change once it is inserted
  jobStatus,    \* jobs.status
  leaseJob,     \* assignments.job_id
  leaseStatus,  \* assignments.status
  leaseResult,  \* assignments.result
  ttl,          \* clock units before an active lease expires; 0 is expires <= now
  attempts,     \* attempts in insertion order
  verdict,      \* "none": no attempt; "pending": no verification row yet
  checking,     \* the attempt each verification loop is checking
  groupPhase    \* the group's loop: none, open, past its deadline, or stopped

runVars   == <<runStatus, groupPhase>>
jobVars   == <<jobRow, jobStatus>>
leaseVars == <<leaseJob, leaseStatus, leaseResult, ttl>>
proofVars == <<attempts, verdict>>
vars == <<runVars, jobVars, leaseVars, proofVars, checking>>

Kind    == {"generate", "respond"}
Payload == {"completed", "transient", "permanent", "rejected"}
Outcome == {"verified", "rejected", "timeout", "verifier_error"}
Live    == {"queued", "assigned", "verifying"}
Closed  == {"done", "failed", "cancelled"}

RunStatus   == {"absent", "running", "solved", "exhausted", "error"}
JobStatus   == {"absent"} \cup Live \cup Closed
LeaseStatus == {"absent", "active", "expired", "completed", "rejected"}
JobRow == [run : Run, kind : Kind, depth : Nat, parent : Lease \cup {NoLease},
           max : Nat]
NoJob  == [run |-> NoRun, kind |-> "generate", depth |-> 0, parent |-> NoLease,
           max |-> 0]

TypeOK ==
  /\ runStatus \in [Run -> RunStatus]
  /\ jobRow \in [Job -> JobRow \cup {NoJob}]
  /\ jobStatus \in [Job -> JobStatus]
  /\ leaseJob \in [Lease -> Job \cup {0}]
  /\ leaseStatus \in [Lease -> LeaseStatus]
  /\ leaseResult \in [Lease -> Payload \cup {"none"}]
  /\ ttl \in [Lease -> 0..LeaseTicks]
  /\ attempts \in Seq(Lease)
  /\ verdict \in [Lease -> Outcome \cup {"none", "pending"}]
  /\ checking \in [Checker -> Lease \cup {NoLease}]
  /\ groupPhase \in [GroupRun -> {"none", "open", "overdue", "stopped"}]

-------------------------------------------------------------------------------
(* Reading the tables *)

RunOf(j)    == jobRow[j].run
JobRows     == {j \in Job : jobStatus[j] # "absent"}
LeaseRows   == {l \in Lease : leaseStatus[l] # "absent"}
Stopped(j)  == RunOf(j) \in GroupRun /\ groupPhase[RunOf(j)] = "stopped"

\* The next |new| rowids of a table over ids whose rows so far are used.
NextRows(new, ids, used) ==
  /\ new # {} /\ new \cap used = {}
  /\ \A i \in new, k \in ids : k < i => k \in new \cup used

\* Assignments that count against max_assignments: every one but a rejection.
Spent(j, status) ==
  Cardinality({l \in Lease : leaseJob[l] = j /\ status[l] \notin {"absent", "rejected"}})

\* Fault of _retry: the group's stop is forgotten.
RetryForgetsStop(j, status) == IF Spent(j, status) < jobRow[j].max THEN "queued" ELSE "failed"

\* _retry: the state of j after the lease statuses become status.
RetryStatus(j, status) ==
  IF Stopped(j) THEN "cancelled"
  ELSE IF Spent(j, status) < jobRow[j].max THEN "queued" ELSE "failed"

-------------------------------------------------------------------------------
(* _refresh, over all runs or over the given ones: queued jobs of a run that *)
(* is solved or in error are cancelled, a running run without live job is    *)
(* exhausted.  rs, row and js are the tables the transaction has written.    *)

\* Fault: a candidate under verification is not live.
ExhaustEarly(runs, rs, row, js) ==
  [r \in Run |-> IF /\ r \in runs /\ rs[r] = "running"
                    /\ ~ \E j \in Job : row[j].run = r /\ js[j] \in {"queued", "assigned"}
                 THEN "exhausted" ELSE rs[r]]

CancelQueued(runs, rs, row, js) ==
  [j \in Job |-> IF js[j] = "queued" /\ row[j].run \in runs /\ rs[row[j].run] \in {"solved", "error"}
                 THEN "cancelled" ELSE js[j]]

Exhaust(runs, rs, row, js) ==
  [r \in Run |-> IF r \in runs /\ rs[r] = "running" /\ ~ \E j \in Job : row[j].run = r /\ js[j] \in Live
                 THEN "exhausted" ELSE rs[r]]

Refresh(rs, js) ==
  /\ jobStatus' = CancelQueued(Run, rs, jobRow', js)
  /\ runStatus' = Exhaust(Run, rs, jobRow', jobStatus')

(* _expire: every active lease whose time is over expires, its job is        *)
(* retried, and the runs concerned are refreshed.                            *)

Lapsed   == {l \in Lease : leaseStatus[l] = "active" /\ ttl[l] = 0}
LapsedRuns == {RunOf(leaseJob[l]) : l \in Lapsed}
\* Fault: the job is taken back, its lease is not.
KeptLeases == leaseStatus
SweptLeases == [l \in Lease |-> IF l \in Lapsed THEN "expired" ELSE leaseStatus[l]]
RetriedJobs ==
  [j \in Job |-> IF \E l \in Lapsed : leaseJob[l] = j THEN RetryStatus(j, SweptLeases)
                 ELSE jobStatus[j]]
SweptJobs == CancelQueued(LapsedRuns, runStatus, jobRow, RetriedJobs)
SweptRuns == Exhaust(LapsedRuns, runStatus, jobRow, SweptJobs)

-------------------------------------------------------------------------------
(* Requests that create work *)

InsertJobs(new, row) ==
  /\ NextRows(new, Job, JobRows)
  /\ jobRow' = [j \in Job |-> IF j \in new THEN row ELSE jobRow[j]]
  /\ jobStatus' = [j \in Job |-> IF j \in new THEN "queued" ELSE jobStatus[j]]

NewJob(r, kind, max) ==
  [run |-> r, kind |-> kind, depth |-> 0, parent |-> NoLease, max |-> max]

Submit(r, new) ==
  /\ r \notin GroupRun /\ runStatus[r] = "absent"
  /\ IsFiniteSet(new) /\ Cardinality(new) <= MaxInitial
  /\ InsertJobs(new, NewJob(r, "generate", MaxAssignments[r]))
  /\ runStatus' = [runStatus EXCEPT ![r] = "running"]
  /\ UNCHANGED <<groupPhase, leaseVars, proofVars, checking>>

EnqueueTask(r, j) ==
  /\ r \notin GroupRun /\ runStatus[r] = "running"
  /\ InsertJobs({j}, NewJob(r, "respond", MaxAssignments[r]))
  /\ UNCHANGED <<runVars, leaseVars, proofVars, checking>>

\* The first job of a group creates its run; a later one reopens it when exhausted.
EnqueueGroupJob(g, j, kind, cost) ==
  /\ groupPhase[g] # "stopped"
  /\ runStatus[g] \in {"absent", "running", "exhausted"}
  /\ InsertJobs({j}, NewJob(g, kind, cost))
  /\ runStatus' = [runStatus EXCEPT ![g] = "running"]
  /\ UNCHANGED <<groupPhase, leaseVars, proofVars, checking>>

-------------------------------------------------------------------------------
(* The group loop, as far as it touches the queue *)

\* start_group_loop, for a group that may already have jobs.
StartLoop(g) ==
  /\ groupPhase[g] = "none"
  /\ groupPhase' = [groupPhase EXCEPT ![g] = "open"]
  /\ UNCHANGED <<runStatus, jobVars, leaseVars, proofVars, checking>>

DeadlinePasses(g) ==
  /\ groupPhase[g] = "open"
  /\ groupPhase' = [groupPhase EXCEPT ![g] = "overdue"]
  /\ UNCHANGED <<runStatus, jobVars, leaseVars, proofVars, checking>>

\* stop_group_jobs followed by _refresh: js is the jobs table before it.
StopGroupJobs(g, js) ==
  /\ groupPhase[g] \in {"open", "overdue"}
  /\ groupPhase' = [groupPhase EXCEPT ![g] = "stopped"]
  /\ UNCHANGED jobRow
  /\ Refresh(runStatus, [j \in Job |-> IF RunOf(j) = g /\ js[j] = "queued"
                                       THEN "cancelled" ELSE js[j]])

StopGroup(g) ==
  /\ StopGroupJobs(g, jobStatus)
  /\ UNCHANGED <<leaseVars, proofVars, checking>>

\* The loop cannot reserve Lean budget for the picked target: no verdict, the group stops.
StopUncheckedTarget(c) ==
  /\ checking[c] # NoLease /\ verdict[checking[c]] = "pending"
  /\ RunOf(leaseJob[checking[c]]) \in GroupRun
  /\ \A d \in Checker \ {c} : checking[d] # checking[c]
  /\ LET j == leaseJob[checking[c]] IN
       StopGroupJobs(RunOf(j), [jobStatus EXCEPT ![j] = IF @ = "verifying" THEN "cancelled" ELSE @])
  /\ checking' = [checking EXCEPT ![c] = NoLease]
  /\ UNCHANGED <<leaseVars, proofVars>>

-------------------------------------------------------------------------------
(* The worker protocol *)

TimePasses ==
  /\ \E l \in Lease : ttl[l] > 0
  /\ ttl' = [l \in Lease |-> IF ttl[l] > 0 THEN ttl[l] - 1 ELSE 0]
  /\ UNCHANGED <<runVars, jobVars, leaseJob, leaseStatus, leaseResult, proofVars, checking>>

\* expire(), and every claim() that finds no job to hand out.
Expire ==
  /\ Lapsed # {}
  /\ leaseStatus' = SweptLeases
  /\ jobStatus' = SweptJobs
  /\ runStatus' = SweptRuns
  /\ UNCHANGED <<groupPhase, jobRow, leaseJob, leaseResult, ttl, proofVars, checking>>

\* The jobs a worker offering the given kinds may be handed, after the sweep.
Claimable(kinds) ==
  {j \in Job : /\ SweptJobs[j] = "queued" /\ SweptRuns[RunOf(j)] = "running"
               /\ jobRow[j].kind \in kinds
               /\ RunOf(j) \in GroupRun => groupPhase[RunOf(j)] \in {"none", "open"}}

Claim(kinds, j, l) ==
  /\ NextRows({l}, Lease, LeaseRows)
  /\ j \in Claimable(kinds) /\ \A k \in Claimable(kinds) : j <= k
  /\ leaseJob' = [leaseJob EXCEPT ![l] = j]
  /\ leaseStatus' = [SweptLeases EXCEPT ![l] = "active"]
  /\ ttl' = [ttl EXCEPT ![l] = LeaseTicks]
  /\ jobStatus' = [SweptJobs EXCEPT ![j] = "assigned"]
  /\ runStatus' = SweptRuns
  /\ UNCHANGED <<groupPhase, jobRow, leaseResult, proofVars, checking>>

\* Fault: an expired lease may still answer.
Held(l) == leaseStatus[l] \in {"active", "expired"}
Holds(l) == leaseStatus[l] = "active" /\ ttl[l] > 0

Heartbeat(l) ==
  /\ Holds(l)
  /\ ttl' = [ttl EXCEPT ![l] = LeaseTicks]
  /\ UNCHANGED <<runVars, jobVars, leaseJob, leaseStatus, leaseResult, proofVars, checking>>

\* The state of the job answered, once the lease statuses are status.
AnsweredStatus(j, p, status) ==
  CASE p = "completed" -> IF jobRow[j].kind = "generate" THEN "verifying" ELSE "done"
    [] p = "permanent" -> "failed"
    [] OTHER           -> RetryStatus(j, status)

\* The first result of a lease.  A resubmission answers 200 or 409 and writes nothing.
Result(l, p) ==
  /\ Holds(l) /\ leaseResult[l] = "none"
  /\ leaseStatus' = [leaseStatus EXCEPT ![l] = IF p = "rejected" THEN "rejected" ELSE "completed"]
  /\ leaseResult' = [leaseResult EXCEPT ![l] = p]
  /\ ttl' = [ttl EXCEPT ![l] = 0]
  /\ LET j == leaseJob[l] IN
       /\ IF p = "completed" /\ jobRow[j].kind = "generate"
          THEN attempts' = Append(attempts, l) /\ verdict' = [verdict EXCEPT ![l] = "pending"]
          ELSE UNCHANGED proofVars
       /\ UNCHANGED jobRow
       /\ Refresh(runStatus, [jobStatus EXCEPT ![j] = AnsweredStatus(j, p, leaseStatus')])
  /\ UNCHANGED <<groupPhase, leaseJob, checking>>

-------------------------------------------------------------------------------
(* The verification loop *)

\* Fault: only the candidates of running runs are looked at.
UnjudgedOfRunning(i) ==
  verdict[attempts[i]] = "pending" /\ runStatus[RunOf(leaseJob[attempts[i]])] = "running"
Unjudged(i) == verdict[attempts[i]] = "pending" /\ jobStatus[leaseJob[attempts[i]]] # "cancelled"

\* pending(): the oldest attempt without verdict.  Verification then runs outside any transaction.
Pick(c, i) ==
  /\ checking[c] = NoLease
  /\ Unjudged(i) /\ \A k \in DOMAIN attempts : Unjudged(k) => i <= k
  /\ checking' = [checking EXCEPT ![c] = attempts[i]]
  /\ UNCHANGED <<runVars, jobVars, leaseVars, proofVars>>

\* The process stops, or the check ends without a verdict to store; the attempt is picked again.
Abandon(c) ==
  /\ checking[c] # NoLease
  /\ checking' = [checking EXCEPT ![c] = NoLease]
  /\ UNCHANGED <<runVars, jobVars, leaseVars, proofVars>>

\* Faults: the outcome is stored as it is; a proof does not lift an error; an error unsolves.
JudgedRaw(status, v) == IF v \in {"verified", "verifier_error"} THEN v ELSE status
JudgedErrorStays(status, v) ==
  CASE v = "verified" /\ status \in {"running", "exhausted"} -> "solved"
    [] v = "verifier_error" /\ status = "running" -> "error"
    [] OTHER -> status
JudgedUnsolves(status, v) ==
  CASE v = "verified" -> "solved" [] v = "verifier_error" -> "error" [] OTHER -> status

\* The run's status after a verdict: verified wins over every other state.
Judged(status, v) ==
  CASE v = "verified" /\ status \in {"running", "exhausted", "error"} -> "solved"
    [] v = "verifier_error" /\ status = "running" -> "error"
    [] OTHER -> status

\* Fault: one repair too many.
RepairsOnceMore(j, v) ==
  v = "rejected" /\ runStatus[RunOf(j)] = "running" /\ jobRow[j].depth <= MaxRepairs[RunOf(j)]

Repairs(j, v) == v = "rejected" /\ runStatus[RunOf(j)] = "running" /\ jobRow[j].depth < MaxRepairs[RunOf(j)]

\* The child of j, whose attempt a was rejected, inherits everything but depth and parent.
RepairRow(j, a) == [jobRow[j] EXCEPT !.kind = "generate", !.depth = @ + 1, !.parent = a]

\* verified() for an attempt that has no verification yet (INSERT OR IGNORE).
Verified(c, v, new) ==
  LET a == checking[c]
      j == leaseJob[a]
      r == RunOf(j)
  IN /\ a # NoLease /\ verdict[a] = "pending"
     /\ IF Repairs(j, v) THEN \E k \in Job : new = {k} /\ NextRows(new, Job, JobRows) ELSE new = {}
     /\ verdict' = [verdict EXCEPT ![a] = v]
     /\ checking' = [checking EXCEPT ![c] = NoLease]
     /\ jobRow' = [k \in Job |-> IF k \in new THEN RepairRow(j, a) ELSE jobRow[k]]
     /\ Refresh([runStatus EXCEPT ![r] = Judged(@, v)],
                [k \in Job |-> IF k \in new THEN "queued" ELSE IF k = j THEN "done" ELSE jobStatus[k]])
     /\ groupPhase' = [g \in GroupRun |-> IF g = r /\ v = "verified" /\ groupPhase[g] # "none"
                                          THEN "stopped" ELSE groupPhase[g]]
     /\ UNCHANGED <<leaseVars, attempts>>

\* Faults of a second verdict: it replaces the first; it queues another repair.
SecondReplaces(c) ==
  /\ checking[c] # NoLease /\ verdict[checking[c]] # "pending"
  /\ \E v \in Outcome : verdict' = [verdict EXCEPT ![checking[c]] = v]
  /\ checking' = [checking EXCEPT ![c] = NoLease]
  /\ UNCHANGED <<runVars, jobVars, leaseVars, attempts>>
SecondRepairs(c) ==
  /\ checking[c] # NoLease /\ verdict[checking[c]] # "pending"
  /\ Repairs(leaseJob[checking[c]], "rejected")
  /\ \E k \in Job : InsertJobs({k}, RepairRow(leaseJob[checking[c]], checking[c]))
  /\ checking' = [checking EXCEPT ![c] = NoLease]
  /\ UNCHANGED <<runVars, leaseVars, proofVars>>

\* verified() for an attempt another loop has judged meanwhile: the first verdict stays.
VerifiedAgain(c) ==
  /\ checking[c] # NoLease /\ verdict[checking[c]] # "pending"
  /\ checking' = [checking EXCEPT ![c] = NoLease]
  /\ UNCHANGED <<runVars, jobVars, leaseVars, proofVars>>

-------------------------------------------------------------------------------
Init ==
  /\ runStatus = [r \in Run |-> "absent"]
  /\ jobRow = [j \in Job |-> NoJob]
  /\ jobStatus = [j \in Job |-> "absent"]
  /\ leaseJob = [l \in Lease |-> 0]
  /\ leaseStatus = [l \in Lease |-> "absent"]
  /\ leaseResult = [l \in Lease |-> "none"]
  /\ ttl = [l \in Lease |-> 0]
  /\ attempts = <<>>
  /\ verdict = [l \in Lease |-> "none"]
  /\ checking = [c \in Checker |-> NoLease]
  /\ groupPhase = [g \in GroupRun |-> "none"]

ClaimAny(kinds) == \E j \in Claimable(kinds), l \in Lease \ LeaseRows : Claim(kinds, j, l)

\* Bound: rejections cost nothing, so a behaviour may hold any number of them.
Within(p) == p = "rejected" => Cardinality({k \in Lease : leaseStatus[k] = "rejected"}) < MaxRejections
Answer(l) == \E p \in Payload : Within(p) /\ Result(l, p)

Check(c) == \E v \in Outcome, new \in SUBSET Job : Verified(c, v, new)
PickNext(c) == \E i \in DOMAIN attempts : Pick(c, i)

Requests ==
  \/ \E r \in Run, new \in SUBSET Job : Submit(r, new)
  \/ \E r \in Run, j \in Job : EnqueueTask(r, j)
  \/ \E g \in GroupRun, j \in Job, kind \in Kind : \E cost \in 1..MaxAssignments[g] :
       EnqueueGroupJob(g, j, kind, cost)

Groups ==
  \/ \E g \in GroupRun : StartLoop(g) \/ DeadlinePasses(g) \/ StopGroup(g)
  \/ \E c \in Checker : StopUncheckedTarget(c)

Workers ==
  \/ TimePasses \/ Expire
  \/ \E kinds \in SUBSET Kind : ClaimAny(kinds)
  \/ \E l \in Lease : Heartbeat(l) \/ Answer(l)

Loops == \E c \in Checker : PickNext(c) \/ Abandon(c) \/ Check(c) \/ VerifiedAgain(c)

Next == Requests \/ Groups \/ Workers \/ Loops

Spec == Init /\ [][Next]_vars

\* The scheduler thread ticks for ever (expire, stop what must stop, pick); a worker able to
\* run every kind keeps polling; a worker that keeps its lease alive answers in the end; and
\* a coordinator does not restart for ever before a check ends.
Fairness ==
  /\ WF_vars(Expire)
  /\ \A g \in GroupRun : WF_vars(groupPhase[g] = "overdue" /\ StopGroup(g))
  /\ WF_vars(ClaimAny(Kind))
  /\ \A l \in Lease : WF_vars(Answer(l))
  /\ \A c \in Checker : WF_vars(PickNext(c)) /\ SF_vars(Check(c)) /\ WF_vars(VerifiedAgain(c))

FairSpec == Spec /\ Fairness

-------------------------------------------------------------------------------
(* Safety *)

LeasedJob(l) == leaseJob[l]
Attempted(l) == verdict[l] # "none"

\* A job is assigned exactly when one active lease, and only one, holds it: no job is worked
\* on under two leases and none is lost between them (claim, _expire, result).
SoleLease ==
  /\ \A l \in Lease : leaseStatus[l] = "active" => jobStatus[LeasedJob(l)] = "assigned"
  /\ \A l, m \in Lease :
       leaseStatus[l] = "active" /\ leaseStatus[m] = "active" /\ leaseJob[l] = leaseJob[m] => l = m
  /\ \A j \in Job : jobStatus[j] = "assigned" =>
       \E l \in Lease : leaseStatus[l] = "active" /\ leaseJob[l] = j

\* A job yields at most one candidate, whatever answers arrive late; the job is verifying while
\* the candidate has no verdict (or was cancelled unchecked) and done once it has one.
OneCandidate ==
  /\ \A l, m \in Lease : Attempted(l) /\ Attempted(m) /\ leaseJob[l] = leaseJob[m] => l = m
  /\ \A l \in Lease : verdict[l] = "pending" => jobStatus[LeasedJob(l)] \in {"verifying", "cancelled"}
  /\ \A l \in Lease : verdict[l] \in Outcome => jobStatus[LeasedJob(l)] = "done"
  /\ \A j \in Job : jobStatus[j] = "verifying" =>
       \E l \in Lease : verdict[l] = "pending" /\ leaseJob[l] = j

Proved(r) == \E l \in Lease : verdict[l] = "verified" /\ RunOf(leaseJob[l]) = r

\* protocol/v1.md: whatever the delivery order, a run is solved exactly when one of its
\* candidates was verified; verified() settles late proofs of failed and exhausted runs too.
SolvedIffProved == \A r \in Run : runStatus[r] = "solved" <=> Proved(r)

\* No queued job is left behind by the end of its run or of its group: it would never be
\* handed out and the run would never end (_refresh, stop_group_jobs, _retry).
QueueServed ==
  \A j \in Job : jobStatus[j] = "queued" => runStatus[RunOf(j)] = "running" /\ ~ Stopped(j)

HasLive(r) == \E j \in Job : RunOf(j) = r /\ jobStatus[j] \in Live

\* A run is running while, and only while, one of its jobs may still change its outcome.
RunningWhileLive ==
  \A r \in Run : /\ runStatus[r] = "running" => HasLive(r)
                 /\ runStatus[r] = "exhausted" => ~ HasLive(r)

\* A job never spends more than max_assignments leases; rejections are free (_retry).
WithinBudget == \A j \in JobRows : Spent(j, leaseStatus) <= jobRow[j].max

\* A repair has one rejected parent attempt in its run, of which it is the only child,
\* one level up, and no chain is longer than max_repairs.
RepairChains ==
  \A j \in JobRows :
    LET p == jobRow[j].parent IN
    /\ jobRow[j].depth <= MaxRepairs[RunOf(j)]
    /\ jobRow[j].depth = 0 <=> p = NoLease
    /\ p # NoLease => /\ verdict[p] = "rejected"
                      /\ RunOf(leaseJob[p]) = RunOf(j)
                      /\ jobRow[j].depth = jobRow[leaseJob[p]].depth + 1
                      /\ \A k \in JobRows : jobRow[k].parent = p => k = j

GenerateJobs(r)   == {j \in JobRows : RunOf(j) = r /\ jobRow[j].kind = "generate"}
GenerateLeases(r) == {l \in LeaseRows : leaseStatus[l] # "rejected" /\ leaseJob[l] \in GenerateJobs(r)}

\* protocol/v1.md: A initial jobs make at most A*(1+max_repairs) jobs and
\* A*(1+max_repairs)*max_assignments budgeted assignments, whatever is retried, rejected or late.
ProtocolBound ==
  /\ WithinBudget
  /\ \A r \in Run \ GroupRun :
       LET A == Cardinality({j \in GenerateJobs(r) : jobRow[j].depth = 0}) IN
       /\ Cardinality(GenerateJobs(r)) <= A * (1 + MaxRepairs[r])
       /\ Cardinality(GenerateLeases(r)) <= A * (1 + MaxRepairs[r]) * MaxAssignments[r]

(* The inductive invariant: the safety invariants and what they rest on *)

\* What ties the rows of different tables together: a row only points at rows that exist.
RowInv ==
  /\ \A j \in Job : jobStatus[j] # "absent" =>
       jobRow[j] \in JobRow /\ runStatus[RunOf(j)] # "absent"
  /\ \A l \in Lease : leaseStatus[l] # "absent" =>
       leaseJob[l] \in Job /\ jobStatus[leaseJob[l]] # "absent"
  /\ \A l \in Lease : verdict[l] # "none" => leaseStatus[l] = "completed"
  /\ \A l \in Lease : leaseResult[l] # "none" => leaseStatus[l] \in {"completed", "rejected"}
  /\ \A i \in DOMAIN attempts : verdict[attempts[i]] # "none"
  /\ \A c \in Checker : checking[c] # NoLease => verdict[checking[c]] # "none"

\* No loop checks the target of a group stopped without checking it.
CheckedLives ==
  \A c \in Checker : checking[c] # NoLease => jobStatus[leaseJob[checking[c]]] # "cancelled"

\* Each part needs the others to be preserved by every step.
IInv ==
  /\ TypeOK /\ RowInv
  /\ SoleLease /\ OneCandidate
  /\ QueueServed /\ RunningWhileLive
  /\ SolvedIffProved

(* Action properties *)

\* What is recorded stays: the first result of a lease, the first verdict of an attempt,
\* the order of attempts, a job's row, and the state of a job that has ended.
RecordsKept ==
  /\ \A l \in Lease : leaseResult[l] # "none" => leaseResult'[l] = leaseResult[l]
  /\ \A l \in Lease : verdict[l] \in Outcome => verdict'[l] = verdict[l]
  /\ \A i \in DOMAIN attempts : attempts'[i] = attempts[i]
  /\ \A j \in Job : jobStatus[j] # "absent" => jobStatus'[j] # "absent"
  /\ \A j \in Job : jobStatus[j] \in Closed => jobStatus'[j] = jobStatus[j]
RecordsStand == [][RecordsKept]_vars

\* The transition table of docs/ticket-08 holds of every run.
Lifecycle == INSTANCE RunLifecycle WITH
  Reopenable <- GroupRun, status <- runStatus, proved <- {r \in Run : Proved(r)}
RunPromise == Lifecycle!Spec

(* Liveness *)

\* Every candidate is judged, unless it is the target a stopping group could not afford to check.
EveryCandidateJudged ==
  \A l \in Lease : verdict[l] = "pending" ~>
    \/ verdict[l] # "pending"
    \/ jobStatus[leaseJob[l]] = "cancelled" /\ Stopped(leaseJob[l])

\* A run does not run for ever: leases expire, retries and repairs are bounded, and an
\* overdue group is stopped.
RunsEnd == \A r \in Run : runStatus[r] = "running" ~> runStatus[r] # "running"

===============================================================================
