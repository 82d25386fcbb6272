----------------------------- MODULE JobQueueBounds -----------------------------
(***************************************************************************)
(* The limits of protocol/v1.md hold of JobQueue for every instance: how   *)
(* many leases a job spends, how repairs descend from initial jobs, and    *)
(* with both, how much work a submission can ever cause.                   *)
(***************************************************************************)
EXTENDS JobQueueProofs, FiniteSetTheorems

\* The leases spent on a job: rejections are free.
SpentOn(j, status) == {l \in Lease : leaseJob[l] = j /\ status[l] \notin {"absent", "rejected"}}

(* The inductive invariant *)

\* A queued job has a lease left to spend.
Budget ==
  /\ IsFiniteSet(LeaseRows)
  /\ \A j \in JobRows : jobRow[j].max >= 1
  /\ WithinBudget
  /\ \A j \in JobRows : jobStatus[j] = "queued" => Spent(j, leaseStatus) < jobRow[j].max

Generators == {j \in JobRows : jobRow[j].kind = "generate"}

\* root names for every generating job the initial job it descends from; a family has one job of
\* each depth.
Rooted(root) ==
  /\ \A j \in Generators : /\ root[j] \in Generators /\ RunOf(root[j]) = RunOf(j)
                           /\ jobRow[root[j]].depth = 0
  /\ \A j \in Generators : jobRow[j].parent # NoLease => root[j] = root[leaseJob[jobRow[j].parent]]
  /\ \A j, k \in Generators : root[j] = root[k] /\ jobRow[j].depth = jobRow[k].depth => j = k

Families ==
  /\ IsFiniteSet(JobRows)
  /\ RepairChains
  /\ \A j \in JobRows : jobRow[j].depth > 0 => jobRow[j].kind = "generate"
  /\ \A j \in JobRows : RunOf(j) \notin GroupRun => jobRow[j].max = MaxAssignments[RunOf(j)]
  /\ \A l \in Lease : verdict[l] # "none" => jobRow[leaseJob[l]].kind = "generate"
  /\ \E root \in [Job -> Job] : Rooted(root)

BoundInv == Budget /\ Families

-------------------------------------------------------------------------------
(* What the invariant says of the protocol's limits *)

\* Rejected leases aside, the leases spent on a job are finitely many.

LEMMA SpentFacts ==
  ASSUME IsFiniteSet(LeaseRows), NEW j, NEW status,
         \A l \in Lease : status[l] \notin {"absent", "rejected"} => leaseStatus[l] # "absent"
  PROVE  /\ IsFiniteSet(SpentOn(j, status)) /\ Spent(j, status) = Cardinality(SpentOn(j, status))
         /\ Spent(j, status) \in Nat
<1>1. SpentOn(j, status) \in SUBSET LeaseRows
  BY DEF SpentOn, LeaseRows
<1>2. IsFiniteSet(SpentOn(j, status)) /\ Cardinality(SpentOn(j, status)) \in Nat
  BY <1>1, FS_Subset, FS_CardinalityType
<1>3. QED
  BY <1>2 DEF Spent, SpentOn

\* An injection bounds a set's size.
LEMMA Injected ==
  ASSUME NEW S, NEW T, IsFiniteSet(T), NEW f \in [S -> T],
         \A x, y \in S : f[x] = f[y] => x = y
  PROVE  IsFiniteSet(S) /\ Cardinality(S) <= Cardinality(T)
<1>1. f \in Injection(S, T)
  BY DEF Injection, IsInjective
<1>2. QED
  BY <1>1, FS_Injection

\* The jobs of a run are told apart by their root and their depth.
LEMMA FamilySize ==
  ASSUME IInv, Families, NEW r \in Run
  PROVE  LET roots == {j \in GenerateJobs(r) : jobRow[j].depth = 0} IN
         /\ IsFiniteSet(GenerateJobs(r)) /\ IsFiniteSet(roots)
         /\ Cardinality(GenerateJobs(r)) <= Cardinality(roots) * (1 + MaxRepairs[r])
<1> DEFINE roots == {j \in GenerateJobs(r) : jobRow[j].depth = 0}
           depths == 0..MaxRepairs[r]
<1>1. PICK root \in [Job -> Job] : Rooted(root)
  BY DEF Families
<1>2. MaxRepairs[r] \in Nat
  BY LimitAssumption
<1>3. IsFiniteSet(GenerateJobs(r)) /\ IsFiniteSet(roots)
  <2>1. GenerateJobs(r) \in SUBSET JobRows /\ roots \in SUBSET JobRows
    BY DEF GenerateJobs
  <2>2. QED
    BY <2>1, FS_Subset DEF Families
<1>4. IsFiniteSet(depths) /\ Cardinality(depths) = 1 + MaxRepairs[r]
  BY <1>2, FS_Interval
<1>5. /\ IsFiniteSet(roots \X depths)
      /\ Cardinality(roots \X depths) = Cardinality(roots) * (1 + MaxRepairs[r])
  BY <1>3, <1>4, FS_Product
<1> DEFINE place == [j \in GenerateJobs(r) |-> <<root[j], jobRow[j].depth>>]
<1>6. \A j \in GenerateJobs(r) : j \in Generators /\ root[j] \in roots /\ jobRow[j].depth \in depths
  <2>1. SUFFICES ASSUME NEW j \in GenerateJobs(r)
                 PROVE  j \in Generators /\ root[j] \in roots /\ jobRow[j].depth \in depths
    OBVIOUS
  <2>2. j \in JobRows /\ j \in Generators /\ RunOf(j) = r /\ jobRow[j] \in JobRow
    BY DEF GenerateJobs, Generators, JobRows, IInv, RowInv
  <2>3. jobRow[j].depth \in Nat /\ jobRow[j].depth <= MaxRepairs[r]
    BY <2>2 DEF JobRow, Families, RepairChains
  <2>4. root[j] \in Generators /\ RunOf(root[j]) = r /\ jobRow[root[j]].depth = 0
    BY <1>1, <2>2 DEF Rooted
  <2>5. QED
    BY <1>2, <2>2, <2>3, <2>4 DEF GenerateJobs, Generators
<1>7. place \in [GenerateJobs(r) -> roots \X depths]
  BY <1>6
<1>8. \A j, k \in GenerateJobs(r) : place[j] = place[k] => j = k
  BY <1>1, <1>6 DEF Rooted
<1> DEFINE jobs == GenerateJobs(r)
           places == roots \X depths
<1> HIDE DEF place, jobs, places
<1>9. /\ IsFiniteSet(places) /\ place \in [jobs -> places]
      /\ \A j, k \in jobs : place[j] = place[k] => j = k
  BY <1>5, <1>7, <1>8 DEF jobs, places
<1>10. Cardinality(jobs) <= Cardinality(places)
  BY <1>9, Injected
<1>11. QED
  BY <1>3, <1>5, <1>10 DEF jobs, places

\* A job's leases are told apart by numbers up to its limit.
LEMMA Numbered ==
  ASSUME IInv, Budget, NEW j \in JobRows
  PROVE  \E f \in [SpentOn(j, leaseStatus) -> 1..jobRow[j].max] :
           \A x, y \in SpentOn(j, leaseStatus) : f[x] = f[y] => x = y
<1> DEFINE S == SpentOn(j, leaseStatus)
           n == Cardinality(S)
<1>1. IsFiniteSet(S) /\ n \in Nat /\ n <= jobRow[j].max
  BY SpentFacts DEF Budget, WithinBudget
<1>2. PICK b \in Bijection(1..n, S) : TRUE
  BY <1>1, FS_CardinalityType DEF ExistsBijection
<1>3. b \in [1..n -> S] /\ \A x \in S : \E i \in 1..n : b[i] = x
  BY <1>2 DEF Bijection, Surjection
<1> DEFINE f == [x \in S |-> CHOOSE i \in 1..n : b[i] = x]
<1>4. \A x \in S : f[x] \in 1..n /\ b[f[x]] = x
  BY <1>3
<1>5. jobRow[j].max \in Nat
  BY DEF IInv, RowInv, JobRows, JobRow
<1> HIDE DEF f, n, S
<1>6. f \in [S -> 1..jobRow[j].max] /\ \A x, y \in S : f[x] = f[y] => x = y
  BY <1>1, <1>4, <1>5 DEF f
<1>7. QED
  BY <1>6 DEF S

\* Multiplication keeps the order.
LEMMA MoreTimes == \A a, b, c \in Nat : a <= b => a * c <= b * c
  OBVIOUS

\* The leases of a run are told apart by their job and their number.
LEMMA LeasesSize ==
  ASSUME IInv, BoundInv, NEW r \in Run \ GroupRun, IsFiniteSet(GenerateJobs(r))
  PROVE  /\ IsFiniteSet(GenerateLeases(r))
         /\ Cardinality(GenerateLeases(r)) <= Cardinality(GenerateJobs(r)) * MaxAssignments[r]
<1> DEFINE jobs == GenerateJobs(r)
           leases == GenerateLeases(r)
           numbers == 1..MaxAssignments[r]
           Numbers(j, f) == /\ f \in [SpentOn(j, leaseStatus) -> numbers]
                            /\ \A x, y \in SpentOn(j, leaseStatus) : f[x] = f[y] => x = y
           number == [j \in jobs |-> CHOOSE f : Numbers(j, f)]
           places == jobs \X numbers
           place == [l \in leases |-> <<leaseJob[l], number[leaseJob[l]][l]>>]
<1>1. MaxAssignments[r] \in Nat
  BY LimitAssumption
<1>2. \A j \in jobs : Numbers(j, number[j])
  <2>1. SUFFICES ASSUME NEW j \in jobs PROVE \E f : Numbers(j, f)
    OBVIOUS
  <2>2. j \in JobRows /\ jobRow[j].max = MaxAssignments[r]
    BY DEF GenerateJobs, BoundInv, Families
  <2>3. QED
    BY <2>2, Numbered DEF BoundInv
<1>3. \A l \in leases : leaseJob[l] \in jobs /\ l \in SpentOn(leaseJob[l], leaseStatus)
  BY DEF GenerateLeases, LeaseRows, SpentOn
<1>4. IsFiniteSet(numbers) /\ Cardinality(numbers) = MaxAssignments[r]
  BY <1>1, FS_Interval
<1>5. IsFiniteSet(places) /\ Cardinality(places) = Cardinality(jobs) * MaxAssignments[r]
  BY <1>4, FS_Product
<1> HIDE DEF number
<1>6. place \in [leases -> places]
  BY <1>2, <1>3
<1>7. \A l, m \in leases : place[l] = place[m] => l = m
  BY <1>2, <1>3
<1> HIDE DEF place, leases, places
<1>8. IsFiniteSet(leases) /\ Cardinality(leases) <= Cardinality(places)
  BY <1>5, <1>6, <1>7, Injected
<1>9. QED
  BY <1>5, <1>8 DEF leases

\* Put together: the invariant implies both properties.
LEMMA BoundsImply == ASSUME IInv, BoundInv PROVE RepairChains /\ ProtocolBound
<1>1. ASSUME NEW r \in Run \ GroupRun
      PROVE  LET A == Cardinality({j \in GenerateJobs(r) : jobRow[j].depth = 0}) IN
             /\ Cardinality(GenerateJobs(r)) <= A * (1 + MaxRepairs[r])
             /\ Cardinality(GenerateLeases(r)) <= A * (1 + MaxRepairs[r]) * MaxAssignments[r]
  <2> DEFINE A == Cardinality({j \in GenerateJobs(r) : jobRow[j].depth = 0})
             n == Cardinality(GenerateJobs(r))
             b == A * (1 + MaxRepairs[r])
  <2>1. /\ IsFiniteSet(GenerateJobs(r)) /\ IsFiniteSet({j \in GenerateJobs(r) : jobRow[j].depth = 0})
        /\ n <= b
    BY FamilySize DEF BoundInv
  <2>2. /\ n \in Nat /\ A \in Nat /\ MaxRepairs[r] \in Nat /\ MaxAssignments[r] \in Nat
    BY <2>1, FS_CardinalityType, LimitAssumption
  <2>3. b \in Nat
    <3> HIDE DEF A
    <3>1. QED
      BY <2>2
  <2>4. Cardinality(GenerateLeases(r)) <= n * MaxAssignments[r]
        /\ Cardinality(GenerateLeases(r)) \in Nat
    BY <2>1, LeasesSize, FS_CardinalityType
  <2> HIDE DEF n, b
  <2>5. n * MaxAssignments[r] <= b * MaxAssignments[r] /\ n * MaxAssignments[r] \in Nat
        /\ b * MaxAssignments[r] \in Nat
    BY <2>1, <2>2, <2>3, MoreTimes
  <2>6. Cardinality(GenerateLeases(r)) <= b * MaxAssignments[r]
    BY <2>4, <2>5
  <2>7. QED
    BY <2>1, <2>6 DEF n, b
<1>2. QED
  BY <1>1 DEF ProtocolBound, BoundInv, Budget, Families

-------------------------------------------------------------------------------
(* The budget of leases *)

LEMMA NoneSpent ==
  ASSUME RowInv, NEW j \in Job, jobStatus[j] = "absent" PROVE Spent(j, leaseStatus) = 0
<1>1. SpentOn(j, leaseStatus) = {}
  BY DEF SpentOn, RowInv
<1>2. Cardinality({}) = 0
  BY FS_EmptySet
<1>3. QED
  BY <1>1, <1>2 DEF Spent, SpentOn

\* A step that leaves the leases alone queues only new jobs.
LEMMA BudgetKeep ==
  ASSUME IInv, Budget, UNCHANGED <<leaseJob, leaseStatus>>,
         \A j \in JobRows : jobRow'[j] = jobRow[j] /\ (jobStatus'[j] = "queued" => jobStatus[j] = "queued"),
         \A j \in Job \ JobRows : jobStatus'[j] # "absent" => jobRow'[j].max \in Nat \ {0}
  PROVE  Budget'
<1>1. \A j \in Job : Spent(j, leaseStatus)' = Spent(j, leaseStatus)
  BY DEF Spent
<1>2. \A j \in Job \ JobRows : Spent(j, leaseStatus) = 0
  BY NoneSpent DEF IInv, JobRows
<1>3. \A j \in JobRows' : j \in Job /\ jobStatus'[j] # "absent"
  BY DEF JobRows
<1>4. \A j \in Job \ JobRows : jobStatus'[j] # "absent" =>
        jobRow'[j].max >= 1 /\ Spent(j, leaseStatus) < jobRow'[j].max
  BY <1>2
<1>5. LeaseRows' = LeaseRows
  BY DEF LeaseRows
<1>6. /\ \A j \in JobRows' : jobRow'[j].max >= 1 /\ Spent(j, leaseStatus)' <= jobRow'[j].max
      /\ \A j \in JobRows' : jobStatus'[j] = "queued" => Spent(j, leaseStatus)' < jobRow'[j].max
  <2>1. SUFFICES ASSUME NEW j \in JobRows'
                 PROVE  /\ jobRow'[j].max >= 1 /\ Spent(j, leaseStatus) <= jobRow'[j].max
                        /\ jobStatus'[j] = "queued" => Spent(j, leaseStatus) < jobRow'[j].max
    BY <1>1, <1>3
  <2>2. CASE j \in JobRows
    BY <2>2 DEF Budget, WithinBudget
  <2>3. CASE j \notin JobRows
    BY <1>2, <1>3, <1>4, <2>3
  <2>4. QED
    BY <2>2, <2>3
<1>7. QED
  BY <1>5, <1>6 DEF Budget, WithinBudget

\* The sweep spends nothing, and queues only what has a lease left.
LEMMA SweptBudget ==
  ASSUME IInv, Budget
  PROVE  /\ \A j \in Job : SpentOn(j, SweptLeases) = SpentOn(j, leaseStatus)
                           /\ Spent(j, SweptLeases) = Spent(j, leaseStatus)
         /\ \A j \in JobRows : SweptJobs[j] = "queued" => Spent(j, leaseStatus) < jobRow[j].max
<1>1. \A l \in Lease : SweptLeases[l] \in {"absent", "rejected"} <=> leaseStatus[l] \in {"absent", "rejected"}
  BY SweepFacts DEF IInv
<1>2. \A j \in Job : SpentOn(j, SweptLeases) = SpentOn(j, leaseStatus)
  BY <1>1 DEF SpentOn
<1>3. \A j \in Job : Spent(j, SweptLeases) = Spent(j, leaseStatus)
  BY <1>2 DEF Spent, SpentOn
<1>4. ASSUME NEW j \in JobRows, SweptJobs[j] = "queued" PROVE Spent(j, leaseStatus) < jobRow[j].max
  <2>1. j \in Job /\ RetriedJobs[j] = "queued"
    BY <1>4 DEF SweptJobs, CancelQueued, JobRows
  <2>2. jobStatus[j] = "queued" \/ Spent(j, SweptLeases) < jobRow[j].max
    BY <2>1 DEF RetriedJobs, RetryStatus
  <2>3. QED
    BY <1>3, <1>4, <2>1, <2>2 DEF Budget
<1>5. QED
  BY <1>2, <1>3, <1>4

LEMMA BudgetExpire == ASSUME IInv, Budget, Expire PROVE Budget'
<1>1. /\ leaseStatus' = SweptLeases /\ jobStatus' = SweptJobs /\ UNCHANGED <<jobRow, leaseJob>>
  BY DEF Expire
<1>2. JobRows' = JobRows
  BY <1>1, SweepFacts DEF JobRows, IInv
<1>3. LeaseRows' = LeaseRows
  BY <1>1, SweepFacts DEF LeaseRows, IInv
<1>4. \A j \in Job : Spent(j, leaseStatus)' = Spent(j, leaseStatus)
  <2>1. \A j \in Job : Spent(j, leaseStatus)' = Spent(j, SweptLeases)
    BY <1>1 DEF Spent
  <2>2. QED
    BY <2>1, SweptBudget
<1>5. \A j \in JobRows : j \in Job
  BY DEF JobRows
<1>6. QED
  BY <1>1, <1>2, <1>3, <1>4, <1>5, SweptBudget DEF Budget, WithinBudget

LEMMA BudgetClaim ==
  ASSUME IInv, Budget, NEW kinds \in SUBSET Kind, NEW j \in Job, NEW l \in Lease, Claim(kinds, j, l)
  PROVE  Budget'
<1>1. /\ leaseStatus[l] = "absent" /\ SweptJobs[j] = "queued" /\ jobRow' = jobRow
      /\ leaseJob' = [leaseJob EXCEPT ![l] = j] /\ jobStatus' = [SweptJobs EXCEPT ![j] = "assigned"]
      /\ leaseStatus' = [SweptLeases EXCEPT ![l] = "active"]
  BY DEF Claim, Claimable, NextRows, LeaseRows
<1>2. /\ leaseJob'[l] = j /\ leaseStatus'[l] = "active" /\ jobStatus'[j] = "assigned"
      /\ \A m \in Lease \ {l} : leaseJob'[m] = leaseJob[m] /\ leaseStatus'[m] = SweptLeases[m]
      /\ \A k \in Job \ {j} : jobStatus'[k] = SweptJobs[k]
  BY <1>1, SweepFacts DEF IInv, TypeOK
<1>3. JobRows' = JobRows /\ j \in JobRows
  BY <1>1, <1>2, SweepFacts DEF JobRows, IInv
<1>4. LeaseRows' = LeaseRows \cup {l} /\ IsFiniteSet(LeaseRows')
  <2>1. \A m \in Lease \ {l} : leaseStatus'[m] # "absent" <=> leaseStatus[m] # "absent"
    BY <1>2, SweepFacts DEF IInv
  <2>2. LeaseRows' = LeaseRows \cup {l}
    BY <1>2, <2>1 DEF LeaseRows
  <2>3. QED
    BY <2>2, FS_AddElement DEF Budget
<1>5. \A k \in Job \ {j} : Spent(k, leaseStatus)' = Spent(k, leaseStatus)
  <2>1. SUFFICES ASSUME NEW k \in Job \ {j}
                 PROVE  SpentOn(k, leaseStatus)' = SpentOn(k, SweptLeases)
    BY SweptBudget DEF Spent, SpentOn
  <2>2. SweptLeases[l] = "absent"
    BY <1>1, SweepFacts DEF IInv
  <2>3. QED
    BY <1>2, <2>2 DEF SpentOn
<1>6. Spent(j, leaseStatus)' <= jobRow[j].max
  <2>1. SpentOn(j, leaseStatus)' = SpentOn(j, SweptLeases) \cup {l} /\ l \notin SpentOn(j, SweptLeases)
    <3>1. SweptLeases[l] = "absent"
      BY <1>1, SweepFacts DEF IInv
    <3>2. QED
      BY <1>2, <3>1 DEF SpentOn
  <2>2. SpentOn(j, SweptLeases) = SpentOn(j, leaseStatus)
    BY SweptBudget
  <2>3. /\ IsFiniteSet(SpentOn(j, leaseStatus)) /\ Spent(j, leaseStatus) = Cardinality(SpentOn(j, leaseStatus))
        /\ Spent(j, leaseStatus) \in Nat
    BY SpentFacts DEF Budget
  <2>4. Cardinality(SpentOn(j, leaseStatus) \cup {l}) = Spent(j, leaseStatus) + 1
    BY <2>1, <2>2, <2>3, FS_AddElement
  <2>5. Spent(j, leaseStatus)' = Cardinality(SpentOn(j, leaseStatus)')
    BY DEF Spent, SpentOn
  <2>6. Spent(j, leaseStatus) < jobRow[j].max /\ jobRow[j].max \in Nat
    BY <1>1, <1>3, SweptBudget DEF JobRows, IInv, RowInv, JobRow
  <2>7. QED
    BY <2>1, <2>2, <2>3, <2>4, <2>5, <2>6
<1>7. /\ \A k \in JobRows : jobRow[k].max >= 1 /\ Spent(k, leaseStatus)' <= jobRow[k].max
      /\ \A k \in JobRows : jobStatus'[k] = "queued" => Spent(k, leaseStatus)' < jobRow[k].max
  <2>1. SUFFICES ASSUME NEW k \in JobRows
                 PROVE  /\ jobRow[k].max >= 1 /\ Spent(k, leaseStatus)' <= jobRow[k].max
                        /\ jobStatus'[k] = "queued" => Spent(k, leaseStatus)' < jobRow[k].max
    OBVIOUS
  <2>2. k \in Job
    BY DEF JobRows
  <2>3. CASE k = j
    BY <1>2, <1>6, <2>3 DEF Budget
  <2>4. CASE k # j
    BY <1>2, <1>5, <2>2, <2>4, SweptBudget DEF Budget, WithinBudget
  <2>5. QED
    BY <2>3, <2>4
<1>8. QED
  BY <1>1, <1>3, <1>4, <1>7 DEF Budget, WithinBudget

LEMMA BudgetResult ==
  ASSUME IInv, Budget, NEW l \in Lease, NEW p \in Payload, Result(l, p)
  PROVE  Budget'
<1> DEFINE j == leaseJob[l]
           js == [jobStatus EXCEPT ![j] = AnsweredStatus(j, p, leaseStatus')]
<1>1. /\ leaseStatus[l] = "active" /\ j \in Job /\ jobStatus[j] = "assigned"
      /\ UNCHANGED <<jobRow, leaseJob>> /\ Refresh(runStatus, js)
      /\ leaseStatus'[l] # "absent" /\ \A m \in Lease \ {l} : leaseStatus'[m] = leaseStatus[m]
  BY DEF Result, Holds, IInv, TypeOK, RowInv, SoleLease, LeasedJob
<1>2. AnsweredStatus(j, p, leaseStatus') \in {"verifying", "done", "failed", "queued", "cancelled"}
      /\ (AnsweredStatus(j, p, leaseStatus') = "queued" => Spent(j, leaseStatus') < jobRow[j].max)
  BY DEF AnsweredStatus, RetryStatus
<1>3. /\ js \in [Job -> JobStatus] /\ js[j] = AnsweredStatus(j, p, leaseStatus')
      /\ \A k \in Job \ {j} : js[k] = jobStatus[k]
  BY <1>1, <1>2 DEF IInv, TypeOK, JobStatus, Live, Closed
<1> HIDE DEF js
<1>4. \A k \in Job : jobStatus'[k] = js[k] \/ (js[k] = "queued" /\ jobStatus'[k] = "cancelled")
  <2>1. runStatus \in [Run -> RunStatus] /\ jobRow' \in [Job -> JobRow \cup {NoJob}]
    BY <1>1 DEF IInv, TypeOK
  <2>2. QED
    BY <1>1, <1>3, <2>1, RefreshWrite
<1>5. JobRows' = JobRows /\ LeaseRows' = LeaseRows
  BY <1>1, <1>2, <1>3, <1>4 DEF JobRows, LeaseRows
<1>6. \A k \in Job : Spent(k, leaseStatus)' = Spent(k, leaseStatus') /\ Spent(k, leaseStatus)' \in Nat
                     /\ Spent(k, leaseStatus)' <= Spent(k, leaseStatus)
  <2>1. SUFFICES ASSUME NEW k \in Job
                 PROVE  /\ Spent(k, leaseStatus)' = Spent(k, leaseStatus') /\ Spent(k, leaseStatus)' \in Nat
                        /\ Spent(k, leaseStatus)' <= Spent(k, leaseStatus)
    OBVIOUS
  <2>2. Spent(k, leaseStatus)' = Cardinality(SpentOn(k, leaseStatus)')
        /\ Spent(k, leaseStatus)' = Spent(k, leaseStatus')
    BY <1>1 DEF Spent, SpentOn
  <2>3. SpentOn(k, leaseStatus)' \in SUBSET SpentOn(k, leaseStatus)
    BY <1>1 DEF SpentOn
  <2>4. IsFiniteSet(SpentOn(k, leaseStatus)) /\ Spent(k, leaseStatus) = Cardinality(SpentOn(k, leaseStatus))
    BY SpentFacts DEF Budget
  <2>5. IsFiniteSet(SpentOn(k, leaseStatus)')
        /\ Cardinality(SpentOn(k, leaseStatus)') <= Cardinality(SpentOn(k, leaseStatus))
    BY <2>3, <2>4, FS_Subset
  <2>6. QED
    BY <2>2, <2>4, <2>5, FS_CardinalityType
<1>7. \A k \in JobRows : /\ k \in Job /\ Spent(k, leaseStatus) \in Nat /\ jobRow[k].max \in Nat
                         /\ jobRow[k].max >= 1 /\ Spent(k, leaseStatus) <= jobRow[k].max
                         /\ jobStatus[k] = "queued" => Spent(k, leaseStatus) < jobRow[k].max
  BY SpentFacts DEF Budget, WithinBudget, JobRows, IInv, RowInv, JobRow
<1>8. \A k \in JobRows : jobStatus'[k] = "queued" => Spent(k, leaseStatus)' < jobRow[k].max
  <2>1. SUFFICES ASSUME NEW k \in JobRows, js[k] = "queued" PROVE Spent(k, leaseStatus)' < jobRow[k].max
    BY <1>4, <1>7
  <2>2. CASE k = j
    BY <1>1, <1>2, <1>3, <1>6, <2>1, <2>2
  <2>3. CASE k # j
    BY <1>3, <1>6, <1>7, <2>1, <2>3
  <2>4. QED
    BY <2>2, <2>3
<1>9. \A k \in JobRows : Spent(k, leaseStatus)' <= jobRow[k].max
  BY <1>6, <1>7
<1>10. QED
  BY <1>1, <1>5, <1>7, <1>8, <1>9 DEF Budget, WithinBudget

-------------------------------------------------------------------------------
(* The families of repairs *)

\* An attempt that has a verdict belongs to a job of kind generate, and so does a repair's parent.
LEMMA FamilyFacts ==
  ASSUME IInv, Families
  PROVE  /\ \A l \in Lease : verdict[l] # "none" => leaseJob[l] \in Generators
         /\ \A j \in JobRows : /\ j \in Job /\ jobRow[j] \in JobRow
                               /\ jobRow[j].parent # NoLease =>
                                    /\ jobRow[j].parent \in Lease /\ verdict[jobRow[j].parent] = "rejected"
                                    /\ leaseJob[jobRow[j].parent] \in Generators
                                    /\ jobRow[j].depth > 0 /\ j \in Generators
<1>1. \A l \in Lease : verdict[l] # "none" => leaseJob[l] \in Generators
  BY DEF Families, Generators, JobRows, IInv, RowInv
<1>2. ASSUME NEW j \in JobRows
      PROVE  /\ j \in Job /\ jobRow[j] \in JobRow
             /\ jobRow[j].parent # NoLease =>
                  /\ jobRow[j].parent \in Lease /\ verdict[jobRow[j].parent] = "rejected"
                  /\ jobRow[j].depth > 0
  <2>1. j \in Job /\ jobRow[j] \in JobRow
    BY DEF JobRows, IInv, RowInv
  <2>2. jobRow[j].parent \in Lease \cup {NoLease} /\ jobRow[j].depth \in Nat
    BY <2>1 DEF JobRow
  <2>3. QED
    BY <2>1, <2>2 DEF Families, RepairChains
<1>3. \A j \in JobRows : jobRow[j].depth > 0 => j \in Generators
  BY DEF Families, Generators
<1>4. QED
  BY <1>1, <1>2, <1>3

\* Every step but a repair: the new jobs, if any, are initial ones and found their own family.
LEMMA FamiliesGrow ==
  ASSUME IInv, Families, NEW new \in SUBSET (Job \ JobRows), IsFiniteSet(new),
         JobRows' = JobRows \cup new,
         \A j \in JobRows : jobRow'[j] = jobRow[j],
         \A j \in new : /\ jobRow'[j].depth = 0 /\ jobRow'[j].parent = NoLease
                        /\ jobRow'[j].run \in Run
                        /\ jobRow'[j].run \notin GroupRun => jobRow'[j].max = MaxAssignments[jobRow'[j].run],
         \A l \in Lease : verdict[l] # "none" => leaseJob'[l] = leaseJob[l],
         \A l \in Lease : verdict[l] = "rejected" => verdict'[l] = "rejected",
         \A l \in Lease : verdict'[l] # "none" => /\ leaseJob'[l] \in JobRows
                                                  /\ jobRow[leaseJob'[l]].kind = "generate"
  PROVE  Families'
<1>1. IsFiniteSet(JobRows')
  BY FS_Union DEF Families
<1>2. RepairChains'
  <2>1. SUFFICES ASSUME NEW j \in JobRows'
                 PROVE  LET p == jobRow'[j].parent IN
                        /\ jobRow'[j].depth <= MaxRepairs[jobRow'[j].run]
                        /\ jobRow'[j].depth = 0 <=> p = NoLease
                        /\ p # NoLease => /\ verdict'[p] = "rejected"
                                          /\ jobRow'[leaseJob'[p]].run = jobRow'[j].run
                                          /\ jobRow'[j].depth = jobRow'[leaseJob'[p]].depth + 1
                                          /\ \A k \in JobRows' : jobRow'[k].parent = p => k = j
    BY DEF RepairChains, RunOf
  <2>2. CASE j \in new
    BY <2>2, LimitAssumption
  <2>3. CASE j \in JobRows
    <3> DEFINE p == jobRow[j].parent
    <3>1. jobRow'[j] = jobRow[j] /\ jobRow[j].depth <= MaxRepairs[jobRow[j].run]
          /\ (jobRow[j].depth = 0 <=> p = NoLease)
      BY <2>3 DEF Families, RepairChains, RunOf
    <3>2. ASSUME p # NoLease
          PROVE  /\ verdict'[p] = "rejected"
                 /\ jobRow'[leaseJob'[p]].run = jobRow'[j].run
                 /\ jobRow'[j].depth = jobRow'[leaseJob'[p]].depth + 1
                 /\ \A k \in JobRows' : jobRow'[k].parent = p => k = j
      <4>1. p \in Lease /\ verdict[p] = "rejected" /\ leaseJob[p] \in JobRows
        BY <2>3, <3>2, FamilyFacts DEF Generators
      <4>2. leaseJob'[p] = leaseJob[p] /\ jobRow'[leaseJob[p]] = jobRow[leaseJob[p]]
        BY <4>1
      <4>3. /\ jobRow[leaseJob[p]].run = jobRow[j].run
            /\ jobRow[j].depth = jobRow[leaseJob[p]].depth + 1
            /\ \A k \in JobRows : jobRow[k].parent = p => k = j
        BY <2>3, <3>2 DEF Families, RepairChains, RunOf
      <4>4. QED
        BY <3>1, <3>2, <4>1, <4>2, <4>3
    <3>3. QED
      BY <3>1, <3>2
  <2>4. QED
    BY <2>2, <2>3
<1>3. /\ \A j \in JobRows' : jobRow'[j].depth > 0 => jobRow'[j].kind = "generate"
      /\ \A j \in JobRows' : jobRow'[j].run \notin GroupRun => jobRow'[j].max = MaxAssignments[jobRow'[j].run]
      /\ \A l \in Lease : verdict'[l] # "none" => jobRow'[leaseJob'[l]].kind = "generate"
  BY DEF Families, RunOf
<1>4. PICK root \in [Job -> Job] : Rooted(root)
  BY DEF Families
<1> DEFINE root2 == [j \in Job |-> IF j \in new THEN j ELSE root[j]]
<1>5. /\ \A j \in Generators' : j \in new \/ j \in Generators
      /\ \A j \in Generators : j \in JobRows /\ j \in Job \ new /\ root2[j] = root[j] /\ j \in Generators'
                               /\ jobRow'[j] = jobRow[j]
      /\ \A j \in new : root2[j] = j /\ j \notin Generators
  BY DEF Generators, JobRows
<1>6. root2 \in [Job -> Job]
  OBVIOUS
<1> HIDE DEF root2
<1>7. \A j \in Generators : root[j] \in Generators /\ jobRow[root[j]].run = jobRow[j].run
                            /\ jobRow[root[j]].depth = 0
  BY <1>4 DEF Rooted, RunOf
<1>8. \A j \in Generators' : /\ root2[j] \in Generators' /\ jobRow'[root2[j]].run = jobRow'[j].run
                             /\ jobRow'[root2[j]].depth = 0
  BY <1>5, <1>7
<1>9. \A j \in Generators' : jobRow'[j].parent # NoLease => root2[j] = root2[leaseJob'[jobRow'[j].parent]]
  <2>1. SUFFICES ASSUME NEW j \in Generators, jobRow[j].parent # NoLease
                 PROVE  root2[j] = root2[leaseJob'[jobRow[j].parent]]
    BY <1>5
  <2>2. /\ jobRow[j].parent \in Lease /\ verdict[jobRow[j].parent] = "rejected"
        /\ leaseJob[jobRow[j].parent] \in Generators
    BY <1>5, <2>1, FamilyFacts
  <2>3. root[j] = root[leaseJob[jobRow[j].parent]]
    BY <1>4, <2>1 DEF Rooted
  <2>4. leaseJob'[jobRow[j].parent] = leaseJob[jobRow[j].parent]
    BY <2>2
  <2>5. QED
    BY <1>5, <2>2, <2>3, <2>4
<1>10. ASSUME NEW j \in Generators', NEW k \in Generators', root2[j] = root2[k],
              jobRow'[j].depth = jobRow'[k].depth
       PROVE  j = k
  <2>1. CASE j \in new \/ k \in new
    BY <1>5, <1>7, <1>10, <2>1
  <2>2. CASE j \in Generators /\ k \in Generators
    BY <1>4, <1>5, <1>10, <2>2 DEF Rooted
  <2>3. QED
    BY <1>5, <2>1, <2>2
<1>11. Rooted(root2)'
  BY <1>8, <1>9, <1>10 DEF Rooted, RunOf
<1>12. QED
  BY <1>1, <1>2, <1>3, <1>6, <1>11 DEF Families, RunOf

\* A repair: the child of j joins the family of j, one depth further down.
LEMMA FamiliesRepair ==
  ASSUME IInv, Families, NEW a \in Lease, verdict[a] = "pending", NEW k \in Job \ JobRows,
         Repairs(leaseJob[a], "rejected"), JobRows' = JobRows \cup {k},
         \A i \in JobRows : jobRow'[i] = jobRow[i],
         jobRow'[k] = RepairRow(leaseJob[a], a),
         leaseJob' = leaseJob, verdict' = [verdict EXCEPT ![a] = "rejected"]
  PROVE  Families'
<1> DEFINE j == leaseJob[a]
<1>1. IsFiniteSet(JobRows')
  BY FS_AddElement DEF Families
<1>2. /\ j \in Generators /\ j \in JobRows /\ jobRow[j] \in JobRow /\ a # NoLease
      /\ jobRow[j].depth \in Nat /\ jobRow[j].run \in Run
  BY FamilyFacts, RowAssumption DEF Generators, JobRow
<1>3. /\ jobRow'[k].depth = jobRow[j].depth + 1 /\ jobRow'[k].parent = a
      /\ jobRow'[k].kind = "generate" /\ jobRow'[k].run = jobRow[j].run /\ jobRow'[k].max = jobRow[j].max
  BY <1>2 DEF RepairRow, JobRow
<1>4. jobRow[j].depth + 1 <= MaxRepairs[jobRow[j].run] /\ MaxRepairs[jobRow[j].run] \in Nat
  BY <1>2, LimitAssumption DEF Repairs, RunOf
<1>5. verdict'[a] = "rejected" /\ \A l \in Lease \ {a} : verdict'[l] = verdict[l]
  BY DEF IInv, TypeOK
<1>6. ASSUME NEW i \in JobRows, jobRow[i].parent # NoLease
      PROVE  /\ jobRow[i].parent \in Lease \ {a} /\ verdict[jobRow[i].parent] = "rejected"
             /\ leaseJob[jobRow[i].parent] \in Generators /\ leaseJob[jobRow[i].parent] \in JobRows
             /\ leaseJob[jobRow[i].parent] # j
  <2>1. /\ jobRow[i].parent \in Lease \ {a} /\ verdict[jobRow[i].parent] = "rejected"
        /\ leaseJob[jobRow[i].parent] \in Generators
    BY <1>6, FamilyFacts
  <2>2. leaseJob[jobRow[i].parent] # j
    BY <2>1 DEF IInv, OneCandidate, Attempted
  <2>3. QED
    BY <2>1, <2>2 DEF Generators
<1>7. RepairChains'
  <2>1. SUFFICES ASSUME NEW i \in JobRows'
                 PROVE  LET p == jobRow'[i].parent IN
                        /\ jobRow'[i].depth <= MaxRepairs[jobRow'[i].run]
                        /\ jobRow'[i].depth = 0 <=> p = NoLease
                        /\ p # NoLease => /\ verdict'[p] = "rejected"
                                          /\ jobRow'[leaseJob[p]].run = jobRow'[i].run
                                          /\ jobRow'[i].depth = jobRow'[leaseJob[p]].depth + 1
                                          /\ \A h \in JobRows' : jobRow'[h].parent = p => h = i
    BY DEF RepairChains, RunOf
  <2>2. CASE i = k
    <3>1. \A h \in JobRows : jobRow'[h].parent # a
      BY <1>2, <1>6
    <3>2. QED
      BY <1>2, <1>3, <1>4, <1>5, <2>2, <3>1
  <2>3. CASE i \in JobRows
    <3>1. jobRow'[i] = jobRow[i] /\ jobRow[i].depth <= MaxRepairs[jobRow[i].run]
          /\ (jobRow[i].depth = 0 <=> jobRow[i].parent = NoLease)
      BY <2>3 DEF Families, RepairChains, RunOf
    <3>2. ASSUME jobRow[i].parent # NoLease
          PROVE  /\ verdict'[jobRow[i].parent] = "rejected"
                 /\ jobRow'[leaseJob[jobRow[i].parent]].run = jobRow[i].run
                 /\ jobRow[i].depth = jobRow'[leaseJob[jobRow[i].parent]].depth + 1
                 /\ \A h \in JobRows' : jobRow'[h].parent = jobRow[i].parent => h = i
      <4>1. /\ jobRow[leaseJob[jobRow[i].parent]].run = jobRow[i].run
            /\ jobRow[i].depth = jobRow[leaseJob[jobRow[i].parent]].depth + 1
            /\ \A h \in JobRows : jobRow[h].parent = jobRow[i].parent => h = i
        BY <2>3, <3>2 DEF Families, RepairChains, RunOf
      <4>2. /\ jobRow[i].parent \in Lease \ {a} /\ verdict[jobRow[i].parent] = "rejected"
            /\ leaseJob[jobRow[i].parent] \in JobRows
        BY <1>6, <2>3, <3>2
      <4>3. QED
        BY <1>3, <1>5, <4>1, <4>2
    <3>3. QED
      BY <3>1, <3>2
  <2>4. QED
    BY <2>2, <2>3
<1>8. /\ \A i \in JobRows' : jobRow'[i].depth > 0 => jobRow'[i].kind = "generate"
      /\ \A i \in JobRows' : jobRow'[i].run \notin GroupRun => jobRow'[i].max = MaxAssignments[jobRow'[i].run]
  BY <1>2, <1>3 DEF Families, RunOf
<1>9. \A l \in Lease : verdict'[l] # "none" => jobRow'[leaseJob[l]].kind = "generate"
  <2>1. \A l \in Lease : verdict'[l] # "none" => verdict[l] # "none"
    BY <1>5
  <2>2. \A i \in Generators : jobRow'[i] = jobRow[i] /\ jobRow[i].kind = "generate"
    BY DEF Generators
  <2>3. QED
    BY <2>1, <2>2, FamilyFacts
<1>10. PICK root \in [Job -> Job] : Rooted(root)
  BY DEF Families
<1>11. PICK root2 \in [Job -> Job] : root2 = [i \in Job |-> IF i = k THEN root[j] ELSE root[i]]
  BY <1>2 DEF JobRows
<1>12. /\ Generators' = Generators \cup {k} /\ k \notin Generators
       /\ root2[k] = root[j]
       /\ \A i \in Generators : i \in JobRows /\ i \in Job \ {k} /\ root2[i] = root[i] /\ jobRow'[i] = jobRow[i]
  BY <1>3, <1>11 DEF Generators, JobRows
<1>13. \A i \in Generators : /\ root[i] \in Generators /\ jobRow[root[i]].run = jobRow[i].run
                             /\ jobRow[root[i]].depth = 0
  BY <1>10 DEF Rooted, RunOf
<1>14. \A i \in Generators' : /\ root2[i] \in Generators' /\ jobRow'[root2[i]].run = jobRow'[i].run
                              /\ jobRow'[root2[i]].depth = 0
  BY <1>2, <1>3, <1>12, <1>13
<1>15. \A i \in Generators' : jobRow'[i].parent # NoLease => root2[i] = root2[leaseJob[jobRow'[i].parent]]
  <2>1. root2[k] = root2[leaseJob[jobRow'[k].parent]]
    BY <1>2, <1>3, <1>12
  <2>2. ASSUME NEW i \in Generators, jobRow[i].parent # NoLease
        PROVE  root2[i] = root2[leaseJob[jobRow[i].parent]]
    <3>1. root[i] = root[leaseJob[jobRow[i].parent]]
      BY <1>10, <2>2 DEF Rooted
    <3>2. leaseJob[jobRow[i].parent] \in Generators
      BY <1>6, <1>12, <2>2
    <3>3. QED
      BY <1>12, <3>1, <3>2
  <2>3. QED
    BY <1>12, <2>1, <2>2
\* A member of the family at the child's depth would be the child of an attempt of j.
<1>16. ASSUME NEW i \in Generators, root[i] = root[j], jobRow[i].depth = jobRow[j].depth + 1
       PROVE  FALSE
  <2> DEFINE p == jobRow[i].parent
  <2>1. p # NoLease /\ jobRow[i].depth = jobRow[leaseJob[p]].depth + 1 /\ jobRow[i].depth \in Nat
    BY <1>2, <1>12, <1>16 DEF Families, RepairChains
  <2>2. leaseJob[p] \in Generators /\ leaseJob[p] # j
    BY <1>6, <1>12, <2>1
  <2>3. jobRow[leaseJob[p]].depth \in Nat
    BY <2>2, FamilyFacts DEF Generators, JobRow
  <2>4. jobRow[leaseJob[p]].depth = jobRow[j].depth
    BY <1>2, <1>16, <2>1, <2>3
  <2>5. root[leaseJob[p]] = root[j]
    BY <1>10, <1>16, <2>1 DEF Rooted
  <2>6. QED
    BY <1>2, <1>10, <2>2, <2>4, <2>5 DEF Rooted
<1>17. ASSUME NEW h \in Generators', NEW i \in Generators', root2[h] = root2[i],
              jobRow'[h].depth = jobRow'[i].depth
       PROVE  h = i
  <2>1. CASE h \in Generators /\ i \in Generators
    BY <1>10, <1>12, <1>17, <2>1 DEF Rooted
  <2>2. CASE h = k /\ i \in Generators
    BY <1>3, <1>12, <1>16, <1>17, <2>2
  <2>3. CASE i = k /\ h \in Generators
    BY <1>3, <1>12, <1>16, <1>17, <2>3
  <2>4. QED
    BY <1>12, <2>1, <2>2, <2>3
<1>18. Rooted(root2)'
  BY <1>14, <1>15, <1>17 DEF Rooted, RunOf
<1>19. QED
  BY <1>1, <1>7, <1>8, <1>9, <1>18 DEF Families, RunOf

-------------------------------------------------------------------------------
(* Every step keeps both *)

\* A step that changes only a job's state, and never makes one queued.
LEMMA BoundsSame ==
  ASSUME IInv, BoundInv, UNCHANGED <<jobRow, leaseJob, leaseStatus, verdict>>,
         \A j \in Job : jobStatus'[j] # jobStatus[j] =>
           jobStatus[j] \in {"queued", "verifying"} /\ jobStatus'[j] = "cancelled"
  PROVE  BoundInv'
<1>1. JobRows' = JobRows /\ \A j \in JobRows : j \in Job
  BY DEF JobRows
<1>2. \A j \in Job \ JobRows : jobStatus'[j] = "absent"
  BY DEF JobRows
<1>3. Budget'
  BY <1>1, <1>2, BudgetKeep DEF BoundInv
<1>4. Families'
  <2>1. \A l \in Lease : verdict[l] # "none" => leaseJob[l] \in JobRows /\ jobRow[leaseJob[l]].kind = "generate"
    BY FamilyFacts DEF BoundInv, Generators
  <2>2. IsFiniteSet({}) /\ JobRows' = JobRows \cup {}
    BY <1>1, FS_EmptySet
  <2>3. QED
    BY <2>1, <2>2, FamiliesGrow DEF BoundInv
<1>5. QED
  BY <1>3, <1>4 DEF BoundInv

LEMMA InsertBounds ==
  ASSUME IInv, BoundInv, NEW new \in SUBSET Job, IsFiniteSet(new), NEW r \in Run, NEW kind,
         NEW n \in Nat \ {0}, r \notin GroupRun => n = MaxAssignments[r],
         InsertJobs(new, NewJob(r, kind, n)), UNCHANGED <<leaseJob, leaseStatus, verdict>>
  PROVE  BoundInv'
<1>1. /\ new \in SUBSET (Job \ JobRows) /\ JobRows' = JobRows \cup new
      /\ \A j \in JobRows : j \in Job /\ jobRow'[j] = jobRow[j] /\ jobStatus'[j] = jobStatus[j]
      /\ \A j \in Job \ (JobRows \cup new) : jobStatus'[j] = "absent"
      /\ \A j \in new : jobRow'[j] = NewJob(r, kind, n)
  BY DEF InsertJobs, NextRows, JobRows, IInv, TypeOK
<1>2. Budget'
  <2>1. \A j \in Job \ JobRows : jobStatus'[j] # "absent" => jobRow'[j].max \in Nat \ {0}
    BY <1>1 DEF NewJob
  <2>2. QED
    BY <1>1, <2>1, BudgetKeep DEF BoundInv
<1>3. Families'
  <2>1. \A l \in Lease : verdict[l] # "none" => leaseJob[l] \in JobRows /\ jobRow[leaseJob[l]].kind = "generate"
    BY FamilyFacts DEF BoundInv, Generators
  <2>2. \A j \in new : /\ jobRow'[j].depth = 0 /\ jobRow'[j].parent = NoLease
                       /\ jobRow'[j].run \in Run
                       /\ jobRow'[j].run \notin GroupRun => jobRow'[j].max = MaxAssignments[jobRow'[j].run]
    BY <1>1 DEF NewJob
  <2>3. QED
    BY <1>1, <2>1, <2>2, FamiliesGrow DEF BoundInv
<1>4. QED
  BY <1>2, <1>3 DEF BoundInv

LEMMA RequestsBounds == ASSUME IInv, BoundInv, Requests PROVE BoundInv'
<1>1. \A r \in Run : MaxAssignments[r] \in Nat \ {0}
  BY LimitAssumption
<1>2. ASSUME NEW r \in Run, NEW new \in SUBSET Job, Submit(r, new) PROVE BoundInv'
  <2>1. IsFiniteSet(new) /\ InsertJobs(new, NewJob(r, "generate", MaxAssignments[r]))
        /\ UNCHANGED <<leaseJob, leaseStatus, verdict>>
    BY <1>2 DEF Submit, leaseVars, proofVars
  <2>2. QED
    BY <1>1, <2>1, InsertBounds
<1>3. ASSUME NEW r \in Run, NEW j \in Job, EnqueueTask(r, j) PROVE BoundInv'
  <2>1. IsFiniteSet({j}) /\ {j} \in SUBSET Job /\ InsertJobs({j}, NewJob(r, "respond", MaxAssignments[r]))
        /\ UNCHANGED <<leaseJob, leaseStatus, verdict>>
    BY <1>3, FS_Singleton DEF EnqueueTask, leaseVars, proofVars
  <2>2. QED
    BY <1>1, <2>1, InsertBounds
<1>4. ASSUME NEW g \in GroupRun, NEW j \in Job, NEW kind \in Kind, NEW cost \in 1..MaxAssignments[g],
             EnqueueGroupJob(g, j, kind, cost)
      PROVE  BoundInv'
  <2>1. IsFiniteSet({j}) /\ {j} \in SUBSET Job /\ InsertJobs({j}, NewJob(g, kind, cost))
        /\ UNCHANGED <<leaseJob, leaseStatus, verdict>>
    BY <1>4, FS_Singleton DEF EnqueueGroupJob, leaseVars, proofVars
  <2>2. g \in Run /\ cost \in Nat \ {0}
    BY <1>1, LimitAssumption
  <2>3. QED
    BY <2>1, <2>2, InsertBounds
<1>5. QED
  BY <1>2, <1>3, <1>4 DEF Requests

LEMMA GroupsBounds == ASSUME IInv, BoundInv, Groups PROVE BoundInv'
<1> USE DEF IInv
<1>1. ASSUME NEW g \in GroupRun, StartLoop(g) \/ DeadlinePasses(g) PROVE BoundInv'
  <2>1. UNCHANGED <<jobRow, jobStatus, leaseJob, leaseStatus, verdict>>
    BY <1>1 DEF StartLoop, DeadlinePasses, jobVars, leaseVars, proofVars
  <2>2. QED
    BY <2>1, BoundsSame
<1>2. ASSUME NEW g \in GroupRun, StopGroup(g) PROVE BoundInv'
  <2>1. jobStatus \in [Job -> JobStatus] /\ StopGroupJobs(g, jobStatus)
        /\ UNCHANGED <<jobRow, leaseJob, leaseStatus, verdict>>
    BY <1>2 DEF StopGroup, StopGroupJobs, leaseVars, proofVars, TypeOK
  <2>2. QED
    BY <2>1, StopWrite, BoundsSame
<1>3. ASSUME NEW c \in Checker, StopUncheckedTarget(c) PROVE BoundInv'
  <2> DEFINE j == leaseJob[checking[c]]
             js == [jobStatus EXCEPT ![j] = IF @ = "verifying" THEN "cancelled" ELSE @]
  <2>1. /\ RunOf(j) \in GroupRun /\ StopGroupJobs(RunOf(j), js)
        /\ UNCHANGED <<jobRow, leaseJob, leaseStatus, verdict>>
    BY <1>3 DEF StopUncheckedTarget, StopGroupJobs, leaseVars, proofVars
  <2>2. /\ js \in [Job -> JobStatus]
        /\ \A k \in Job : js[k] = jobStatus[k] \/ (jobStatus[k] = "verifying" /\ js[k] = "cancelled")
    BY DEF TypeOK, JobStatus, Closed
  <2> HIDE DEF js
  <2>3. \A k \in Job : jobStatus'[k] = js[k] \/ (js[k] = "queued" /\ jobStatus'[k] = "cancelled")
    BY <2>1, <2>2, StopWrite
  <2>4. QED
    BY <2>1, <2>2, <2>3, BoundsSame
<1>4. QED
  BY <1>1, <1>2, <1>3 DEF Groups

LEMMA WorkersBounds == ASSUME IInv, BoundInv, Workers PROVE BoundInv'
<1>1. ASSUME TimePasses \/ \E l \in Lease : Heartbeat(l) PROVE BoundInv'
  <2>1. UNCHANGED <<jobRow, jobStatus, leaseJob, leaseStatus, verdict>>
    BY <1>1 DEF TimePasses, Heartbeat, jobVars, proofVars
  <2>2. QED
    BY <2>1, BoundsSame
<1>2. \A l \in Lease : verdict[l] # "none" => leaseJob[l] \in JobRows /\ jobRow[leaseJob[l]].kind = "generate"
  BY FamilyFacts DEF BoundInv, Generators
<1>3. IsFiniteSet({}) /\ {} \in SUBSET (Job \ JobRows) /\ JobRows = JobRows \cup {}
  BY FS_EmptySet
<1>4. ASSUME Expire PROVE BoundInv'
  <2>1. UNCHANGED <<jobRow, leaseJob, verdict>> /\ jobStatus' = SweptJobs
    BY <1>4 DEF Expire, proofVars
  <2>2. JobRows' = JobRows
    BY <2>1, SweepFacts DEF JobRows, IInv
  <2>3. Families'
    BY <1>2, <1>3, <2>1, <2>2, FamiliesGrow DEF BoundInv
  <2>4. QED
    BY <1>4, <2>3, BudgetExpire DEF BoundInv
<1>5. ASSUME NEW kinds \in SUBSET Kind, NEW j \in Job, NEW l \in Lease, Claim(kinds, j, l) PROVE BoundInv'
  <2>1. /\ UNCHANGED <<jobRow, verdict>> /\ leaseStatus[l] = "absent" /\ SweptJobs[j] = "queued"
        /\ leaseJob' = [leaseJob EXCEPT ![l] = j] /\ jobStatus' = [SweptJobs EXCEPT ![j] = "assigned"]
    BY <1>5 DEF Claim, Claimable, NextRows, LeaseRows, proofVars
  <2>2. JobRows' = JobRows
    <3>1. \A k \in Job : jobStatus'[k] = IF k = j THEN "assigned" ELSE SweptJobs[k]
      BY <2>1, SweepFacts DEF IInv
    <3>2. QED
      BY <2>1, <3>1, SweepFacts DEF JobRows, IInv
  <2>3. \A m \in Lease : verdict[m] # "none" => leaseJob'[m] = leaseJob[m]
    BY <2>1 DEF IInv, RowInv, TypeOK
  <2>4. Families'
    BY <1>2, <1>3, <2>1, <2>2, <2>3, FamiliesGrow DEF BoundInv
  <2>5. QED
    BY <1>5, <2>4, BudgetClaim DEF BoundInv
<1>6. ASSUME NEW l \in Lease, NEW p \in Payload, Result(l, p) PROVE BoundInv'
  <2> DEFINE j == leaseJob[l]
             js == [jobStatus EXCEPT ![j] = AnsweredStatus(j, p, leaseStatus')]
  <2>1. /\ UNCHANGED <<jobRow, leaseJob>> /\ Refresh(runStatus, js)
        /\ verdict[l] = "none" /\ j \in Job /\ jobStatus[j] = "assigned"
    BY <1>6 DEF Result, Holds, IInv, RowInv, SoleLease, LeasedJob
  <2>2. AnsweredStatus(j, p, leaseStatus') \in {"verifying", "done", "failed", "queued", "cancelled"}
    BY DEF AnsweredStatus, RetryStatus
  <2>3. /\ js \in [Job -> JobStatus] /\ js[j] # "absent"
        /\ \A k \in Job \ {j} : js[k] = jobStatus[k]
    BY <2>1, <2>2 DEF IInv, TypeOK, JobStatus, Live, Closed
  <2> HIDE DEF js
  <2>4. runStatus \in [Run -> RunStatus] /\ jobRow' \in [Job -> JobRow \cup {NoJob}]
    BY <2>1 DEF IInv, TypeOK
  <2>5. \A k \in Job : jobStatus'[k] = js[k] \/ (js[k] = "queued" /\ jobStatus'[k] = "cancelled")
    BY <2>1, <2>3, <2>4, RefreshWrite
  <2>6. JobRows' = JobRows
    BY <2>1, <2>3, <2>5 DEF JobRows
  <2>7. /\ \A m \in Lease \ {l} : verdict'[m] = verdict[m]
        /\ verdict'[l] # "none" => jobRow[j].kind = "generate"
    BY <1>6, <2>1 DEF Result, IInv, TypeOK, proofVars
  <2>8. \A m \in Lease : verdict'[m] # "none" => leaseJob'[m] \in JobRows /\ jobRow[leaseJob'[m]].kind = "generate"
    BY <1>2, <2>1, <2>7 DEF JobRows
  <2>9. Families'
    BY <1>3, <2>1, <2>6, <2>7, <2>8, FamiliesGrow DEF BoundInv
  <2>10. QED
    BY <1>6, <2>9, BudgetResult DEF BoundInv
<1>7. QED
  BY <1>1, <1>4, <1>5, <1>6, ClaimParts DEF Workers, Answer

LEMMA LoopsBounds == ASSUME IInv, CheckedLives, BoundInv, Loops PROVE BoundInv'
<1>1. ASSUME NEW c \in Checker, PickNext(c) \/ Abandon(c) \/ VerifiedAgain(c) PROVE BoundInv'
  <2>1. UNCHANGED <<jobRow, jobStatus, leaseJob, leaseStatus, verdict>>
    BY <1>1 DEF PickNext, Pick, Abandon, VerifiedAgain, jobVars, leaseVars, proofVars
  <2>2. QED
    BY <2>1, BoundsSame
<1>2. ASSUME NEW c \in Checker, NEW v \in Outcome, NEW new \in SUBSET Job, Verified(c, v, new) PROVE BoundInv'
  <2> DEFINE a == checking[c]
             j == leaseJob[a]
             r == RunOf(j)
             rs == [runStatus EXCEPT ![r] = Judged(@, v)]
             js == [k \in Job |-> IF k \in new THEN "queued" ELSE IF k = j THEN "done" ELSE jobStatus[k]]
  <2>1. /\ a \in Lease /\ verdict[a] = "pending" /\ j \in JobRows /\ j \in Generators
        /\ jobRow[j] \in JobRow /\ j \in Job
    BY <1>2, FamilyFacts DEF Verified, IInv, TypeOK, BoundInv, Generators
  <2>2. /\ new = {} \/ (Repairs(j, v) /\ \E k \in Job : new = {k})
        /\ new \in SUBSET (Job \ JobRows)
    BY <1>2 DEF Verified, NextRows
  <2>3. /\ UNCHANGED <<leaseJob, leaseStatus>> /\ verdict' = [verdict EXCEPT ![a] = v]
        /\ jobRow' = [k \in Job |-> IF k \in new THEN RepairRow(j, a) ELSE jobRow[k]]
        /\ jobStatus' = CancelQueued(Run, rs, jobRow', js)
    BY <1>2 DEF Verified, Refresh, leaseVars
  <2>4. \A k \in Job : jobStatus'[k] = js[k] \/ (js[k] = "queued" /\ jobStatus'[k] = "cancelled")
    BY <2>3 DEF CancelQueued
  <2>5. /\ JobRows' = JobRows \cup new
        /\ \A k \in JobRows : k \in Job /\ jobRow'[k] = jobRow[k]
                              /\ (jobStatus'[k] = "queued" => jobStatus[k] = "queued")
        /\ \A k \in Job \ (JobRows \cup new) : jobStatus'[k] = "absent"
    <3>1. /\ \A k \in new : jobStatus'[k] # "absent"
          /\ jobStatus'[j] = "done" /\ jobStatus[j] # "absent" /\ j \notin new
      BY <2>1, <2>2, <2>4 DEF JobRows
    <3>2. \A k \in Job \ (new \cup {j}) : jobStatus'[k] = jobStatus[k]
                                           \/ (jobStatus[k] = "queued" /\ jobStatus'[k] = "cancelled")
      BY <2>4
    <3>3. \A k \in Job \ new : jobRow'[k] = jobRow[k]
      BY <2>3
    <3>4. QED
      BY <2>1, <2>2, <3>1, <3>2, <3>3 DEF JobRows
  <2>6. Budget'
    <3>1. RepairRow(j, a).max \in Nat \ {0}
      BY <2>1 DEF RepairRow, JobRow, BoundInv, Budget
    <3>2. \A k \in Job \ JobRows : jobStatus'[k] # "absent" => jobRow'[k].max \in Nat \ {0}
      BY <2>3, <2>5, <3>1
    <3>3. QED
      BY <2>3, <2>5, <3>2, BudgetKeep DEF BoundInv
  <2>7. CASE new = {}
    <3>1. \A l \in Lease : verdict[l] # "none" => leaseJob[l] \in JobRows /\ jobRow[leaseJob[l]].kind = "generate"
      BY FamilyFacts DEF BoundInv, Generators
    <3>2. \A l \in Lease : /\ verdict[l] = "rejected" => verdict'[l] = "rejected"
                           /\ verdict'[l] # "none" => verdict[l] # "none"
      BY <2>1, <2>3 DEF IInv, TypeOK
    <3>3. Families'
      BY <2>2, <2>3, <2>5, <2>7, <3>1, <3>2, FS_EmptySet, FamiliesGrow DEF BoundInv
    <3>4. QED
      BY <2>6, <3>3 DEF BoundInv
  <2>8. CASE new # {}
    <3>1. PICK k \in Job : new = {k} /\ Repairs(j, v)
      BY <2>2, <2>8
    <3>2. v = "rejected" /\ k \in Job \ JobRows /\ jobRow'[k] = RepairRow(j, a)
      BY <2>2, <2>3, <3>1 DEF Repairs
    <3>3. Families'
      BY <2>1, <2>3, <2>5, <3>1, <3>2, FamiliesRepair DEF BoundInv
    <3>4. QED
      BY <2>6, <3>3 DEF BoundInv
  <2>9. QED
    BY <2>7, <2>8
<1>3. QED
  BY <1>1, <1>2 DEF Loops, Check

LEMMA NextBounds == ASSUME IInv, CheckedLives, BoundInv, [Next]_vars PROVE BoundInv'
<1>1. CASE UNCHANGED vars
  <2>1. UNCHANGED <<jobRow, jobStatus, leaseJob, leaseStatus, verdict>>
    BY <1>1 DEF vars, jobVars, leaseVars, proofVars
  <2>2. QED
    BY <2>1, BoundsSame
<1>2. CASE Next
  BY <1>2, RequestsBounds, GroupsBounds, WorkersBounds, LoopsBounds DEF Next
<1>3. QED
  BY <1>1, <1>2

LEMMA InitBounds == Init => BoundInv
<1> SUFFICES ASSUME Init PROVE BoundInv
  OBVIOUS
<1>1. JobRows = {} /\ LeaseRows = {} /\ Generators = {} /\ IsFiniteSet({})
  BY FS_EmptySet DEF Init, JobRows, LeaseRows, Generators
<1>2. Budget
  BY <1>1 DEF Budget, WithinBudget
<1>3. \E root \in [Job -> Job] : Rooted(root)
  <2>1. [j \in Job |-> j] \in [Job -> Job]
    OBVIOUS
  <2>2. \A root : Rooted(root)
    BY <1>1 DEF Rooted
  <2>3. QED
    BY <2>1, <2>2
<1>4. Families
  BY <1>1, <1>3 DEF Families, RepairChains, Init
<1>5. QED
  BY <1>2, <1>4 DEF BoundInv

LEMMA BoundsHold == Spec => []BoundInv
<1>1. QED
  BY InitBounds, NextBounds, InvHolds, CheckedHolds, PTL DEF Spec

\* verified(): every repair descends in its own run from one rejected attempt, whose only child it
\* is, and no chain of repairs is longer than max_repairs.
THEOREM ChainsKept == Spec => []RepairChains
<1>1. IInv /\ BoundInv => RepairChains
  BY BoundsImply
<1>2. QED
  BY <1>1, InvHolds, BoundsHold, PTL

\* protocol/v1.md: no job spends more leases than its limit, and a submission causes no more jobs
\* and budgeted assignments than its limits allow, for every instance.
THEOREM BoundsKept == Spec => []ProtocolBound
<1>1. IInv /\ BoundInv => ProtocolBound
  BY BoundsImply
<1>2. QED
  BY <1>1, InvHolds, BoundsHold, PTL

=================================================================================
