# Solvenet in TLA+

A verification development kept beside the Solvenet coordinator and its workers: TLA+ modules
translated from the source, TLC runs over small instances, and theorems checked by TLAPS for every
instance. Paths are relative to the repository; `store.py`, `group_loop.py` and the other bare
names are in `coordinator/src/solvenet/`, `daemon.go` is in `worker/internal/daemon/`.

## 1. The system

Solvenet proves Lean theorems with untrusted model workers. A *coordinator* (Python, SQLite) keeps
*runs*; a run has *jobs*; a worker leases a job (an *assignment*) and answers it; a completed
generation becomes an *attempt*, which the coordinator's scheduler thread hands to Lean; the
*verification* settles the run or queues a *repair*. *Agent groups* drive a run of their own through
the same queue, in *fixed* mode (six calls in order) or in *graph* mode (a frontier chooses the next
action from a graph of claims). Agents' answers bring *claims*, *relationships*, *reviews* and
*artifacts* (auxiliary proofs), which are checked by Lean too and may be used in later proofs.

Every store operation is one `BEGIN IMMEDIATE` transaction, so the difficulty is not in torn writes
but in the *order* of transactions: answers after expiry, verdicts after the end of a run, stops
while work is leased out, verifiers replaced while a check runs, several coordinator processes over
one database, retried requests, and workers that hear nothing.

### Inventory

| component | state | operations | hard behaviour | what makes it correct |
|---|---|---|---|---|
| Job queue (`store.py`, `group_operations.py`) | runs, jobs, assignments, attempts, verifications | submit, enqueue, claim, heartbeat, result, expire, pending, verified | late or repeated answers, expiry racing a claim, second verdicts, restarts | one lease per assigned job, one candidate per job, bounded leases and repairs, status of runs and jobs agree, a proof always wins |
| Fixed group loop (`group_loop.py`) | phase, reason, deadline, tasks, messages, work budget | start, advance (one transition per tick), stop | retries, escalations, deadline and late proofs | explicit true reasons, work accounted, calls made on the answers they quote, the loop ends, at its deadline at the latest |
| Scheduler and server (`server.py`) | what a tick holds between transactions | tick, HTTP handlers | checks outside any transaction, head-of-line blocking, restarts | every candidate and artifact is settled, no verdict on stale inputs |
| Verification ownership (`proof_context.py`, `group_artifacts.py`) | checks, owners, binding and its revision, artifacts | begin, record, abandon, rebind | identity changing and changing back during a check, ownership lapsing under a running check | one owner per running check, one committed check per verdict, nothing offered under another binding |
| Graph frontier (`frontier.py`) | decisions, Lean reservations, limits | choose, admit, dispatch, reserve, settle, stop | corrections, retries, reserves under competing uses, waiting | each strategy bounded, reserve kept and used, informed choices, true reasons, the frontier ends |
| Group state (`group_state.py`) | agents, working state, tasks, messages, budgets | create, compare-and-set, enqueue, message, review | retried requests, concurrent updates | a key names one request, no lost update, budgets conserved |
| Claim graph (`claim_graph*.py`, `graph_response.py`) | claims, publications, relationships, reviews, evidence, receipts | insert, link, review, ingest a batch | partial batches, repeated ingestion, capacities | batches whole or absent, sources truthful, one claim per statement, a revision names one graph |
| Composed bundles (`composed.py`, selection in `proof_context.py`) | frozen contexts | select, freeze, validate | dependency order, closure | closed, ordered, verified |
| Routing (`group_routing.py`) | worker presence (read) | choose | ties, stale presence | never over budget |
| Context packets (`context_packet.py`, `graph_instructions.py`) | frozen packets | build, freeze | byte and token limits | bounded |
| Verifier, sandbox, identity (`verifier.py`, `sandbox.py`, `verifier_identity.py`) | none | probe, run Lean/Docker | timeouts, infrastructure errors | one of four outcomes, only Lean rejects |
| Experiments (`store.py`, `experiment_summary.py`, `problem_set.py`) | experiments, arms | create, summarise | retried creation | all or nothing under one key |
| Worker daemon (`daemon.go`) | the current assignment | claim, heartbeat, execute, submit, reject | lost, late and repeated requests, timeouts, kills | what it hears is true and stays true, its leases end |
| Providers, worker command (`worker/internal/provider`, `worker/cmd`) | none | HTTP to providers | I/O | - |
| Homelab (`homelab/`) | settings, cookies, expiring output previews | proxy, progress | I/O | - |
| Integration scripts (`integration/`, `experiments/`) | none | drive and report | - | - |

`PROJECT.json` lists the hazards of the code, each at its line, with the properties that answer it.

## 2. Modules

| module | models | needs |
|---|---|---|
| `JobQueue` | the durable queue: one action per transaction, groups as far as they touch it | - |
| `RunLifecycle` | abstract: the run transition table of `docs/ticket-08-terminal-state-precedence.md` | - |
| `JobQueueProofs` | inductive invariant and safety theorems of the queue, final records, and that the queue implements `RunLifecycle` | `JobQueue` |
| `JobQueueBounds` | lease budget, repair families, and the limits of the protocol | `JobQueueProofs` |
| `FiniteLemmas` | least elements, maxima and sums over finite sets, for the proofs that count | - |
| `GroupLoop` | the fixed six-call loop, composed with the queue it drives | `JobQueue` |
| `GroupLoopProofs` | the loop implements the queue; reasons, work, tasks and calls | `GroupLoop`, `JobQueueProofs` |
| `WorkerProtocol` | worker daemons over a bad network, composed with the queue | `JobQueue` |
| `AnswerDelivery` | abstract: the fate of the answer to a lease, and what its worker hears | - |
| `WorkerProtocolProofs` | the wires implement the queue and `AnswerDelivery` | `WorkerProtocol`, `JobQueueProofs` |
| `Verification` | ticks of the scheduler: binding, ownership of checks, Lean budget, verdicts | - |
| `VerificationProofs` | inductive invariants of checks, owners, verdicts, bindings and the Lean budget | `Verification`, `FiniteLemmas` |
| `Frontier` | graph mode: choice, admission and dispatch of actions until the group stops | - |
| `FrontierProofs` | all safety properties of the frontier | `Frontier`, `FiniteLemmas` |
| `ClaimGraph` | the writes of the claim graph, as operators on a group's rows | - |
| `GroupState` | the writes of the group state and of artifacts, on the same rows | `ClaimGraph` |
| `GroupGraph` | a group under API requests, answers of jobs and their ingestion | `GroupState` |
| `AgentLog` | abstract: an agent's working states, one after the other | - |
| `GroupGraphProofs` | all safety properties of the group: evidence, sources, revisions, work, keys, batches, and that it implements `AgentLog` | `GroupGraph`, `FiniteLemmas` |

`MCJobQueue`, `MCGroupLoop`, `MCWorkerProtocol`, `MCVerification`, `MCFrontier` and `MCGroupGraph`
hold the constants of the TLC instances. `MCVerification`, `MCFrontier` and `MCGroupGraph` check
several instances in one run: the initial state chooses one (`instance`), and a step stays within
what that instance may bring.

Operators whose comment starts with "Fault" are mutated forms of the definition below them; nothing
uses them except the mutants of `PROJECT.json`.

How they fit together: `GroupLoop` and `WorkerProtocol` *extend* `JobQueue` and change its tables
only by its operations. `Verification`, `Frontier` and `GroupGraph` each see the queue by the rows
they read, and each other likewise: a check is a verdict to `Frontier`, an answer is a batch to
`GroupGraph` and a set of rows to `Frontier`, a group's end is a phase to `Verification`.

### JobQueue

State is the tables. Rows are named by rowid: a new row takes the smallest free number, so
`ORDER BY rowid` is `<=`. An attempt is named by the lease that delivered it
(`attempts.assignment_id` is UNIQUE).

| variable | table or column |
|---|---|
| `runStatus` | `runs.status` |
| `jobRow`, `jobStatus` | immutable columns of `jobs`; `jobs.status` |
| `leaseJob`, `leaseStatus`, `leaseResult`, `ttl` | `assignments`; `ttl` is `expires - now` in coarse ticks |
| `attempts`, `verdict` | `attempts` in insertion order, `verifications.status` |
| `checking` | memory of each scheduler thread: the attempt between `pending()` and `verified()` |
| `groupPhase` | `group_loops.phase` as the queue reads it, and whether the deadline is past |

| action | code |
|---|---|
| `Submit`, `EnqueueTask`, `EnqueueGroupJob` | `submit`, `enqueue_task`, `enqueue_group_job` |
| `StartLoop`, `DeadlinePasses`, `StopGroup`, `StopUncheckedTarget` | `start_group_loop`, the clock, `stop_group_jobs` + `_refresh`, `stop_unchecked_target` |
| `TimePasses`, `Expire` | the clock, `expire()` (also every claim that finds no job) |
| `Claim`, `Heartbeat`, `Result` | the worker protocol; `Claim` includes the sweep that precedes it, `Result` the retry and the refresh |
| `Pick`, `Abandon`, `Verified`, `VerifiedAgain` | `tick`: pick, restart or no verdict, verdict with repair and refresh, a second verdict (`INSERT OR IGNORE`) |

`Abandon` stands for every path of `tick` that stores no verdict: a restart, a busy check, a missing
binding, a check whose inputs went stale (`Verification` has them one by one). A repeated result
request writes nothing and is a stutter here, an exchange in `WorkerProtocol`. A claim also filters by
the model and the generation settings a worker offers (`store.py:950`); here the kind of a job stands
for everything a worker must be able to run.

### GroupLoop

`phase`, `reason` are `group_loops`; `callOf` and `paid` are `group_jobs` by request key; `task` is
`group_tasks.status`; `work` is `agent_groups.remaining_work`; `said` is how a lease's text fares in
the loop. Each disjunct of `Advance` is one transition of `advance_group`, in the code's order:
a solved run, a run in error, the deadline, then the phase. `Dispatch` is the whole of `dispatch()`:
budget and routing stops, or task + reservation + job + reopened run in one step. `AnswerText` and
`CheckTarget` are the queue's `Answer` and `Check` with the columns the loop reads.

A text is good, of the wrong form (`bad`: a plan or review that stops the loop), or one of `Stuck`,
whose transition raises an exception, is rolled back by `advance_groups` (`group_loop.py:262`) and
tried again in every tick: `raises` when the text itself cannot be processed (a plan whose approach
holds a lone surrogate is parsed, then encoded at line 634; JSON nested too deeply; a text the
database cannot encode), `long-1` and `long-2` when the plan is accepted but the context of the
first or second investigation that quotes it as JSON exceeds `_text`'s limit (lines 376 and 654),
which control characters do. In the model the transition is then disabled, and only an
`Interruption` (the deadline) moves the loop.

Abstractions: `context_limit` and `model_unavailable_or_unfit` are the one reason `unroutable`,
possible at any dispatch; the wait of the synthesis for pending artifacts and a fresh verifier
binding is a delay (`InputsSettled` shows that artifacts are settled, if an installation that
vanished comes back); `task_limit`, `task_depth` and `run_terminal` need more
than 8 tasks, a depth of 4, or a run in error after the check for it, and cannot occur. The group
has the queue to itself, so requests for other runs are left out. `StopUncheckedTarget` needs Lean
reservations, which only graph mode makes.

### WorkerProtocol

`worker` is where each daemon is in `Once`: claiming, working, submitting, with its heartbeat
goroutine (`beats`) and the attempts left of `submitResult`. `requests` and `replies` are what is on
the wire; a request whose sender gave up stays as a stray that may still be served or lost.
`heard` is what the daemon holding a lease was told of its answer.

| action | code |
|---|---|
| `SendClaim`, `ClaimAnswered`, `ClaimFails` | `Once` up to the validation of the assignment; an unreadable one is rejected |
| `Execute` | the executor returns: an answer, a failure or a rejection |
| `SendHeartbeat`, `HeartbeatAnswered`, `HeartbeatFails` | the goroutine; a refusal cancels the execution, and not the submission |
| `SendResult`, `ResultAnswered`, `ResultFails` | `submitResult`: up to `MaxTries` attempts, 409 is final |
| `ServeClaim`, `ServeHeartbeat`, `ServeResult` | the handlers, i.e. `Claim`, `Heartbeat`, `Result` of the queue, the repeated result (200 if equal, 409 if not) and the refusals |
| `LoseRequest`, `Kill` | the network, the process |

A second daemon adds nothing the killed one and its stray requests do not: requests carry the lease,
not the worker. Validation of an assignment's fields is readable-or-not. That `Store.result` refuses
an ill-typed output with 400 (`store.py:1123`), which writes nothing and is final for the daemon as a 409
is, is left out: the executors here return well-typed answers. So is progress publishing, which writes
no table the queue reads.

### Verification

A tick is several transactions with probes and the Lean run between them, so it is several actions;
`tick[p]` is what the thread holds in between. `world` is the identity a probe finds.

| variable | table or column |
|---|---|
| `binding` | `artifact_verifier_binding` (identity and revision) |
| `status`, `ident` | `group_artifacts.status`, `.verifier_identity`; for a target its verdict |
| `context`, `frozen` | `proof_contexts`; the binding in a correction's packet |
| `phase` | `group_loops.phase` |
| `check` | `composed_checks` with its row of `frontier_lean_reservations` |
| `owned`, `ttl` | `verification_ownership` and the time it has left |

| action | code |
|---|---|
| `StartTick`, `BindIdentity` | probe, `bind_group_artifact_verifier` |
| `PickArtifact`, `PickTarget` | the oldest pending artifact under a current binding, else the oldest attempt; nothing behind it is considered |
| `SetAside`, `EnsureContext` | an artifact of another environment; `ensure_artifact_context` |
| `Busy`, `Begin`, `Refused` | `begin_composed_check` with the abandonment of a lapsed owner and `reserve_check`; what `_check_artifact` and `tick` do with its refusals |
| `RunLean`, `ProbeAgain`, `Rebind` | `verify_composed` with the probe inside it; the probe and the binding after it |
| `Record` | `checked_group_artifact` or `Store.verified`, with `record_check` and `finish_check` |
| `WorldChanges`, `WorldReturns`, `TimePasses`, `Crash`, `Submit`, `SendCorrection`, `DeadlinePasses`, `StopGroup` | the installation, the clock, a restart, and what the rest of the system inserts |

It is the local verifier (`LeanVerifier`): the one that runs in Docker executes the image of its
binding and needs no probe inside. `Refusals` are the reasons `reserve_check` gives; that a
group stopped between the pick and the reservation is past its deadline too is not distinguished, so its
artifact is checked where the code may refuse it. Nor is it modelled that `begin_composed_check` itself
fails (the database is locked), which `tick` turns into a `verifier_error` of a target and which leaves
an artifact pending. A target outside graph groups is `Plain` (no check, no
binding), an artifact of a fixed group without prerequisites `Standalone` (checked by itself).

### Frontier

`history` is `frontier_decisions`, each with its task and job; `opinion` and `review` the latest
review of the suggestion of each claim; `artifacts`, `proposal` the rows a choice reads; `ops` and
`targetOps` the Lean operations reserved so far; `revision` is `artifact_verifier_binding.revision`,
and each decision has the one its packet was frozen under; `fresh` says whether this process holds
the persisted binding; `hiccups` counts what went wrong outside.

`Advance` is `advance_frontier` in its order: `Abort` (solved, error, deadline), `Settled` (answers
recorded as processed), `Busy` and `Wait` (work in flight), `Spent` (Lean budget), `Select` and
`Dispatch` (candidates in their ranking, each admitted or deferred with a reason, the first admitted
one becoming a task and a job), `GiveUp` (the reason inferred from what was deferred). `Lease`,
`Fail`, `Proof`, `Answer` are the worker's side; `Judge`, `Verdict`, `Unchecked`, `ArtifactStops`,
`CheckAbandoned` what the checks do to the frontier's rows. `Unbind` and `Bind` are the installation
and the tick's binding: another identity raises `revision` and puts every verified artifact up for
another check (`Rebind`, `group_artifacts.py:283`), those of stopped groups too. The frontier then
waits for it, spends an operation on it, and may find it rejected this time. A correction is built
only under the revision of the job it corrects, and what it brings is checked only under that, else
its group stops (`verifier_binding_changed`). A correction goes to the model of the job it corrects.

Abstractions: an answer brings items of one kind (a batch may mix them; `GroupGraph` has batches
whole); one opinion stands for the reviews of a claim (the latest decides); an unfit packet
and an absent model are one hiccup per reason; a packet's context is the set of artifacts it
declares; Lean time behaves as Lean operations do and is in `Verification`. Claims are ordered by id,
target first. With four lineages of one retry each, a chain never reaches `task_depth`
(`MaxDepth` = 4 is out of reach, and TLC confirms it; with a smaller depth it finds the frontier
ending a group before its reserved synthesis).

### ClaimGraph, GroupState, GroupGraph

`db` is a group's rows: agents with their states and updates, tasks, jobs, messages, artifacts,
claims, publications, relationships, reviews, asks, evidence links, receipts and the revision. A
write is an operator from rows to rows or to `Conflict` (the transaction is rolled back); `answers`
are the ids callers were given. `GroupGraph` serves any request of `Requests` at any time and as
often as it likes, leases, retries, completes and cancels jobs, and ingests each answer's batch in
the transaction that records it, as well as again later.

`create_group` is the initial state; its retry changes nothing. `attach_group_claim_task` can only
repeat or conflict, since every task has its focus from the start. Packet contents are the set of
relationships shown, frozen with a graph job. The run's terminal states are folded into `stopped`.
Rejections, which are free, are bounded out: a job is leased at most its cost. That an artifact quotes
the output of its job (`group_artifacts.py:112`) is not compared: any artifact may come from any
completed job of its source. Prerequisites of
artifacts are left to the proof context. `RequestAssumption` says what shape requests have, that
budgets, costs and the status of a closed task are checked (`_number`, `group_state.py:396`), and that
callers do not use keys of the coordinator's own making ("graph:<job>:...", "artifact:..."): `_key`
does not check that, and rows are attributed to batches by their keys.

## 3. Runs

| run | instance | question |
|---|---|---|
| `job_queue` | an ordinary run (one repair, one lease per job) and a group's run, 3 jobs, 3 leases, one rejection, one loop | do the tables stay consistent, the budgets hold, and runs follow the ticket-08 table? |
| `job_queue_two_loops` | one run, two leases per job, one repair, 4 leases, two loops (symmetric) | do late answers and second verdicts change anything that is recorded? |
| `job_queue_live` | two runs, 2 jobs, 3 leases, clock of 2, one rejection | is every candidate judged and does every run end? |
| `group_loop` | one group, 7 jobs, 8 leases, work 14, escalations of cost 1 or 2 | do reason, tasks and work agree with the queue, and are calls informed? |
| `group_loop_live` | one group, 6 jobs, 12 leases, work 12, one branch without affordable escalation | does the loop end without its deadline, unless a transition raises, and with it always? |
| `group_loop_retry` | one group, 6 jobs, 6 leases | violated: the loop does not read a retried answer (section 6) |
| `worker_protocol` | one daemon, 1 job, 2 leases, 3 attempts to submit, 3 faults | is what a worker hears true for good, does the answer behave as `AnswerDelivery`, does every lease end? |
| `verification` | four instances: two processes and an artifact; two processes, a target and a crash; one process, a correction and two changes of the verifier; four inputs under a reserve | do checks, owners, reservations and verdicts agree, and is nothing judged under another binding? |
| `verification_live` | a fixed group's artifact, a graph target and a plain target in one queue, a crash, a change | is every input settled? |
| `verification_stale` | an artifact and a target, two identities | violated: a check that never ran rejects (section 6) |
| `frontier` | twelve groups: long ones, reviewed ones, two claims that are each other's lemmas, tight ones and ones whose verifier is rebound, checks die or packets do not fit | are actions bounded, reserves kept and used, choices informed, reasons true, and does the frontier end? |
| `group_graph` | six instances: budgets, states, messages, the graph at its capacities, ingestion, more batches than room | does any retry, conflict, rejection or capacity leave half a change, a wrong source, or an unannounced one? |

Bounds. *Queue*: jobs, leases, `MaxInitial`, `MaxRejections`, `LeaseTicks`, `MaxRepairs`,
`MaxAssignments`. Three jobs allow two initial jobs with a repair or a group beside a repairing run;
two leases per job reach retry, exhaustion and the late answer of a first lease; a clock of one tick
already separates "lapsed" from "swept". *Group loop*: 14 units of work pay for the six calls and an
escalation of cost 1, and run out after dearer ones; 8 leases leave room for at most two retries or
escalations, and 12 in `group_loop_live` are all that six calls of two leases can use, so no claim
is ever blocked by the bound. *Worker*: three faults can spend all three attempts of one submission,
or a claim's response, a kill and a stray. *Verification*: two changes are a change and its return;
`LeanSays` and `Elapsed` are the outcomes and times of a run; five checks in the live run suffice for
every abandonment and retry; slots and times of the reserve are tight, so that one auxiliary check
too many is refused. *Frontier*: 7 tasks reach repairs, both corrections, a rejection after a
correction and two replans; the tight groups reach every reason to stop but `task_depth`
(`task_limit`, budget, `verification_reserve`, `no_useful_frontier`, ...); one or two misfortunes are
a binding changed under a waiting choice or a correction, and changed back. *Graph*: the capacities of the code (8 agents,
256 states, 64 tasks, 256 to 512 rows, 16 items a batch) are scaled to 1 to 5, at or just above what
the instances ask for, so that each is met.

Deadlock checking is off where the system rightly stops: a queue with no work left or at its bounds,
a stopped group. It is on in `verification` and `group_graph`, where ticks and requests go on.

Fairness. `Expire`, the stop of an overdue group, `PickNext`, `Advance` and `Ticks(p)` are steps of
the scheduler thread, which ticks for ever: weak. `ClaimAny(Kind)`: some worker that runs every kind
keeps polling: weak. `Answer(l)`: a worker that keeps its lease alive answers in the end: weak, and
enough because an expired lease disables it. `Check(c)` is strong: restarts may interrupt a check
any number of times but not for ever. In `worker_protocol` nobody has to claim and no heartbeat has
to be sent; executors return (their job has a timeout), daemons go on submitting, the coordinator
serves what arrives. In `verification_live` an installation that vanished comes back
(`WorldReturns`). In `frontier` one weak condition on everything the scheduler and the leased jobs
can do (`Tick`): each such step makes progress, so that some step is taken is enough. Nothing makes
a deadline pass; `FrontierEnds` therefore says that a group ends by itself, and `LoopEnds` that a loop
does unless a call failed transiently or a transition raises, and that a loop past its deadline always
ends.

## 4. Properties

Each is stated in words at its definition, and `PROJECT.json` gives for each a fault of the code
that it catches. The type invariant of every module but `JobQueue` is the first conjunct of one of
its invariants.

- *Queue*: `SoleLease`, `OneCandidate`, `SolvedIffProved`, `QueueServed`, `RunningWhileLive`,
  `ProtocolBound` (with `WithinBudget`), `RepairChains`; `RecordsStand` and `RunPromise` of steps,
  the last a refinement of `RunLifecycle`; `EveryCandidateJudged`, `RunsEnd`.
- *Fixed loop*: `ReasonExplains`, `WorkAccounted`, `TasksSettled`, `CallsInformed`, `LoopEnds`.
- *Worker*: `AnswerHeard` (a daemon learns its answer's fate unless the network failed every
  attempt), `AnswerPromise` (refinement of `AnswerDelivery`: recorded at most once and only while the
  lease is good; told the truth, for good), `LeaseEnds`.
- *Verification*: `SoleOwner`, `VerdictHasCheck`, `JudgedUnderBinding` (what is verified was checked
  under the present revision of the binding, which A→B→A does not restore), `WithinLean`,
  `TargetNotCrowded` (assuming a reserve that can pay for its completion, `ReserveFits`,
  `docs/repair-evaluation-plan.md:106`), `InputsSettled`.
- *Frontier*: `CorrectedOnce`, `StrategiesBounded`, `TailKept`, `InformedChoice`,
  `GivesUpTruthfully`, `TargetTried`, `FrontierEnds`. `InformedChoice` says that what earlier decisions
  brought is judged before the next choice, unless a rebinding put it up for another check since.
- *Group and graph*: `WorkConserved`, `KeyNamesOneThing`, `BatchWhole`, `SourcesCompleted`,
  `EvidenceExact`, `RevisionTells`, `StatesChained` (refinement of `AgentLog`).

## 5. Proofs

All theorems hold for every set of runs, groups, jobs, leases, loops, daemons, processes, inputs and
checks and every limit, from the assumptions named in the modules: rowids are positive naturals,
limits are naturals, a group's run has no repairs; for the loop, its group may have two leases per
job and models cost 1 to 8; for checks, corrections belong to graph groups; for the frontier, that
every action can be paid for by some model of cost 1 to 8; for a group's requests, that they have the
fields of their operation and a caller's key, never one the coordinator makes for a batch or an artifact
(which `_key` does not check), and that answers hold a sequence of items of the six kinds. TLC evaluates them in every run.

*Queue.* The inductive invariant `IInv` joins the type invariant, `RowInv` (a row only points at
rows that exist) and five safety invariants, because none is preserved alone: that a run is
running only with a live job needs that a swept job was assigned (`SoleLease`); that a run is solved
only by a proof needs that the judged attempt's job is live (`OneCandidate`), so that a repair or a
verdict never meets a job that moved on; that no queued job outlives its run needs every
transaction to end in the refresh. `RefreshFacts` and `SweepFacts` say once what `_refresh` and
`_expire` do; then there is one lemma per action. `TypeCorrect`, `LeaseSafety`, `CandidateSafety`,
`VerifiedPrecedence`, `NoStrandedJob` and `RunningExactly` are its consequences.

*Records and refinement.* `NextKeeps` shows of every step that it keeps the records and moves every
run along `RunLifecycle`'s table; it needs `CheckedLives` (no loop checks a target that was
cancelled unchecked). `RecordsAreFinal` and `QueueKeepsPromise` follow.

*Limits.* `ChainsKept` and `BoundsKept` follow from `BoundInv`. Its `Budget` adds to `WithinBudget`
that a *queued* job has a lease left, which is what `_retry` decides and `claim` relies on. Its
`Families` adds to `RepairChains` that jobs descend from initial jobs (some `root`) and that a family
has one job of each depth: a second one would be the child of another attempt of the same parent,
which `OneCandidate` excludes. Counting then needs no induction: a job is told apart by its root and
depth (`FamilySize`), a lease by its job and a number up to `max_assignments` (`LeasesSize`), and
`Injected` turns both into the products of `protocol/v1.md`. `Budget` and `Families` also keep
the tables finite, from which the cardinalities get their meaning.

*Group.* `LoopImplementsQueue`: each loop transition is a queue step or changes no table, so
`LoopSpec => Spec` and every queue theorem transfers. `ReasonsAreTrue` adds `LoopRows` (calls are
rows; every row is the group's; the synthesis waited for was dispatched) and uses that closed jobs
stay closed and that a solved run is a proved one. `WorkIsAccounted`, `TasksAreSettled` and
`CallsAreInformed` follow from `TaskInv`: `CallRows` (the group's jobs are its calls, of their kinds), `Purse` (what is left and
what the calls took, two leases' worth each, is `MaxWork`), `Progress` (what has been answered and
settled when the loop reaches a phase) and `TasksSettled` itself. `Progress` makes the others
inductive: that a synthesis is informed was decided phases before it is asked.

*Worker.* `WorkerImplementsQueue` likewise: whatever the network does, the queue sees its own
operations. `AnswersAreHeard` and `AnswersDelivered` (the refinement of `AnswerDelivery`) need
`WireInv`: `WireRows` (what travels names leases of the table), `Holders` (a lease is granted once,
and before its daemon has heard anything), `Copies` (all copies of an answer are equal, none is about
before the daemon submits it, so a stray copy can only record what the daemon submits), `Truths` (a
response is true when sent and nothing makes it false: a recorded answer stays, a void lease stays
void) and `ClosedLeases`. None holds alone: that a refusal is final needs that no other copy may
still be recorded under that lease. The steps are grouped by what they do to the wires (`SendStep`,
`GiveUpStep`, `ServedStep`, `TakenStep`), and by what they do to leases (`Quiet`, `ClockVoids`,
`ResultRecords`). `Effort` counts the attempts a daemon has left.

*Verification.* `OneOwner` and `VerdictsChecked` follow from `VInv`: `InHand` (the
check a tick holds is about its input and was begun under its binding, also after the check was
abandoned and its input given to another), `Rows` (a check is being executed exactly while it owns
its input; committed checks have an outcome), `Verdicts` (a verdict comes from one committed check)
and `Bindings` (what is verified carries the bound identity; the checks of a correction carry its
frozen binding). `Verdicts` needs `Rows`, since a late result may only commit while its check still
owns the input, and `Bindings` needs `InHand`, since the binding compared when a result is recorded
is the tick's. Steps that touch no check go through `TablesStep`; `BeginStep` and `ResultStep` do
the rest. `JudgedSafely` adds `Grounded`: each verified artifact has a committed check of the present
*revision* of the binding. A rebind withdraws all that is verified, since `Bindings` says all of it
carries the identity that goes; a verdict is recorded only by a check in hand whose binding, revision
included, is the persisted one, so a check that outlived a change of the verifier and its return
decides nothing. `LeanIsBounded` and `TargetKeepsItsCheck` follow from `BudgetInv`: `Books` (a check that
is still running is charged its full deadline), `Kept` (what is reserved is within the limits and,
where the reserve fits them, leaves the checks still owed to the target) and `Refusing` (a tick that
was refused a target's check was refused because the target's checks are spent, and that stays so).
The charges are sums over the checks that are reserved.

*Frontier.* `Frame` (shapes; rows point back; decisions are made one at a time; what they cost and
what is left is `max_work`) is kept by every step, and with it `NextStep` shows that a step either
decides nothing (`Quiet`) or dispatches one candidate (`Decided`); each further invariant is then
kept by two lemmas. `Keeping` (the tasks, work and operations kept for the completion) gives
`CompletionIsKept`; `Numbered` and `Capped` (the tries of a strategy are numbered and as many as it
is allowed; the leases of plans are within their limit) give `TriesAreBounded`; `Correct` (a
correction answers one rejection by Lean, in its context and under its binding) gives
`CorrectionsAreSingle`; `Resigned` (when the frontier finds nothing useful, everything is closed and
nothing is left to work on) gives `GivingUpIsTruthful`. `Frame` also orders decisions by the revision
they were made under, and lets an artifact older than the latest decision be pending only if the
binding moved on since that decision; `ChoiceIsInformed` follows from it. `TargetIsTried` is the longest: it
needs all of those and `Descent` (only repairs and corrections stand below another strategy, so that
depth cannot be what stops a synthesis), `Trace` (nothing is charged to the target before it is
tried), `Steady` (without a misfortune the binding stays) and `Trying`, and assumes `MaxDepth >= 2`;
the code has 4.

*Finite sets.* The models add with `MapThenSumSet` and choose greatest elements with `Max`.
`FiniteLemmas` proves what is needed of them by least counterexamples over the subsets of a finite
set, which replaces the induction theorems of the library.

*Group and graph.* `Base` is what a group's rows satisfy at every moment of a transaction (links, foci,
sources and publications point at rows that exist and agree with them; keys and contents are
unique), `Complete` what holds when it is over (everything is linked, every task has its focus).
`Kept` is what no step takes back, `Told` that what a packet shows changed only under a new revision.
Every operator of `ClaimGraph` and `GroupState` has a lemma that it keeps `Base`, `Kept` and, from
complete rows, makes complete ones; the operations of the API follow one by one. A batch is a
sequence of such writes: `CourseWrites` follows the recursive function of `Applied` item by item,
with the least failing item as a counterexample, `Places` and `InOrderFacts` show that sorting the
items loses none. `EvidenceStaysExact`, `SourcesAreCompleted` and `RevisionsTell` follow. `WorkIsConserved`
adds `Ledger`: the budgets of the tasks and what is left are `max_work`, and the costs of a task's jobs
and what it has left are its budget, as sums over the tables; most steps are `Steady` (no budget, cost
or remainder changes), and adding a task or a job moves one amount from one side to the other.
`StatesAreChained`, the refinement of `AgentLog`, adds `Logged`: the revisions of an agent's updates
are 1 to its own, each once and under a key of its own, and its state is that of the last; only
`UpdateState` writes (`Written`), every other step is `Unwritten`. `KeysNameOneThing` adds `Given`:
what an answer said of the rows is still recorded. `Kept` keeps it, and two answers under one key then
speak of one row and so of one body (`SameRow`, `SameRequest`). `BatchesAreWhole` adds `Received`: a
receipt is of a completed job and its only one, an accepted batch is `Whole` and any other job's has
no rows. Steps that are no ingestion are `Quiet`. Within one, `CourseTraced` counts what the first n
items have left: as the keys of a batch are distinct and none of its rows was there, each item adds
exactly one row under its key (`ApplyLeaves`), in whatever order the items are applied.

Model-checked only: all liveness (`ENABLED` and induction on ranks under fairness are out of the
prover's reach), and what the two findings refute. Every safety property, action property and
refinement of the passing runs that needs no fairness is a theorem.

## 6. Findings

`group_loop_retry` refutes `RetriedAnswerRead`. `output()` (`group_loop.py:354`) selects the first
assignment of the job with status `completed`; `Store.result` also gives a *failed transient* answer
that status. After one transient failure and a successful retry the loop reads the failure, raises
`KeyError`, is rolled back and isolated in `advance_groups`, and repeats this until its deadline:
the group ends as `deadline` although every call was answered. The protocol promises that transient
failures retry the same job, and the other readers (`group_operations.py`, `claim_graph.py`,
`graph_response.py`) take the latest row. Up to its deadline, `LoopEnds` is accordingly stated for
behaviours without transient failures, and without a text whose transition raises (`Stuck`).

`verification_stale` refutes `OnlyLeanRejects`. `verify_composed` (`verifier.py:189`) probes the
identity itself and returns a *rejection* when it is not the bound one, without starting Lean. If
the verifier is away, or is another one, only while that probe runs, the tick's probe afterwards
(`server.py:349`) finds the bound identity again, nothing is rebound, and the rejection is committed:
the target is rejected, or the artifact set aside for good, by a check that never ran. The binding's
revision, which is to protect "against A→B→A changes" (`docs/ticket-g3-composed-proofs.md:98`),
moves only when a tick stores the identity it saw; and "if identity is temporarily unavailable,
artifact checks stay pending" (`docs/group-loop.md:86`) does not hold of this probe.

## 7. Plan

Done: the queue with its lifecycle; the fixed loop; the worker protocol with its delivery
specification; verification ownership; the frontier; group state, artifacts and claim graph with
ingestion. All of them are checked, and every safety property is proved.

To model next: the pruning of context packets to their limits (`context_packet.py`) and the
selection of declarations for a bundle (`freeze_context`, `composed.py`), both pure functions to be
compared with a reference; and a composition of `Frontier` with `Verification` in which Lean time,
rather than operations, is what runs out.

Not modelled, and why. Prompt assembly and wording, HTTP parsing and routing, the execution of
Docker and Lean, provider clients, the homelab console and the report scripts only perform I/O or
keep no state whose order of change could go wrong; their outcomes enter the models as choices.
Experiments are inserted in one transaction under a unique key, and a model would restate the
insert. Only the local verifier is modelled: the one in Docker runs the image of its binding.
Progress previews are dropped when they are late, and nothing depends on them.

## 8. Running it

`tlc -config X.cfg M.tla`, where `M` is `MCJobQueue` for `JobQueueSmall`, `JobQueueTwoLoops` and
`JobQueueLive`; `MCGroupLoop` for `GroupLoopSafe`, `GroupLoopLive` and `GroupLoopRetry`;
`MCVerification` for `VerificationSafe`, `VerificationLive` and `VerificationStale`; and
`MCWorkerProtocol`, `MCFrontier`, `MCGroupGraph` for the configurations of the same name. Each takes
less than five minutes. `tlapm M.tla` for `JobQueueProofs`, `JobQueueBounds`,
`GroupLoopProofs`, `WorkerProtocolProofs`, `FiniteLemmas`, `VerificationProofs`,
`FrontierProofs` and `GroupGraphProofs`.
