------------------------------ MODULE GroupGraph ------------------------------
(***************************************************************************)
(* An agent group with its claim graph, as its callers and its workers     *)
(* change it: requests of the coordinator's API, repeated at will with the *)
(* same or other contents, and answers of jobs, whose batches of proposals *)
(* are ingested in the transaction that records them (graph_response.py).  *)
(***************************************************************************)
EXTENDS GroupState, FiniteSetsExt, TLC

CONSTANTS
  Requests,   \* the requests a caller may make
  Outputs,    \* the answers a job may get
  MaxItems    \* of a batch

Order == <<"claim", "relationship", "review", "finding", "artifact", "ask">>

\* A request is a record of these fields besides its operation and its key.
Asking ==
  [agent |-> {"role"}, update |-> {"agent", "state", "expected"}, close |-> {"task", "status"},
   task |-> {"creator", "owner", "parent", "budget", "claim", "action"},
   job |-> {"task", "agent", "cost", "type", "graph"}, message |-> {"source", "text"},
   opinion |-> {"message", "reviewer", "status"}, claim |-> {"content", "source"}, link |-> {"kind", "id", "claim"},
   relate |-> {"from", "to", "kind", "source"}, review |-> {"relationship", "reviewer", "status", "task", "job"},
   artifact |-> {"content", "proof", "source"}]

\* Numbers and the status of a closed task are checked before anything else (_number). Callers are taken
\* not to use the keys that the coordinator makes itself ("graph:", "artifact:"), which _key does not check.
ASSUME RequestAssumption == \A r \in Requests :
  /\ r.op \in DOMAIN Asking /\ r = [f \in Asking[r.op] \cup {"op", "key"} |-> r[f]]
  /\ r.key[1] = "api"
  /\ r.op = "task" => r.budget \in Nat
  /\ r.op = "job" => r.cost \in Nat
  /\ r.op = "close" => r.status \in {"done", "blocked", "cancelled"}
  /\ r.op = "update" => r.expected \in Nat
  /\ r.op = "link" => r.kind \in {"messages", "artifacts"}
ASSUME OutputAssumption == \A output \in Outputs :
  /\ output.items \in Seq({output.items[i] : i \in DOMAIN output.items})
  /\ \A i \in DOMAIN output.items : \E n \in DOMAIN Order : output.items[i].kind = Order[n]

VARIABLES
  db,         \* the rows of the group
  answers     \* the successful answers callers were given

vars == <<db, answers>>

-------------------------------------------------------------------------------
(* Ingestion *)

\* The items of one kind go before those of the next, those of one kind as they stand.
Rank(item) == CHOOSE n \in DOMAIN Order : Order[n] = item.kind
Place(items, j) ==
  Cardinality({i \in DOMAIN items : \/ Rank(items[i]) < Rank(items[j])
                                   \/ (Rank(items[i]) = Rank(items[j]) /\ i <= j)})
InOrder(items) == [n \in DOMAIN items |-> items[CHOOSE j \in DOMAIN items : Place(items, j) = n]]

\* graph_batch: the keys of a batch are its own and it has few items.
WellFormed(output) ==
  /\ output.form = "batch" /\ Len(output.items) <= MaxItems
  /\ \A i, j \in DOMAIN output.items : i # j => output.items[i].key # output.items[j].key

Mine(job, name) == <<"graph", job, name>>
\* A reference names a row, or an earlier item of the batch.
Resolve(local, kind, ref) ==
  CASE ref.local = "" -> ref.id
    [] <<kind, ref.local>> \in DOMAIN local -> local[<<kind, ref.local>>]
    [] OTHER -> None

\* A finding becomes a message linked to the claim it is about.
Found(d, key, claim, source, text) ==
  IF claim \notin DOMAIN d.claims \/ Len(d.messages) >= MaxMessages THEN Conflict
  ELSE LET e == Add(d, "messages", [key |-> key, body |-> [source |-> source, text |-> text], review |-> Unreviewed])
       IN AttachEvidence(e, "messages", Len(e.messages), claim)

Asked(d, key, claim, action) ==
  IF claim \notin DOMAIN d.claims THEN Conflict
  ELSE Done(Raise(Add(d, "asks", [key |-> key, body |-> [claim |-> claim, action |-> action]])), Len(d.asks) + 1)

\* The relationships the model was shown, or any if it was given no packet.
Shown(d, job) == IF d.jobs[job].body.graph THEN d.jobs[job].shown ELSE DOMAIN d.relationships

\* What one item does; local are the claims and relationships the batch has named so far.
Apply(d, job, item, local) ==
  LET body   == d.jobs[job].body
      source == [agent |-> body.agent, task |-> body.task, job |-> job]
      key    == Mine(job, item.key)
  IN CASE item.kind = "claim"        -> InsertClaim(d, key, item.content, source)
       [] item.kind = "relationship" -> ProposeRelationship(d, key, Resolve(local, "claim", item.from), Resolve(local, "claim", item.to),
                                                            item.type, source)
       [] item.kind = "review"       -> IF Resolve(local, "relationship", item.relationship) \notin Shown(d, job) THEN Conflict
                                        ELSE ReviewRelationship(d, key, Resolve(local, "relationship", item.relationship), body.agent,
                                                                item.status, body.task, job)
       [] item.kind = "finding"      -> Found(d, key, Resolve(local, "claim", item.claim), source, item.text)
       [] item.kind = "artifact"     -> IF \/ body.type # "finding" \/ Resolve(local, "claim", item.claim) \notin DOMAIN d.claims
                                           \/ d.claims[Resolve(local, "claim", item.claim)] # item.content THEN Conflict
                                        ELSE InsertArtifact(d, key, item.content, item.proof, source)
       [] item.kind = "ask"          -> Asked(d, key, Resolve(local, "claim", item.claim), item.action)

\* The items are done one after the other, until one fails.
Proceed(job, state, item) ==
  IF ~ state.result.ok THEN state
  ELSE LET result == Apply(state.result.db, job, item, state.local) IN
       [result |-> result,
        local |-> IF result.ok /\ item.kind \in {"claim", "relationship"}
                  THEN (<<item.kind, item.key>> :> result.id) @@ state.local
                  ELSE state.local]
Applied(d, job) ==
  LET items == InOrder(d.jobs[job].output.items)
      after[n \in 0..Len(items)] ==
        IF n = 0 THEN [result |-> Done(d, job), local |-> << >>] ELSE Proceed(job, after[n - 1], items[n])
  IN after[Len(items)].result

Receipts(d, job) == {r \in d.receipts : r.job = job}
Receive(d, job, status) == [d EXCEPT !.receipts = @ \cup {[job |-> job, status |-> status]}]

\* Fault: a batch is ingested up to the item that fails.
IngestUpTo(d, job) ==
  LET items == InOrder(d.jobs[job].output.items)
      upTo(n) == Applied([d EXCEPT !.jobs[job].output.items = SubSeq(items, 1, n)], job)
      good  == {n \in 0..Len(items) : upTo(n).ok}
      cut   == [upTo(Max(good)).db EXCEPT !.jobs[job].output = d.jobs[job].output]
  IN IF Receipts(d, job) # {} \/ d.jobs[job].output.form = "prose" THEN d
     ELSE IF WellFormed(d.jobs[job].output)
     THEN Receive(cut, job, IF Max(good) = Len(items) THEN "accepted" ELSE "rejected")
     ELSE Receive(d, job, "rejected")
\* _ingest_group_graph_response: once, and whole or not at all; plain text leaves nothing behind.
Ingest(d, job) ==
  IF Receipts(d, job) # {} \/ d.jobs[job].output.form = "prose" THEN d
  ELSE IF WellFormed(d.jobs[job].output) /\ Applied(d, job).ok THEN Receive(Applied(d, job).db, job, "accepted")
  ELSE Receive(d, job, "rejected")

-------------------------------------------------------------------------------
(* Actions *)

\* A transaction commits what it made and answers with the id, or leaves all as it was.
Commit(r, result) ==
  /\ result.ok
  /\ db' = result.db
  /\ answers' = answers \cup {[request |-> r, id |-> result.id]}

AddAgent(r)      == r.op = "agent"   /\ Commit(r, AddedAgent(db, r))
UpdateState(r)   == r.op = "update"  /\ Commit(r, UpdatedState(db, r))
AddTask(r)       == r.op = "task"    /\ Commit(r, AddedTask(db, r))
CloseTask(r)     == r.op = "close"   /\ Commit(r, ClosedTask(db, r.task, r.status))
EnqueueJob(r)    == r.op = "job"     /\ \E shown \in IF r.graph THEN SUBSET DOMAIN db.relationships ELSE {{}} :
                                          Commit(r, EnqueuedJob(db, r, shown))
AddMessage(r)    == r.op = "message" /\ Commit(r, AddedMessage(db, r))
ReviewMessage(r) == r.op = "opinion" /\ Commit(r, ReviewedMessage(db, r))
ProposeClaim(r)  == r.op = "claim"   /\ Commit(r, InsertClaim(db, r.key, r.content, r.source))
LinkEvidence(r)  == r.op = "link"    /\ Commit(r, AttachEvidence(db, r.kind, r.id, r.claim))
Relate(r)        == r.op = "relate"  /\ Commit(r, ProposeRelationship(db, r.key, r.from, r.to, r.kind, r.source))
Review(r)        == r.op = "review"  /\ Commit(r, ReviewRelationship(db, r.key, r.relationship, r.reviewer, r.status,
                                                                     r.task, r.job))
ProposeArtifact(r) == r.op = "artifact" /\ Commit(r, InsertArtifact(db, r.key, r.content, r.proof, r.source))

Serve == \E r \in Requests :
  \/ AddAgent(r) \/ UpdateState(r) \/ AddTask(r) \/ CloseTask(r) \/ EnqueueJob(r) \/ AddMessage(r)
  \/ ReviewMessage(r) \/ ProposeClaim(r) \/ LinkEvidence(r) \/ Relate(r) \/ Review(r) \/ ProposeArtifact(r)

\* Fault: the trigger on the status of jobs is missing.
SetQuietly(d, job, status) == [d EXCEPT !.jobs[job].status = status]
SetStatus(d, job, status) ==
  IF Focus(d, d.jobs[job].body.task) = {} THEN [d EXCEPT !.jobs[job].status = status]
  ELSE Raise([d EXCEPT !.jobs[job].status = status])

LeaseJob(job) ==
  /\ db.jobs[job].status = "queued"
  /\ db' = [SetStatus(db, job, "assigned") EXCEPT !.jobs[job].attempts = @ + 1]
  /\ UNCHANGED answers
\* An attempt is lost or fails: the job goes back to the queue while it has attempts, or is not wanted
\* any more. (The end of a run looks at its attempts first, that of a loop does not.) A permanent
\* failure ends the job whatever attempts it has left.
RetryJob(job) ==
  /\ db.jobs[job].status = "assigned"
  /\ \E status \in {"queued", "failed", "cancelled"} :
       /\ status = "queued" => db.jobs[job].attempts < db.jobs[job].body.cost /\ ~ db.stopped
       /\ status = "cancelled" => db.stopped
       /\ db' = SetStatus(db, job, status)
  /\ UNCHANGED answers

\* The answer is recorded and its batch ingested in one transaction.
CompleteJob(job, output) ==
  /\ db.jobs[job].status = "assigned"
  /\ db' = Ingest([SetStatus(db, job, "done") EXCEPT !.jobs[job].output = output], job)
  /\ UNCHANGED answers

\* A restarted frontier, or a caller, has a completed answer ingested again.
IngestAgain(job) ==
  /\ db.jobs[job].status = "done" /\ db' = Ingest(db, job) /\ UNCHANGED answers

Workers == \E job \in DOMAIN db.jobs :
  LeaseJob(job) \/ RetryJob(job) \/ IngestAgain(job) \/ \E output \in Outputs : CompleteJob(job, output)

\* The loop or the run ends: what is queued is cancelled.
Stop ==
  /\ ~ db.stopped
  /\ LET queued == {j \in DOMAIN db.jobs : db.jobs[j].status = "queued"}
         rows   == [j \in DOMAIN db.jobs |-> IF j \in queued THEN [db.jobs[j] EXCEPT !.status = "cancelled"] ELSE db.jobs[j]]
     IN db' = [db EXCEPT !.stopped = TRUE, !.jobs = rows, !.revision = @ + Cardinality(queued)]
  /\ UNCHANGED answers

Init == db = Group /\ answers = {}
Next == Serve \/ Workers \/ Stop
Spec == Init /\ [][Next]_vars

-------------------------------------------------------------------------------
(* Properties *)

Tables == {"agents", "tasks", "jobs", "messages", "artifacts", "claims", "publications", "relationships",
           "reviews", "asks"}

GTypeOK ==
  /\ db.work \in 0..MaxWork /\ db.stopped \in BOOLEAN /\ db.revision \in Nat
  /\ Len(db.agents) <= MaxAgents /\ Len(db.tasks) <= MaxTasks /\ Len(db.messages) <= MaxMessages
  /\ Len(db.artifacts) <= MaxArtifacts /\ Len(db.claims) <= MaxClaims
  /\ Len(db.publications) <= MaxPublications /\ Len(db.relationships) <= MaxRelationships
  /\ Len(db.reviews) <= MaxReviews
  /\ \A t \in DOMAIN db.tasks : /\ db.tasks[t].status \in {"open", "done", "blocked", "cancelled"}
                                /\ db.tasks[t].depth \in 0..MaxDepth
  /\ \A j \in DOMAIN db.jobs : db.jobs[j].status \in {"queued", "assigned", "done", "failed", "cancelled"}
  /\ \A link \in db.links["messages"] : link[1] \in DOMAIN db.messages /\ link[2] \in DOMAIN db.claims
  /\ \A receipt \in db.receipts : receipt.job \in DOMAIN db.jobs /\ receipt.status \in {"accepted", "rejected"}

Sum(set, f(_)) == MapThenSumSet(f, set)

\* Work is neither made nor lost: what the group has left and what its tasks were given is what it
\* started with, and so for each task and its jobs (add_group_task, enqueue_group_job).
WorkConserved ==
  /\ GTypeOK
  /\ db.work + Sum(DOMAIN db.tasks, LAMBDA t : db.tasks[t].body.budget) = MaxWork
  /\ \A t \in DOMAIN db.tasks :
       /\ db.tasks[t].remaining \in 0..db.tasks[t].body.budget
       /\ db.tasks[t].remaining + Sum({j \in DOMAIN db.jobs : db.jobs[j].body.task = t},
                                      LAMBDA j : db.jobs[j].body.cost) = db.tasks[t].body.budget

\* A task is about the target unless its request names a claim.
Meant(r) == IF r.op = "task" /\ r.claim = None THEN [r EXCEPT !.claim = Root] ELSE r
\* A key names one thing: whoever repeats a request under its key, in whatever state the group is
\* by then, is given the same row, and no other request was ever answered under that key.
KeyNamesOneThing ==
  \A a, b \in answers :
    /\ Meant(a.request) = Meant(b.request) => a.id = b.id
    /\ a.request.op = b.request.op /\ a.request.key = b.request.key
         /\ (a.request.op = "update" => a.request.agent = b.request.agent)
       => Meant(a.request) = Meant(b.request) \/ a.request.op \in {"close", "link", "opinion"}

Updates(a) == {u \in db.updates : u.agent = a}
StateAt(a, n) ==
  IF \E u \in Updates(a) : u.revision = n THEN (CHOOSE u \in Updates(a) : u.revision = n).state ELSE "lost"
Revision(a) == IF a \in DOMAIN db.agents THEN db.agents[a].revision ELSE 0
Log == INSTANCE AgentLog WITH
  Agent   <- 1..MaxAgents,
  State   <- {r.state : r \in {r \in Requests : r.op = "update"}},
  log     <- [a \in 1..MaxAgents |-> [n \in 1..Revision(a) |-> StateAt(a, n)]],
  current <- [a \in 1..MaxAgents |-> IF a \in DOMAIN db.agents THEN db.agents[a].state ELSE ""]
\* The working states of the agents keep the promise of AgentLog: of two writers that read the
\* same state one is refused, and a retried write is not written twice (update_agent_state).
StatesChained == Log!Spec

\* The rows of some tables, and those that job's batch has left behind.
Entries(tables) == UNION {{<<t, i>> : i \in DOMAIN db[t]} : t \in tables}
Left(job) == {e \in Entries(Tables \ {"claims"}) : db[e[1]][e[2]].key[1] = "graph" /\ db[e[1]][e[2]].key[2] = job}
\* A batch is in the graph as a whole and once, if it was accepted, and has left no trace if it was
\* rejected, whichever item, capacity or reference it failed at and however often it is delivered.
BatchWhole ==
  \A j \in DOMAIN db.jobs :
    LET items == db.jobs[j].output.items IN
    /\ Cardinality(Receipts(db, j)) <= 1
    /\ IF \E r \in Receipts(db, j) : r.status = "accepted"
       THEN /\ Cardinality(Left(j)) = Len(items)
            /\ \A i \in DOMAIN items : \E left \in Left(j) : db[left[1]][left[2]].key = Mine(j, items[i].key)
       ELSE Left(j) = {}

Sources == {db[e[1]][e[2]].body.source :
             e \in Entries({"messages", "artifacts", "publications", "relationships", "reviews"})}
\* What a model is credited with it knew: nothing names a job as its source that has not completed
\* for that very agent and task, and a review written from a packet is of a relationship in it
\* (_source, completed_source, _apply_graph_batch).
SourcesCompleted ==
  /\ \A s \in Sources : s.job # None =>
       /\ db.jobs[s.job].status = "done"
       /\ db.jobs[s.job].body.task = s.task /\ db.jobs[s.job].body.agent = s.agent
  /\ \A v \in DOMAIN db.reviews :
       LET review == db.reviews[v] IN
       review.key[1] = "graph" /\ db.jobs[review.key[2]].body.graph
         => review.body.relationship \in db.jobs[review.key[2]].shown

\* One claim per contents and publications of exactly those, each artifact proves the claim that says
\* what it says and no other, relationships join claims of one environment, and a task has one focus
\* (insert_claim, insert_artifact, _focus_task).
EvidenceExact ==
  /\ \A c, d \in DOMAIN db.claims : c # d => db.claims[c] # db.claims[d]
  /\ \A p \in DOMAIN db.publications : db.claims[db.publications[p].claim] = db.publications[p].body.content
  /\ \A a \in DOMAIN db.artifacts :
       /\ Cardinality({link \in db.links["artifacts"] : link[1] = a}) = 1
       /\ <<a, CHOOSE c \in DOMAIN db.claims : db.claims[c] = db.artifacts[a].body.content>> \in db.links["artifacts"]
  /\ \A r \in DOMAIN db.relationships :
       Environment[db.claims[db.relationships[r].body.from]] = Environment[db.claims[db.relationships[r].body.to]]
  /\ \A t \in DOMAIN db.tasks : Cardinality(Focus(db, t)) = 1

Visible(d) ==
  <<d.work, d.focus, d.links, d.claims, d.publications, d.relationships, d.reviews, d.asks,
    [t \in DOMAIN d.tasks |-> d.tasks[t].remaining], [t \in DOMAIN d.tasks |-> d.tasks[t].status],
    [j \in DOMAIN d.jobs |-> d.jobs[j].status], [m \in DOMAIN d.messages |-> d.messages[m].review.status]>>
\* History is only added to: no retry, rollback or late review changes or removes what was recorded.
HistoryKept ==
  /\ \A t \in {"claims", "publications", "relationships", "reviews", "asks", "artifacts"} : IsPrefix(db[t], db'[t])
  /\ db.receipts \subseteq db'.receipts /\ db.focus \subseteq db'.focus
  /\ db.updates \subseteq db'.updates
  /\ \A k \in {"messages", "artifacts"} : db.links[k] \subseteq db'.links[k]
  /\ \A m \in DOMAIN db.messages :
       /\ db'.messages[m].body = db.messages[m].body
       /\ db.messages[m].review.status # "pending" => db'.messages[m].review = db.messages[m].review
  /\ \A t \in DOMAIN db.tasks : db.tasks[t].status # "open" => db'.tasks[t].status = db.tasks[t].status

\* Whatever a packet may show has a new revision when it changes: two packets of one revision are of
\* one graph (the triggers of claim_graph_schema.py and the explicit increments), and what a revision
\* recorded no later one withdraws.
RevisionTells ==
  [][HistoryKept /\ (Visible(db') # Visible(db) => db'.revision > db.revision)]_vars

===============================================================================
