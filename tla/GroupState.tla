------------------------------ MODULE GroupState ------------------------------
(***************************************************************************)
(* The state API of an agent group (group_state.py): agents with their     *)
(* working state, tasks with their budgets, jobs, messages and reviews.    *)
(* As in ClaimGraph an operation maps the group's rows d and a request to  *)
(* Done or Conflict; requests are records, and carry a key of their caller.*)
(***************************************************************************)
EXTENDS ClaimGraph

CONSTANTS
  Target,         \* the statement of the group
  MaxWork, MaxTasks, MaxMessages,   \* of the group
  MaxAgents, MaxUpdates, MaxDepth, MaxArtifacts

ASSUME GroupStateAssumption ==
  /\ Target \in Content
  /\ {MaxWork, MaxTasks, MaxMessages, MaxAgents, MaxUpdates, MaxArtifacts} \subseteq Nat \ {0}
  /\ MaxDepth \in Nat

RootKey == <<"target-root", None, "">>
\* create_group: the target is the first claim.
Group ==
  [work |-> MaxWork, stopped |-> FALSE, agents |-> <<>>, updates |-> {}, tasks |-> <<>>, jobs |-> <<>>,
   messages |-> <<>>, artifacts |-> <<>>, focus |-> {}, links |-> [messages |-> {}, artifacts |-> {}],
   claims |-> <<Target>>,
   publications |-> <<[key |-> RootKey, body |-> [content |-> Target, source |-> Coordinator], claim |-> 1]>>,
   relationships |-> <<>>, reviews |-> <<>>, asks |-> <<>>, receipts |-> {}, revision |-> 2]
Root == 1

\* add_agent
AddedAgent(d, r) ==
  Insert(d, "agents", [key |-> r.key, body |-> [role |-> r.role], state |-> "", revision |-> 0], MaxAgents)

\* Fault: the revision is checked, but not for a state already there.
UpdateUnread(d, r) ==
  LET revision == r.expected + 1 IN
  Done([d EXCEPT !.agents[r.agent].state = r.state, !.agents[r.agent].revision = revision,
                 !.updates = @ \cup {[agent |-> r.agent, key |-> r.key, state |-> r.state, revision |-> revision]}],
       revision)
\* update_agent_state: compare and set; the answer is the revision made.
UpdatedState(d, r) ==
  LET known    == {u \in d.updates : u.agent = r.agent /\ u.key = r.key}
      revision == r.expected + 1
      update   == [agent |-> r.agent, key |-> r.key, state |-> r.state, revision |-> revision]
  IN IF r.agent \notin DOMAIN d.agents \/ r.expected >= MaxUpdates THEN Conflict
     ELSE IF known # {} THEN IF update \in known THEN Done(d, revision) ELSE Conflict
     ELSE IF d.agents[r.agent].revision # r.expected THEN Conflict
     ELSE Done([d EXCEPT !.agents[r.agent].state = r.state, !.agents[r.agent].revision = revision,
                         !.updates = @ \cup {update}], revision)

Take(d, budget) == [d EXCEPT !.work = @ - budget, !.revision = IF d.focus = {} THEN @ ELSE @ + 1]

\* add_group_task: on the target unless a claim is named, from the work of the group.
AddedTask(d, r) ==
  LET claim == IF r.claim = None THEN Root ELSE r.claim
      depth == IF r.parent = None THEN 0 ELSE d.tasks[r.parent].depth + 1
      row   == [key |-> r.key,
                body |-> [creator |-> r.creator, owner |-> r.owner, parent |-> r.parent, budget |-> r.budget],
                remaining |-> r.budget, depth |-> depth, status |-> "open"]
      new   == Keyed(d, "tasks", r.key) = {}
  IN IF {r.creator, r.owner} \ DOMAIN d.agents # {} \/ r.parent \notin DOMAIN d.tasks \cup {None} THEN Conflict
     ELSE IF new /\ \/ depth > MaxDepth \/ r.budget > d.work
                    \/ r.parent # None /\ d.tasks[r.parent].status # "open" THEN Conflict
     ELSE Then(Insert(d, "tasks", row, MaxTasks),
               LAMBDA e, t : AttachTask(IF new THEN Take(e, r.budget) ELSE e, t, claim, r.action))

\* set_group_task_status: what is closed stays as it was closed.
ClosedTask(d, task, status) ==
  IF task \notin DOMAIN d.tasks THEN Conflict
  ELSE IF d.tasks[task].status = status THEN Done(d, task)
  ELSE IF d.tasks[task].status # "open" THEN Conflict
  ELSE Done(Raise([d EXCEPT !.tasks[task].status = status]), task)

\* Fault: the work of a job is not taken from its task.
ReserveNothing(d, task, cost) == Raise(d)
Reserve(d, task, cost) == Raise(Raise([d EXCEPT !.tasks[task].remaining = @ - cost]))

\* enqueue_group_job, bounded only by the work: shown are the relationships in the packet frozen with the job.
EnqueuedJob(d, r, shown) ==
  LET row == [key |-> r.key,
              body |-> [task |-> r.task, agent |-> r.agent, cost |-> r.cost, type |-> r.type, graph |-> r.graph],
              shown |-> shown, status |-> "queued", attempts |-> 0, output |-> "none"]
      new == Keyed(d, "jobs", r.key) = {}
  IN IF r.task \notin DOMAIN d.tasks \/ r.agent \notin DOMAIN d.agents THEN Conflict
     ELSE IF new /\ \/ d.stopped \/ d.tasks[r.task].body.owner # r.agent \/ d.tasks[r.task].status # "open"
                    \/ r.cost > d.tasks[r.task].remaining THEN Conflict
     ELSE Then(Insert(d, "jobs", row, MaxWork + 1), LAMBDA e, j : Done(IF new THEN Reserve(e, r.task, r.cost) ELSE e, j))

\* Each focus of the message's task is linked to it.
LinkedToFocus(d, message) ==
  LET focus == Focus(d, d.messages[message].body.source.task) IN
  IF focus = {} THEN Done(d, message)
  ELSE AttachEvidence(d, "messages", message, (CHOOSE f \in focus : TRUE).claim)

Unreviewed == [status |-> "pending", by |-> None, key |-> RootKey]

\* add_group_message: a message that names a job quotes its output.
AddedMessage(d, r) ==
  LET row == [key |-> r.key, body |-> [source |-> r.source, text |-> r.text], review |-> Unreviewed]
      new == Keyed(d, "messages", r.key) = {}
      job == r.source.job
  IN IF \/ r.source.agent \notin DOMAIN d.agents \/ r.source.task \notin DOMAIN d.tasks
        \/ job # None /\ ~ (/\ job \in DOMAIN d.jobs /\ d.jobs[job].status = "done" /\ d.jobs[job].output = r.text
                            /\ d.jobs[job].body.task = r.source.task /\ d.jobs[job].body.agent = r.source.agent)
     THEN Conflict
     ELSE Then(Insert(d, "messages", row, MaxMessages),
               LAMBDA e, m : IF new THEN LinkedToFocus(e, m) ELSE Done(e, m))

\* review_group_message: the first review counts.
ReviewedMessage(d, r) ==
  LET review == [status |-> r.status, by |-> r.reviewer, key |-> r.key] IN
  IF r.reviewer \notin DOMAIN d.agents \/ r.message \notin DOMAIN d.messages THEN Conflict
  ELSE IF d.messages[r.message].review = review THEN Done(d, r.message)
  ELSE IF d.messages[r.message].review.status # "pending" THEN Conflict
  ELSE Done(IF \E l \in d.links["messages"] : l[1] = r.message
            THEN Raise([d EXCEPT !.messages[r.message].review = review])
            ELSE [d EXCEPT !.messages[r.message].review = review], r.message)

\* insert_artifact: a formal proposal, published as the claim it states and linked to it.
InsertArtifact(d, key, content, proof, source) ==
  LET row == [key |-> key, body |-> [content |-> content, proof |-> proof, source |-> source]]
      job == source.job
  IN IF \/ source.agent \notin DOMAIN d.agents \/ source.task \notin DOMAIN d.tasks
        \/ d.tasks[source.task].body.owner # source.agent
        \/ job # None /\ ~ (SourceOK(d, source) /\ d.jobs[job].body.type = "finding")
     THEN Conflict
     ELSE IF Keyed(d, "artifacts", key) # {} THEN Insert(d, "artifacts", row, MaxArtifacts)
     ELSE Then(Insert(d, "artifacts", row, MaxArtifacts), LAMBDA e, a :
            Then(InsertClaim(e, <<"artifact", a, "">>, content, source), LAMBDA f, c :
              AttachEvidence(f, "artifacts", a, c)))

===============================================================================
