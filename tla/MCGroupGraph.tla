----------------------------- MODULE MCGroupGraph -----------------------------
(* The model-checked instances of GroupGraph: each starts from what a few requests have made of *)
(* a new group, and has the requests and the answers that make one part of the API meet itself. *)
EXTENDS GroupGraph

VARIABLE instance

Environments == [target |-> "lean", lemma |-> "lean", other |-> "lean", stray |-> "mathlib"]

Api(name) == <<"api", 0, name>>
By(agent, task, job) == [agent |-> agent, task |-> task, job |-> job]
Row(id)     == [local |-> "", id |-> id]
Local(name) == [local |-> name, id |-> 0]

Agent(name, role) == [op |-> "agent", key |-> Api(name), role |-> role]
Write(agent, name, state, expected) ==
  [op |-> "update", key |-> Api(name), agent |-> agent, state |-> state, expected |-> expected]
Task(name, owner, parent, budget, claim) ==
  [op |-> "task", key |-> Api(name), creator |-> 1, owner |-> owner, parent |-> parent, budget |-> budget,
   claim |-> claim, action |-> "investigate"]
Close(task, status) == [op |-> "close", key |-> Api("close"), task |-> task, status |-> status]
Job(name, task, agent, cost, type, graph) ==
  [op |-> "job", key |-> Api(name), task |-> task, agent |-> agent, cost |-> cost, type |-> type, graph |-> graph]
Message(name, source, text) == [op |-> "message", key |-> Api(name), source |-> source, text |-> text]
Opinion(name, message, status) ==
  [op |-> "opinion", key |-> Api(name), message |-> message, reviewer |-> 1, status |-> status]
ClaimThat(name, content, source) == [op |-> "claim", key |-> Api(name), content |-> content, source |-> source]
Link(kind, id, claim) == [op |-> "link", key |-> Api("link"), kind |-> kind, id |-> id, claim |-> claim]
Edge(name, from, to, source) ==
  [op |-> "relate", key |-> Api(name), from |-> from, to |-> to, kind |-> "suggests_using", source |-> source]
Judge(name, relationship, status) ==
  [op |-> "review", key |-> Api(name), relationship |-> relationship, reviewer |-> 1, status |-> status,
   task |-> 0, job |-> 0]
Artifact(name, content, source) ==
  [op |-> "artifact", key |-> Api(name), content |-> content, proof |-> "p", source |-> source]

Prose     == [form |-> "prose", items |-> << >>]
Malformed == [form |-> "malformed", items |-> << >>]
Batch(items) == [form |-> "batch", items |-> items]
AClaim(key, content)      == [kind |-> "claim", key |-> key, content |-> content]
AnEdge(key, from, to)     == [kind |-> "relationship", key |-> key, from |-> from, to |-> to, type |-> "suggests_using"]
AReview(key, edge)        == [kind |-> "review", key |-> key, relationship |-> edge, status |-> "challenged"]
AFinding(key, claim)      == [kind |-> "finding", key |-> key, claim |-> claim, text |-> "t"]
AnArtifact(key, claim, content) == [kind |-> "artifact", key |-> key, claim |-> claim, content |-> content, proof |-> "q"]
AnAsk(key, claim)         == [kind |-> "ask", key |-> key, claim |-> claim, action |-> "critique"]

Serve1(d, r) ==
  CASE r.op = "agent" -> AddedAgent(d, r)
    [] r.op = "task"  -> AddedTask(d, r)
    [] r.op = "job"   -> EnqueuedJob(d, r, {})
    [] r.op = "claim" -> InsertClaim(d, r.key, r.content, r.source)
    [] r.op = "relate" -> ProposeRelationship(d, r.key, r.from, r.to, r.kind, r.source)
After(requests) == FoldLeft(LAMBDA d, r : Serve1(d, r).db, Group, requests)

TwoAgents == <<Agent("a", "planner"), Agent("b", "critic")>>
Working   == TwoAgents \o <<Task("t", 1, 0, 3, 0)>>

Budgets == [name |-> "budgets", before |-> TwoAgents, outputs |-> {Prose}, requests |->
  {Agent("c", "critic"), Agent("b", "planner"), Task("t", 1, 0, 2, 0), Task("t", 1, 0, 3, 0), Task("t", 1, 0, 2, 1), Task("u", 2, 1, 2, 0),
   Task("v", 2, 2, 1, 0), Close(1, "done"), Close(1, "blocked"), Job("j", 1, 1, 1, "plan", FALSE),
   Job("j", 1, 1, 2, "plan", FALSE), Job("k", 1, 1, 1, "plan", FALSE), Job("l", 2, 1, 1, "plan", FALSE),
   Job("m", 2, 2, 2, "plan", FALSE)}]
States == [name |-> "states", before |-> TwoAgents, outputs |-> {}, requests |->
  {Write(1, "k", "x", 0), Write(1, "k", "y", 0), Write(1, "l", "y", 0), Write(1, "m", "x", 1), Write(1, "n", "z", 1),
   Write(1, "n", "z", 2), Write(2, "k", "x", 0), Write(2, "l", "x", 1), Write(2, "m", "y", 3)}]
Messages == [name |-> "messages", before |-> Working \o <<ClaimThat("c", "lemma", Coordinator)>>,
  outputs |-> {Prose, Malformed}, requests |->
  {Job("j", 1, 1, 1, "critique", FALSE), Message("m", By(2, 1, 0), Prose), Message("n", By(1, 1, 1), Prose),
   Message("n", By(1, 1, 1), Malformed), Message("m", By(1, 1, 1), Malformed), Opinion("o", 1, "accepted"),
   Opinion("p", 1, "rejected"), Opinion("o", 2, "rejected"), Link("messages", 1, 2), Artifact("f", "other", By(1, 1, 0)),
   ClaimThat("d", "lemma", By(1, 1, 1))}]
Graph == [name |-> "graph", before |-> Working \o <<ClaimThat("c", "lemma", Coordinator)>>, outputs |-> {Prose},
  requests |->
  {ClaimThat("c", "other", Coordinator), ClaimThat("d", "stray", Coordinator), ClaimThat("e", "lemma", By(1, 1, 0)),
   Edge("r", 1, 2, Coordinator), Edge("r", 2, 1, Coordinator), Edge("s", 1, 3, By(1, 1, 0)), Judge("v", 1, "promising"),
   Judge("w", 1, "challenged"), Artifact("f", "lemma", By(1, 1, 0)), Artifact("f", "other", By(1, 1, 0)),
   Artifact("g", "stray", By(1, 1, 0)), Link("artifacts", 1, 3)}]
Ingestion == [name |-> "ingestion",
  before |-> Working \o <<ClaimThat("c", "lemma", Coordinator), Edge("r", 1, 2, Coordinator)>>,
  outputs |->
  {Prose, Malformed,
   Batch(<<AFinding("f", Row(2)), AClaim("c", "other"), AnEdge("e", Row(1), Local("c"))>>),
   Batch(<<AClaim("c", "lemma"), AnArtifact("p", Local("c"), "lemma"), AnAsk("h", Local("c"))>>),
   Batch(<<AClaim("c", "other"), AFinding("f", Local("c")), AnArtifact("p", Row(2), "other")>>),
   Batch(<<AClaim("c", "stray"), AnEdge("e", Row(1), Local("c"))>>),
   Batch(<<AnAsk("h", Row(2)), AReview("v", Row(1))>>),
   Batch(<<AnEdge("e", Row(1), Row(2)), AReview("v", Local("e"))>>),
   Batch(<<AClaim("c", "other"), AFinding("c", Row(1))>>)},
  requests |->
  {Job("j", 1, 1, 1, "finding", TRUE), Job("k", 1, 1, 1, "critique", FALSE),
   Judge("v", 1, "abandoned"), ClaimThat("d", "other", By(1, 1, 1))}]

\* More answers than the graph has room for.
Crowd == [name |-> "crowd", before |-> Working, outputs |->
  {Batch(<<AClaim("c", "lemma"), AnEdge("e", Row(1), Local("c")), AFinding("f", Local("c"))>>),
   Batch(<<AClaim("c", "other"), AClaim("d", "stray"), AnAsk("h", Local("d"))>>),
   Batch(<<AReview("v", Row(1)), AFinding("f", Row(1))>>)},
  requests |->
  {Agent("a", "planner"), Job("j", 1, 1, 1, "plan", TRUE), Job("k", 1, 1, 1, "critique", TRUE), Job("l", 1, 1, 1, "finding", TRUE)}]

Instances == {Budgets, States, Messages, Graph, Ingestion, Crowd}
AllRequests == UNION {i.requests : i \in Instances}
AllOutputs  == UNION {i.outputs : i \in Instances}

MCInit == instance \in Instances /\ db = After(instance.before) /\ answers = {}
Within ==
  /\ answers' \subseteq answers \cup [request : instance.requests, id : 1..4]
  /\ \A j \in DOMAIN db'.jobs : db'.jobs[j].status = "done" => db'.jobs[j].output \in instance.outputs
MCSpec == MCInit /\ [][Next /\ UNCHANGED instance /\ Within]_<<vars, instance>>

===============================================================================
