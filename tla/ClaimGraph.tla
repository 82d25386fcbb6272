------------------------------ MODULE ClaimGraph ------------------------------
(***************************************************************************)
(* The claim graph of an agent group (claim_graph.py): what each write     *)
(* makes of the group's rows, inside the transaction of its caller.        *)
(*                                                                         *)
(* A group's rows are one record d. A write yields Done(d', id) or         *)
(* Conflict, after which the caller's transaction is rolled back. Rows are *)
(* appended; the id of a row is its place. What a retried request must     *)
(* repeat exactly is the row's body. Every insertion raises the revision   *)
(* (the triggers of claim_graph_schema.py).                                *)
(***************************************************************************)
EXTENDS Integers, Sequences, FiniteSets, SequencesExt

CONSTANTS
  Environment,    \* of each statement: the imports and environment it is stated in
  MaxClaims, MaxPublications, MaxRelationships, MaxReviews, MaxLinks

Content == DOMAIN Environment

ASSUME ClaimGraphAssumption ==
  {MaxClaims, MaxPublications, MaxRelationships, MaxReviews, MaxLinks} \subseteq Nat \ {0}

Conflict    == [ok |-> FALSE]
Done(d, id) == [ok |-> TRUE, db |-> d, id |-> id]
\* The rest of a transaction is done only when what came before succeeded.
Then(result, rest(_, _)) == IF result.ok THEN rest(result.db, result.id) ELSE Conflict

Raise(d) == [d EXCEPT !.revision = @ + 1]
Add(d, table, row) == [d EXCEPT ![table] = Append(@, row)]
Keyed(d, table, key) == {i \in DOMAIN d[table] : d[table][i].key = key}

\* Fault: a known key is not compared.
InsertAny(d, table, row, limit) ==
  IF Keyed(d, table, row.key) # {} THEN Done(d, CHOOSE i \in Keyed(d, table, row.key) : TRUE)
  ELSE IF Len(d[table]) >= limit THEN Conflict ELSE Done(Add(d, table, row), Len(d[table]) + 1)
\* A request under a known key repeats that request or conflicts with it; a new one needs room.
Insert(d, table, row, limit) ==
  IF Keyed(d, table, row.key) # {}
  THEN LET i == CHOOSE i \in Keyed(d, table, row.key) : TRUE IN
       IF d[table][i].body = row.body THEN Done(d, i) ELSE Conflict
  ELSE IF Len(d[table]) >= limit THEN Conflict ELSE Done(Add(d, table, row), Len(d[table]) + 1)

None == 0
Coordinator == [agent |-> None, task |-> None, job |-> None]

\* Fault: a job that was leased is taken for a source.
SourceLeased(d, s) ==
  s.task # None => /\ s.task \in DOMAIN d.tasks /\ d.tasks[s.task].body.owner = s.agent
                   /\ s.job # None => s.job \in DOMAIN d.jobs /\ d.jobs[s.job].status # "queued"
\* _source: a source is an agent with a task it owns, and a job of theirs that is completed.
SourceOK(d, s) ==
  /\ s.agent # None <=> s.task # None
  /\ s.task # None => s.agent \in DOMAIN d.agents /\ s.task \in DOMAIN d.tasks /\ d.tasks[s.task].body.owner = s.agent
  /\ s.job # None => /\ s.job \in DOMAIN d.jobs /\ d.jobs[s.job].status = "done"
                     /\ d.jobs[s.job].body.task = s.task /\ d.jobs[s.job].body.agent = s.agent

Claims(d, content) == {c \in DOMAIN d.claims : d.claims[c] = content}

\* Fault: every publication makes a claim.
InsertTwin(d, key, content, source) ==
  Then(Insert(d, "publications", [key |-> key, body |-> [content |-> content, source |-> source], claim |-> Len(d.claims) + 1],
              MaxPublications),
       LAMBDA e, p : IF e = d THEN Done(d, d.publications[p].claim)
                     ELSE Done(Raise(Raise(Add(e, "claims", content))), Len(e.claims) + 1))
\* insert_claim: a publication of a claim, which is one with every claim of the same contents.
InsertClaim(d, key, content, source) ==
  LET known == Claims(d, content)
      claim == IF known = {} THEN Len(d.claims) + 1 ELSE CHOOSE c \in known : TRUE
      row   == [key |-> key, body |-> [content |-> content, source |-> source], claim |-> claim]
  IN IF ~ SourceOK(d, source) THEN Conflict
     ELSE Then(Insert(d, "publications", row, MaxPublications), LAMBDA e, p :
            IF e = d THEN Done(d, d.publications[p].claim)
            ELSE IF known # {} THEN Done(Raise(e), claim)
            ELSE IF Len(d.claims) >= MaxClaims THEN Conflict
            ELSE Done(Raise(Raise(Add(e, "claims", content))), claim))

Focus(d, task) == {f \in d.focus : f.task = task}

\* attach_task: a task is about one claim, in one way.
AttachTask(d, task, claim, action) ==
  LET focus == [task |-> task, claim |-> claim, action |-> action] IN
  IF task \notin DOMAIN d.tasks \/ claim \notin DOMAIN d.claims THEN Conflict
  ELSE IF Focus(d, task) = {} THEN Done(Raise([d EXCEPT !.focus = @ \cup {focus}]), task)
  ELSE IF focus \in d.focus THEN Done(d, task) ELSE Conflict

\* attach_evidence: a message may be linked to several claims, an artifact to the one it proves.
AttachEvidence(d, kind, id, claim) ==
  IF \/ claim \notin DOMAIN d.claims \/ id \notin DOMAIN d[kind]
     \/ kind = "artifacts" /\ d.artifacts[id].body.content # d.claims[claim] THEN Conflict
  ELSE IF <<id, claim>> \in d.links[kind] THEN Done(d, id)
  ELSE IF \/ kind = "artifacts" /\ \E l \in d.links[kind] : l[1] = id
          \/ Cardinality(d.links[kind]) >= MaxLinks THEN Conflict
  ELSE Done(Raise([d EXCEPT !.links[kind] = @ \cup {<<id, claim>>}]), id)

Raised(d, result) == Then(result, LAMBDA e, id : Done(IF e = d THEN e ELSE Raise(e), id))

\* propose_group_relationship: an edge between distinct claims of one environment.
ProposeRelationship(d, key, from, to, kind, source) ==
  IF \/ {from, to} \ DOMAIN d.claims # {} \/ from = to
     \/ Environment[d.claims[from]] # Environment[d.claims[to]]
     \/ ~ SourceOK(d, source) THEN Conflict
  ELSE Raised(d, Insert(d, "relationships",
         [key |-> key, body |-> [from |-> from, to |-> to, kind |-> kind, source |-> source]], MaxRelationships))

\* review_group_relationship: an opinion is added, none is replaced.
ReviewRelationship(d, key, relationship, reviewer, status, task, job) ==
  LET source == [agent |-> IF task = None THEN None ELSE reviewer, task |-> task, job |-> job] IN
  IF \/ relationship \notin DOMAIN d.relationships \/ reviewer \notin DOMAIN d.agents
     \/ ~ SourceOK(d, source) THEN Conflict
  ELSE Raised(d, Insert(d, "reviews",
         [key |-> key, body |-> [relationship |-> relationship, reviewer |-> reviewer, status |-> status,
                                 source |-> source]], MaxReviews))

===============================================================================
