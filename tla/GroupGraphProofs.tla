--------------------------- MODULE GroupGraphProofs ---------------------------
(***************************************************************************)
(* Theorems about GroupGraph.  Every operation of the API and every item   *)
(* of a batch keeps the rows sound (Base), and keeps what was recorded     *)
(* (Kept); the properties of the runs follow.                              *)
(***************************************************************************)
EXTENDS GroupGraph, FiniteLemmas

-------------------------------------------------------------------------------
(* Rows *)

Fields ==
  {"work", "stopped", "agents", "updates", "tasks", "jobs", "messages", "artifacts", "focus", "links", "claims",
   "publications", "relationships", "reviews", "asks", "receipts", "revision"}
LinkKinds == {"messages", "artifacts"}

IsSeq(s) == s \in Seq({s[i] : i \in DOMAIN s})
Formed(d) ==
  /\ d = [f \in Fields |-> d[f]]
  /\ \A t \in Tables : IsSeq(d[t])
  /\ d.links = [k \in LinkKinds |-> d.links[k]]
  /\ d.revision \in Nat

\* e differs from d in these fields only.
Same(d, e, fs) == \A f \in Fields \ fs : e[f] = d[f]
\* Table t has one more row.
Grew(d, e, t, row) ==
  /\ IsSeq(e[t]) /\ Len(d[t]) \in Nat /\ Len(e[t]) = Len(d[t]) + 1
  /\ DOMAIN d[t] = 1..Len(d[t]) /\ DOMAIN e[t] = DOMAIN d[t] \cup {Len(d[t]) + 1}
  /\ Len(d[t]) + 1 \notin DOMAIN d[t]
  /\ e[t][Len(d[t]) + 1] = row
  /\ \A i \in DOMAIN d[t] : e[t][i] = d[t][i]

LEMMA AppendFacts ==
  ASSUME NEW s, IsSeq(s), NEW x
  PROVE  /\ IsSeq(Append(s, x)) /\ Len(s) \in Nat /\ Len(Append(s, x)) = Len(s) + 1
         /\ DOMAIN s = 1..Len(s) /\ DOMAIN Append(s, x) = 1..(Len(s) + 1)
         /\ Append(s, x)[Len(s) + 1] = x /\ \A i \in DOMAIN s : Append(s, x)[i] = s[i]
<1> DEFINE S == {s[i] : i \in DOMAIN s} \cup {x}  t == Append(s, x)
<1>1. s \in Seq(S)  BY DEF IsSeq
<1>2. /\ t \in Seq(S) /\ Len(t) = Len(s) + 1 /\ t[Len(s) + 1] = x
      /\ DOMAIN s = 1..Len(s) /\ DOMAIN t = 1..(Len(s) + 1) /\ Len(s) \in Nat
      /\ \A i \in DOMAIN s : t[i] = s[i]
  BY <1>1
<1>3. {t[i] : i \in DOMAIN t} = S  BY <1>2
<1>4. QED  BY <1>2, <1>3 DEF IsSeq

LEMMA SeqFacts ==
  ASSUME NEW s, IsSeq(s)
  PROVE  Len(s) \in Nat /\ DOMAIN s = 1..Len(s)
BY DEF IsSeq

LEMMA TableFacts ==
  ASSUME NEW d, Formed(d), NEW t \in Tables
  PROVE  t \in Fields /\ IsSeq(d[t]) /\ Len(d[t]) \in Nat /\ DOMAIN d[t] = 1..Len(d[t])
BY SeqFacts DEF Formed, Tables, Fields

LEMMA AddFacts ==
  ASSUME NEW d, Formed(d), NEW t \in Tables, NEW row
  PROVE  /\ Formed(Add(d, t, row)) /\ Grew(d, Add(d, t, row), t, row) /\ Same(d, Add(d, t, row), {t})
         /\ Add(d, t, row) # d
<1>1. t \in Fields /\ t # "links" /\ t # "revision"  BY DEF Fields, Tables
<1>2. /\ Add(d, t, row)[t] = Append(d[t], row)
      /\ \A f \in Fields \ {t} : Add(d, t, row)[f] = d[f]
      /\ Add(d, t, row) = [f \in Fields |-> Add(d, t, row)[f]]
  BY <1>1 DEF Formed, Add
<1>3. IsSeq(d[t])  BY DEF Formed
<1>4. \A u \in Tables : IsSeq(Add(d, t, row)[u])
  <2> TAKE u \in Tables
  <2>1. u \in Fields /\ IsSeq(d[u]) /\ IsSeq(Append(d[t], row))  BY AppendFacts DEF Formed, Fields, Tables
  <2>2. QED  BY <1>2, <2>1
<1>5. Add(d, t, row).links = d.links /\ Add(d, t, row).revision = d.revision  BY <1>1, <1>2 DEF Fields
<1>6. Formed(Add(d, t, row))  BY <1>2, <1>4, <1>5 DEF Formed
<1>7. Grew(d, Add(d, t, row), t, row)
  BY <1>2, <1>3, AppendFacts DEF Grew
<1>8. Add(d, t, row) # d  BY <1>7 DEF Grew
<1>9. QED  BY <1>2, <1>6, <1>7, <1>8 DEF Same

LEMMA RaiseFacts ==
  ASSUME NEW d, Formed(d)
  PROVE  /\ Formed(Raise(d)) /\ Raise(d).revision = d.revision + 1 /\ Same(d, Raise(d), {"revision"})
<1>1. /\ Raise(d).revision = d.revision + 1
      /\ \A f \in Fields \ {"revision"} : Raise(d)[f] = d[f]
      /\ Raise(d) = [f \in Fields |-> Raise(d)[f]]
  BY DEF Formed, Raise, Fields
<1>2. \A u \in Tables : u \in Fields \ {"revision"}  BY DEF Tables, Fields
<1>3. Raise(d).links = d.links  BY <1>1 DEF Fields
<1>4. QED  BY <1>1, <1>2, <1>3 DEF Formed, Same

Linking(d, k, l) == Raise([d EXCEPT !.links[k] = @ \cup {l}])
LEMMA LinkFacts ==
  ASSUME NEW d, Formed(d), NEW k \in LinkKinds, NEW l
  PROVE  LET e == Linking(d, k, l) IN
         /\ Formed(e) /\ e.links[k] = d.links[k] \cup {l} /\ e.revision = d.revision + 1
         /\ Same(d, e, {"revision", "links"})
         /\ \A m \in LinkKinds \ {k} : e.links[m] = d.links[m]
<1> DEFINE c == [d EXCEPT !.links[k] = @ \cup {l}]
<1>1. /\ Formed(c) /\ c.links[k] = d.links[k] \cup {l} /\ c.revision = d.revision
      /\ \A f \in Fields \ {"revision", "links"} : c[f] = d[f]
      /\ \A m \in LinkKinds \ {k} : c.links[m] = d.links[m]
  BY DEF Formed, Fields, Tables, LinkKinds
<1> HIDE DEF c
<1>2. /\ Formed(Raise(c)) /\ Raise(c).revision = c.revision + 1
      /\ \A f \in Fields \ {"revision"} : Raise(c)[f] = c[f]
  BY <1>1, RaiseFacts DEF Same
<1>3. Raise(c).links = c.links  BY <1>2 DEF Fields
<1>4. QED  BY <1>1, <1>2, <1>3 DEF c, Same, Linking

LEMMA SeqOne == IsSeq(<<>>) /\ \A x : IsSeq(<<x>>)
<1>1. IsSeq(<<>>)  BY DEF IsSeq
<1>2. ASSUME NEW x PROVE IsSeq(<<x>>)
  <2>1. <<x>> \in Seq({x}) /\ DOMAIN <<x>> = {1} /\ <<x>>[1] = x  OBVIOUS
  <2>2. {<<x>>[i] : i \in DOMAIN <<x>>} = {x}  BY <2>1
  <2>3. QED  BY <2>1, <2>2 DEF IsSeq
<1>3. QED  BY <1>1, <1>2

LEMMA GroupFormed == Formed(Group)
<1>1. Group = [f \in Fields |-> Group[f]]  BY DEF Group, Fields
<1>2. \A t \in Tables : IsSeq(Group[t])  BY SeqOne DEF Group, Tables
<1>3. Group.links = [k \in LinkKinds |-> Group.links[k]] /\ Group.revision \in Nat  BY DEF Group, LinkKinds
<1>4. QED  BY <1>1, <1>2, <1>3 DEF Formed

-------------------------------------------------------------------------------
(* What the writes do *)

LEMMA InsertFacts ==
  ASSUME NEW d, NEW t, NEW row, NEW limit, Insert(d, t, row, limit).ok
  PROVE  LET r == Insert(d, t, row, limit) IN
         \/ r.db = d /\ r.id \in Keyed(d, t, row.key) /\ d[t][r.id].body = row.body
         \/ /\ Keyed(d, t, row.key) = {} /\ ~ (Len(d[t]) >= limit)
            /\ r.db = Add(d, t, row) /\ r.id = Len(d[t]) + 1
BY DEF Insert, Done, Conflict

LEMMA InsertClaimFacts ==
  ASSUME NEW d, Formed(d), NEW key, NEW content, NEW source, InsertClaim(d, key, content, source).ok
  PROVE  LET r == InsertClaim(d, key, content, source)  e == r.db
             row == [key |-> key, body |-> [content |-> content, source |-> source], claim |-> r.id] IN
         /\ SourceOK(d, source)
         /\ \/ /\ e = d
               /\ \E p \in Keyed(d, "publications", key) :
                    d.publications[p].body = row.body /\ r.id = d.publications[p].claim
            \/ /\ Formed(e) /\ Keyed(d, "publications", key) = {}
               /\ Grew(d, e, "publications", row) /\ Len(e.publications) <= MaxPublications
               /\ e.revision > d.revision
               /\ \/ /\ Same(d, e, {"publications", "revision"})
                     /\ r.id \in DOMAIN d.claims /\ d.claims[r.id] = content
                  \/ /\ Same(d, e, {"publications", "claims", "revision"})
                     /\ \A c \in DOMAIN d.claims : d.claims[c] # content
                     /\ Grew(d, e, "claims", content) /\ Len(e.claims) <= MaxClaims
                     /\ r.id = Len(d.claims) + 1
<1> DEFINE known == Claims(d, content)
           claim == IF known = {} THEN Len(d.claims) + 1 ELSE CHOOSE c \in known : TRUE
           new   == [key |-> key, body |-> [content |-> content, source |-> source], claim |-> claim]
           put   == Insert(d, "publications", new, MaxPublications)
           r     == InsertClaim(d, key, content, source)
           f     == put.db
<1>1. SourceOK(d, source)  BY DEF InsertClaim, Conflict
<1>2. put.ok
  BY <1>1 DEF InsertClaim, Conflict, Then
<1>3. r = IF f = d THEN Done(d, d.publications[put.id].claim)
          ELSE IF known # {} THEN Done(Raise(f), claim)
          ELSE IF Len(d.claims) >= MaxClaims THEN Conflict
          ELSE Done(Raise(Raise(Add(f, "claims", content))), claim)
  BY <1>1, <1>2 DEF InsertClaim, Then
<1> HIDE DEF r
<1>4. r.ok  BY DEF r
<1>5. new.key = key  OBVIOUS
<1>6. MaxPublications \in Nat /\ MaxClaims \in Nat  BY ClaimGraphAssumption
<1>7. "publications" \in Tables /\ "claims" \in Tables  BY DEF Tables
<1> HIDE DEF put
<1>8. CASE f = d /\ put.id \in Keyed(d, "publications", key) /\ d.publications[put.id].body = new.body
  BY <1>1, <1>3, <1>8 DEF r, Done
<1>9. CASE /\ Keyed(d, "publications", key) = {} /\ ~ (Len(d.publications) >= MaxPublications)
           /\ f = Add(d, "publications", new)
  <2>1. /\ Formed(f) /\ Grew(d, f, "publications", new) /\ Same(d, f, {"publications"}) /\ f # d
    BY <1>7, <1>9, AddFacts
  <2>2. f.revision = d.revision /\ f.claims = d.claims /\ d.revision \in Nat  BY <2>1 DEF Same, Fields, Formed
  <2>3. Len(f.publications) <= MaxPublications  BY <1>6, <1>9, <2>1 DEF Grew
  <2>4. CASE known # {}
    <3>1. r = Done(Raise(f), claim)  BY <1>3, <2>1, <2>4
    <3>2. claim \in DOMAIN d.claims /\ d.claims[claim] = content  BY <2>4 DEF Claims
    <3> HIDE DEF known, claim
    <3>3. r.db = Raise(f) /\ r.id = claim  BY <3>1 DEF Done
    <3>4. /\ Formed(r.db) /\ r.db.revision = f.revision + 1 /\ Same(f, r.db, {"revision"})
      BY <2>1, <3>3, RaiseFacts
    <3>5. r.db.publications = f.publications  BY <3>4 DEF Same, Fields
    <3>6. Same(d, r.db, {"publications", "revision"})  BY <2>1, <3>4 DEF Same
    <3>7. Grew(d, r.db, "publications", new)  BY <2>1, <3>5 DEF Grew
    <3>8. r.db.revision > d.revision  BY <2>2, <3>4
    <3>9. QED  BY <1>1, <1>9, <2>3, <3>2, <3>3, <3>4, <3>5, <3>6, <3>7, <3>8 DEF r
  <2>5. CASE known = {}
    <3>1. ~ (Len(d.claims) >= MaxClaims) /\ r = Done(Raise(Raise(Add(f, "claims", content))), claim)
      BY <1>3, <1>4, <2>1, <2>5 DEF Conflict
    <3>2. claim = Len(d.claims) + 1 /\ \A c \in DOMAIN d.claims : d.claims[c] # content  BY <2>5 DEF Claims
    <3> HIDE DEF known, claim
    <3> DEFINE g == Add(f, "claims", content)
    <3>3. /\ Formed(g) /\ Grew(f, g, "claims", content) /\ Same(f, g, {"claims"})
      BY <1>7, <2>1, AddFacts
    <3> HIDE DEF g
    <3>4. /\ Formed(Raise(g)) /\ Raise(g).revision = g.revision + 1 /\ Same(g, Raise(g), {"revision"})
      BY <3>3, RaiseFacts
    <3> DEFINE h == Raise(Raise(g))
    <3>5. /\ Formed(h) /\ h.revision = Raise(g).revision + 1 /\ Same(Raise(g), h, {"revision"})
      BY <3>4, RaiseFacts
    <3> HIDE DEF h
    <3>6. r.db = h /\ r.id = claim  BY <3>1 DEF Done, g, h
    <3>7. h.publications = f.publications /\ h.claims = g.claims /\ g.revision = d.revision
      BY <2>2, <3>3, <3>4, <3>5 DEF Same, Fields
    <3>8. Same(d, h, {"publications", "claims", "revision"})  BY <2>1, <3>3, <3>4, <3>5 DEF Same
    <3>9. Grew(d, h, "publications", new)  BY <2>1, <3>7 DEF Grew
    <3>10. Grew(d, h, "claims", content)  BY <2>2, <3>3, <3>7 DEF Grew
    <3>11. h.revision > d.revision  BY <2>2, <3>4, <3>5, <3>7
    <3>12. Len(h.claims) <= MaxClaims  BY <1>6, <3>1, <3>10 DEF Grew
    <3>13. QED  BY <1>1, <1>9, <2>3, <3>2, <3>5, <3>6, <3>7, <3>8, <3>9, <3>10, <3>11, <3>12 DEF r
  <2>6. QED  BY <2>4, <2>5
<1>10. QED  BY <1>2, <1>5, <1>8, <1>9, InsertFacts DEF put
LEMMA AttachFacts ==
  ASSUME NEW d, Formed(d), NEW k \in LinkKinds, NEW i, NEW c, AttachEvidence(d, k, i, c).ok
  PROVE  LET r == AttachEvidence(d, k, i, c)  e == r.db IN
         /\ r.id = i /\ c \in DOMAIN d.claims /\ i \in DOMAIN d[k]
         /\ k = "artifacts" => d.artifacts[i].body.content = d.claims[c]
         /\ \/ e = d /\ <<i, c>> \in d.links[k]
            \/ /\ Formed(e) /\ Same(d, e, {"revision", "links"}) /\ e.revision > d.revision
               /\ <<i, c>> \notin d.links[k] /\ e.links[k] = d.links[k] \cup {<<i, c>>}
               /\ \A m \in LinkKinds \ {k} : e.links[m] = d.links[m]
               /\ k = "artifacts" => ~ \E l \in d.links[k] : l[1] = i
<1> DEFINE r == AttachEvidence(d, k, i, c)
           e == Linking(d, k, <<i, c>>)
<1>1. /\ c \in DOMAIN d.claims /\ i \in DOMAIN d[k]
      /\ k = "artifacts" => d.artifacts[i].body.content = d.claims[c]
      /\ \/ <<i, c>> \in d.links[k] /\ r = Done(d, i)
         \/ /\ <<i, c>> \notin d.links[k] /\ r = Done(e, i)
            /\ k = "artifacts" => ~ \E l \in d.links[k] : l[1] = i
  BY DEF AttachEvidence, Conflict, Linking
<1> HIDE DEF r
<1>2. CASE <<i, c>> \in d.links[k] /\ r = Done(d, i)
  BY <1>1, <1>2 DEF r, Done
<1>3. CASE /\ <<i, c>> \notin d.links[k] /\ r = Done(e, i)
           /\ k = "artifacts" => ~ \E l \in d.links[k] : l[1] = i
  <2>1. /\ Formed(e) /\ e.links[k] = d.links[k] \cup {<<i, c>>} /\ e.revision = d.revision + 1
        /\ Same(d, e, {"revision", "links"})
        /\ \A m \in LinkKinds \ {k} : e.links[m] = d.links[m]
    BY LinkFacts
  <2> HIDE DEF e
  <2>2. e.revision > d.revision  BY <2>1 DEF Formed
  <2>3. r.db = e /\ r.id = i  BY <1>3 DEF Done
  <2>4. QED  BY <1>1, <1>3, <2>1, <2>2, <2>3 DEF r
<1>4. QED  BY <1>1, <1>2, <1>3

\* What a raised insertion does.
Entered(d, r, t, row, limit) ==
  \/ r.db = d /\ r.id \in Keyed(d, t, row.key) /\ d[t][r.id].body = row.body
  \/ /\ Formed(r.db) /\ Keyed(d, t, row.key) = {} /\ Grew(d, r.db, t, row) /\ Len(r.db[t]) <= limit
     /\ Same(d, r.db, {t, "revision"}) /\ r.db.revision > d.revision /\ r.id = Len(d[t]) + 1

LEMMA AddRaised ==
  ASSUME NEW d, Formed(d), NEW t \in Tables, NEW row, NEW limit \in Nat, ~ (Len(d[t]) >= limit)
  PROVE  LET e == Raise(Add(d, t, row)) IN
         /\ Formed(e) /\ Grew(d, e, t, row) /\ Len(e[t]) <= limit /\ Same(d, e, {t, "revision"})
         /\ e.revision > d.revision
<1> DEFINE f == Add(d, t, row)
<1>1. Formed(f) /\ Grew(d, f, t, row) /\ Same(d, f, {t})  BY AddFacts
<1> HIDE DEF f
<1>2. Formed(Raise(f)) /\ Raise(f).revision = f.revision + 1 /\ Same(f, Raise(f), {"revision"})  BY <1>1, RaiseFacts
<1>3. t \in Fields \ {"revision"}  BY DEF Tables, Fields
<1>4. Raise(f)[t] = f[t] /\ f.revision = d.revision /\ d.revision \in Nat
  BY <1>1, <1>2, <1>3 DEF Same, Fields, Formed
<1>5. Grew(d, Raise(f), t, row) /\ Len(Raise(f)[t]) <= limit  BY <1>1, <1>4 DEF Grew
<1>6. Same(d, Raise(f), {t, "revision"})  BY <1>1, <1>2 DEF Same
<1>7. QED  BY <1>2, <1>4, <1>5, <1>6 DEF f

LEMMA RaisedFacts ==
  ASSUME NEW d, Formed(d), NEW t \in Tables, NEW row, NEW limit \in Nat,
         Raised(d, Insert(d, t, row, limit)).ok
  PROVE  Entered(d, Raised(d, Insert(d, t, row, limit)), t, row, limit)
<1> DEFINE put == Insert(d, t, row, limit)  r == Raised(d, put)
<1>1. put.ok  BY DEF Raised, Then, Conflict
<1>2. r = Done(IF put.db = d THEN put.db ELSE Raise(put.db), put.id)  BY <1>1 DEF Raised, Then
<1> HIDE DEF r, put
<1>3. \/ put.db = d /\ put.id \in Keyed(d, t, row.key) /\ d[t][put.id].body = row.body
      \/ /\ Keyed(d, t, row.key) = {} /\ ~ (Len(d[t]) >= limit)
         /\ put.db = Add(d, t, row) /\ put.id = Len(d[t]) + 1
  BY <1>1, InsertFacts DEF put
<1>4. Add(d, t, row) # d  BY AddFacts
<1>5. r.id = put.id /\ r.db = (IF put.db = d THEN put.db ELSE Raise(put.db))  BY <1>2 DEF Done
<1>6. CASE put.db = d /\ put.id \in Keyed(d, t, row.key) /\ d[t][put.id].body = row.body
  BY <1>5, <1>6 DEF Entered, r, put
<1>7. CASE /\ Keyed(d, t, row.key) = {} /\ ~ (Len(d[t]) >= limit)
           /\ put.db = Add(d, t, row) /\ put.id = Len(d[t]) + 1
  <2>1. r.db = Raise(Add(d, t, row)) /\ r.id = Len(d[t]) + 1  BY <1>4, <1>5, <1>7
  <2>2. LET e == Raise(Add(d, t, row)) IN
         /\ Formed(e) /\ Grew(d, e, t, row) /\ Len(e[t]) <= limit /\ Same(d, e, {t, "revision"})
         /\ e.revision > d.revision
    BY <1>7, AddRaised
  <2>3. Entered(d, r, t, row, limit)  BY <1>7, <2>1, <2>2 DEF Entered
  <2>4. QED  BY <2>3 DEF r, put
<1>8. QED  BY <1>3, <1>6, <1>7

RelationRow(key, from, to, kind, source) ==
  [key |-> key, body |-> [from |-> from, to |-> to, kind |-> kind, source |-> source]]
LEMMA ProposeFacts ==
  ASSUME NEW d, Formed(d), NEW key, NEW from, NEW to, NEW kind, NEW source,
         ProposeRelationship(d, key, from, to, kind, source).ok
  PROVE  /\ SourceOK(d, source) /\ from \in DOMAIN d.claims /\ to \in DOMAIN d.claims
         /\ Environment[d.claims[from]] = Environment[d.claims[to]]
         /\ Entered(d, ProposeRelationship(d, key, from, to, kind, source), "relationships",
                    RelationRow(key, from, to, kind, source), MaxRelationships)
<1> DEFINE r == ProposeRelationship(d, key, from, to, kind, source)
           row == RelationRow(key, from, to, kind, source)
<1>1. /\ SourceOK(d, source) /\ from \in DOMAIN d.claims /\ to \in DOMAIN d.claims
      /\ Environment[d.claims[from]] = Environment[d.claims[to]]
      /\ r = Raised(d, Insert(d, "relationships", row, MaxRelationships))
  BY DEF ProposeRelationship, Conflict, RelationRow
<1>2. MaxRelationships \in Nat /\ "relationships" \in Tables  BY ClaimGraphAssumption DEF Tables
<1>3. r.ok  OBVIOUS
<1> HIDE DEF r, row
<1>4. Entered(d, r, "relationships", row, MaxRelationships)  BY <1>1, <1>2, <1>3, RaisedFacts
<1>5. QED  BY <1>1, <1>4 DEF r, row

OpinionRow(key, relationship, reviewer, status, task, job) ==
  [key |-> key,
   body |-> [relationship |-> relationship, reviewer |-> reviewer, status |-> status,
             source |-> [agent |-> IF task = None THEN None ELSE reviewer, task |-> task, job |-> job]]]
LEMMA ReviewFacts ==
  ASSUME NEW d, Formed(d), NEW key, NEW relationship, NEW reviewer, NEW status, NEW task, NEW job,
         ReviewRelationship(d, key, relationship, reviewer, status, task, job).ok
  PROVE  LET row == OpinionRow(key, relationship, reviewer, status, task, job) IN
         /\ SourceOK(d, row.body.source) /\ relationship \in DOMAIN d.relationships /\ reviewer \in DOMAIN d.agents
         /\ Entered(d, ReviewRelationship(d, key, relationship, reviewer, status, task, job), "reviews", row, MaxReviews)
<1> DEFINE r == ReviewRelationship(d, key, relationship, reviewer, status, task, job)
           row == OpinionRow(key, relationship, reviewer, status, task, job)
<1>1. /\ SourceOK(d, row.body.source) /\ relationship \in DOMAIN d.relationships /\ reviewer \in DOMAIN d.agents
      /\ r = Raised(d, Insert(d, "reviews", row, MaxReviews))
  BY DEF ReviewRelationship, Conflict, OpinionRow
<1>2. MaxReviews \in Nat /\ "reviews" \in Tables  BY ClaimGraphAssumption DEF Tables
<1>3. r.ok  OBVIOUS
<1> HIDE DEF r, row
<1>4. Entered(d, r, "reviews", row, MaxReviews)  BY <1>1, <1>2, <1>3, RaisedFacts
<1>5. QED  BY <1>1, <1>4 DEF r, row

-------------------------------------------------------------------------------
(* What the rows hold at every moment of a transaction *)

SourceTables == {"messages", "artifacts", "publications", "relationships", "reviews"}
Mutable == {"agents", "tasks", "jobs", "messages"}
Columns ==
  [agents |-> {"key", "body", "state", "revision"},
   tasks |-> {"key", "body", "remaining", "depth", "status"},
   jobs |-> {"key", "body", "shown", "status", "attempts", "output"},
   messages |-> {"key", "body", "review"}]
Capacity ==
  [agents |-> MaxAgents, tasks |-> MaxTasks, messages |-> MaxMessages, artifacts |-> MaxArtifacts,
   claims |-> MaxClaims, publications |-> MaxPublications, relationships |-> MaxRelationships,
   reviews |-> MaxReviews]
Counted == {"agents", "tasks", "messages", "artifacts", "claims", "publications", "relationships", "reviews"}

HasColumns(t, row) == row = [f \in Columns[t] |-> row[f]]
Rowed(d) == \A t \in Mutable : \A i \in DOMAIN d[t] : HasColumns(t, d[t][i])
Limited(d) == \A t \in Counted : Len(d[t]) <= Capacity[t]

\* A key names one row of a table; those of batches are their own.
FromBatch(key) == key[1] = "graph"
KeyOnce(d) ==
  \A t \in Tables \ {"claims"} : \A i, j \in DOMAIN d[t] :
    d[t][i].key = d[t][j].key /\ ~ FromBatch(d[t][i].key) => i = j
Distinct(d) == \A b, c \in DOMAIN d.claims : d.claims[b] = d.claims[c] => b = c
Publishes(d, row) == row.claim \in DOMAIN d.claims /\ d.claims[row.claim] = row.body.content
Published(d) == \A p \in DOMAIN d.publications : Publishes(d, d.publications[p])
\* Links join rows there are; an artifact is linked to one claim, which says what it says.
Links(d, k, l) == l = <<l[1], l[2]>> /\ l[1] \in DOMAIN d[k] /\ l[2] \in DOMAIN d.claims
Linked(d) == \A k \in LinkKinds : \A l \in d.links[k] : Links(d, k, l)
Proved(d) ==
  /\ \A l \in d.links["artifacts"] : d.claims[l[2]] = d.artifacts[l[1]].body.content
  /\ \A l, m \in d.links["artifacts"] : l[1] = m[1] => l = m
Joins(d, row) ==
  /\ row.body.from \in DOMAIN d.claims /\ row.body.to \in DOMAIN d.claims
  /\ Environment[d.claims[row.body.from]] = Environment[d.claims[row.body.to]]
Joined(d) == \A r \in DOMAIN d.relationships : Joins(d, d.relationships[r])
Focused(d) ==
  /\ \A f \in d.focus : f.task \in DOMAIN d.tasks /\ f.claim \in DOMAIN d.claims
  /\ \A f, g \in d.focus : f.task = g.task => f = g
\* What is named as a source is completed; what a review from a packet is about was in it.
Credits(d, s) ==
  s.job # None => /\ s.job \in DOMAIN d.jobs /\ d.jobs[s.job].status = "done"
                  /\ d.jobs[s.job].body.task = s.task /\ d.jobs[s.job].body.agent = s.agent
Credited(d) == \A t \in SourceTables : \A i \in DOMAIN d[t] : Credits(d, d[t][i].body.source)
Sees(d, row) ==
  row.key[1] = "graph" =>
    /\ row.key[2] \in DOMAIN d.jobs
    /\ d.jobs[row.key[2]].body.graph => row.body.relationship \in d.jobs[row.key[2]].shown
Seen(d) == \A v \in DOMAIN d.reviews : Sees(d, d.reviews[v])
\* A job is of a task there is, and an answer is one of those a job may get.
Answered(d) ==
  \A j \in DOMAIN d.jobs : /\ d.jobs[j].body.task \in DOMAIN d.tasks
                           /\ d.jobs[j].status = "done" => d.jobs[j].output \in Outputs

Base(d) ==
  /\ Formed(d) /\ Rowed(d) /\ Limited(d) /\ KeyOnce(d) /\ Distinct(d) /\ Published(d) /\ Linked(d) /\ Proved(d)
  /\ Joined(d) /\ Focused(d) /\ Credited(d) /\ Seen(d) /\ Answered(d)

\* When a transaction is over: every message and artifact is linked, and every task has its focus.
Complete(d) ==
  /\ \A k \in LinkKinds : \A i \in DOMAIN d[k] : \E l \in d.links[k] : l[1] = i
  /\ \A t \in DOMAIN d.tasks : \E f \in d.focus : f.task = t

-------------------------------------------------------------------------------
(* What no step takes back *)

Records == {"claims", "publications", "relationships", "reviews", "asks", "artifacts"}
KeptRecords(d, e) == \A t \in Records : \A i \in DOMAIN d[t] : i \in DOMAIN e[t] /\ e[t][i] = d[t][i]
KeptRows(d, e) ==
  \A t \in Mutable : \A i \in DOMAIN d[t] : i \in DOMAIN e[t] /\ e[t][i].key = d[t][i].key /\ e[t][i].body = d[t][i].body
KeptSets(d, e) ==
  /\ d.receipts \subseteq e.receipts /\ d.updates \subseteq e.updates /\ d.focus \subseteq e.focus
  /\ \A k \in LinkKinds : d.links[k] \subseteq e.links[k]
KeptJob(x, y) == y.shown = x.shown /\ (x.status = "done" => y.status = "done" /\ y.output = x.output)
KeptStates(d, e) ==
  /\ \A m \in DOMAIN d.messages : d.messages[m].review.status # "pending" => e.messages[m].review = d.messages[m].review
  /\ \A t \in DOMAIN d.tasks : d.tasks[t].status # "open" => e.tasks[t].status = d.tasks[t].status
  /\ \A j \in DOMAIN d.jobs : KeptJob(d.jobs[j], e.jobs[j])
Kept(d, e) == KeptRecords(d, e) /\ KeptRows(d, e) /\ KeptSets(d, e) /\ KeptStates(d, e) /\ d.revision <= e.revision

LEMMA KeptSelf == ASSUME NEW d, Formed(d) PROVE Kept(d, d)
<1>1. d.revision <= d.revision  BY DEF Formed
<1>2. QED  BY <1>1 DEF Kept, KeptRecords, KeptRows, KeptSets, KeptStates, KeptJob

LEMMA KeptAgain ==
  ASSUME NEW a, NEW b, NEW c, Formed(a), Formed(b), Formed(c), Kept(a, b), Kept(b, c)
  PROVE  Kept(a, c)
<1>1. KeptRecords(a, c)  BY DEF Kept, KeptRecords
<1>2. KeptRows(a, c)  BY DEF Kept, KeptRows
<1>3. KeptSets(a, c)  BY DEF Kept, KeptSets
<1>4. KeptStates(a, c)
  <2>1. /\ \A m \in DOMAIN a.messages : m \in DOMAIN b.messages
        /\ \A t \in DOMAIN a.tasks : t \in DOMAIN b.tasks
        /\ \A j \in DOMAIN a.jobs : j \in DOMAIN b.jobs
    BY DEF Kept, KeptRows, Mutable
  <2>2. QED  BY <2>1 DEF Kept, KeptStates, KeptJob
<1>5. a.revision <= c.revision  BY DEF Kept, Formed
<1>6. QED  BY <1>1, <1>2, <1>3, <1>4, <1>5 DEF Kept

-------------------------------------------------------------------------------
(* A new row *)

\* What a new row has to be.
Fits(d, t, row) ==
  /\ Keyed(d, t, row.key) = {} \/ FromBatch(row.key)
  /\ t \in Mutable => HasColumns(t, row)
  /\ t \in SourceTables => Credits(d, row.body.source)
  /\ t = "publications" => Publishes(d, row)
  /\ t = "relationships" => Joins(d, row)
  /\ t = "reviews" => Sees(d, row)
  /\ t = "jobs" => row.status # "done" /\ row.body.task \in DOMAIN d.tasks

Adds(d, e, t, row) == Formed(e) /\ Grew(d, e, t, row) /\ Same(d, e, {t, "revision"}) /\ e.revision >= d.revision

LEMMA AddsTables ==
  ASSUME NEW d, Formed(d), NEW e, NEW t \in Tables, NEW row, Adds(d, e, t, row)
  PROVE  /\ \A u \in Tables : \A i \in DOMAIN d[u] : i \in DOMAIN e[u] /\ e[u][i] = d[u][i]
         /\ \A u \in Tables \ {t} : e[u] = d[u]
         /\ e.links = d.links /\ e.focus = d.focus /\ e.receipts = d.receipts /\ e.updates = d.updates
         /\ e.work = d.work /\ e.stopped = d.stopped
<1>1. \A u \in Tables \ {t} : u \in Fields /\ u # "revision"  BY DEF Tables, Fields
<1>2. \A u \in Tables \ {t} : e[u] = d[u]  BY <1>1 DEF Adds, Same
<1>3. \A i \in DOMAIN d[t] : i \in DOMAIN e[t] /\ e[t][i] = d[t][i]  BY DEF Adds, Grew
<1>4. t \notin {"links", "focus", "receipts", "updates", "work", "stopped"}  BY DEF Tables
<1>5. QED  BY <1>2, <1>3, <1>4 DEF Adds, Same, Fields

LEMMA AddsKeep ==
  ASSUME NEW d, Formed(d), NEW e, NEW t \in Tables, NEW row, Adds(d, e, t, row)
  PROVE  Kept(d, e)
<1>1. /\ \A u \in Tables : \A i \in DOMAIN d[u] : i \in DOMAIN e[u] /\ e[u][i] = d[u][i]
      /\ e.links = d.links /\ e.focus = d.focus /\ e.receipts = d.receipts /\ e.updates = d.updates
  BY AddsTables
<1>2. KeptRecords(d, e)  BY <1>1 DEF KeptRecords, Records, Tables
<1>3. KeptRows(d, e)  BY <1>1 DEF KeptRows, Mutable, Tables
<1>4. KeptSets(d, e)  BY <1>1 DEF KeptSets
<1>5. KeptStates(d, e)
  <2>1. /\ \A i \in DOMAIN d.messages : e.messages[i] = d.messages[i]
        /\ \A i \in DOMAIN d.tasks : e.tasks[i] = d.tasks[i]
        /\ \A i \in DOMAIN d.jobs : e.jobs[i] = d.jobs[i]
    BY <1>1 DEF Tables
  <2>2. QED  BY <2>1 DEF KeptStates, KeptJob
<1>6. d.revision <= e.revision  BY DEF Adds, Formed
<1>7. QED  BY <1>2, <1>3, <1>4, <1>5, <1>6 DEF Kept

LEMMA AddsKeyOnce ==
  ASSUME NEW d, KeyOnce(d), NEW e, NEW t \in Tables, NEW row, Adds(d, e, t, row), Formed(d),
         Keyed(d, t, row.key) = {} \/ FromBatch(row.key)
  PROVE  KeyOnce(e)
<1> SUFFICES ASSUME NEW u \in Tables \ {"claims"}, NEW i \in DOMAIN e[u], NEW j \in DOMAIN e[u],
                    e[u][i].key = e[u][j].key, ~ FromBatch(e[u][i].key)
             PROVE  i = j
  BY DEF KeyOnce
<1>1. CASE u # t
  <2>1. e[u] = d[u]  BY <1>1, AddsTables
  <2>2. QED  BY <2>1 DEF KeyOnce
<1>2. CASE u = t
  <2>1. FromBatch(row.key) \/ \A n \in DOMAIN d[t] : d[t][n].key # row.key  BY DEF Keyed
  <2>2. \A n \in DOMAIN e[t] : \/ n \in DOMAIN d[t] /\ e[t][n] = d[t][n]
                               \/ n = Len(d[t]) + 1 /\ e[t][n] = row
    BY DEF Adds, Grew
  <2>3. QED  BY <1>2, <2>1, <2>2 DEF KeyOnce
<1>3. QED  BY <1>1, <1>2

LEMMA AddsBase ==
  ASSUME NEW d, Base(d), NEW e, NEW t \in Tables \ {"claims"}, NEW row, Adds(d, e, t, row), Fits(d, t, row),
         t \in Counted => Len(e[t]) <= Capacity[t]
  PROVE  Base(e)
<1>0. Formed(d) /\ Formed(e) /\ t \in Tables /\ d.revision \in Nat  BY DEF Base, Adds, Formed
<1>1. /\ \A u \in Tables : \A i \in DOMAIN d[u] : i \in DOMAIN e[u] /\ e[u][i] = d[u][i]
      /\ \A u \in Tables \ {t} : e[u] = d[u]
      /\ e.links = d.links /\ e.focus = d.focus
  BY <1>0, AddsTables
\* What is in a table of e was in d, or is the new row.
<1>2. \A u \in Tables : \A i \in DOMAIN e[u] :
        \/ i \in DOMAIN d[u] /\ e[u][i] = d[u][i]
        \/ u = t /\ e[u][i] = row
  <2> TAKE u \in Tables
  <2> TAKE i \in DOMAIN e[u]
  <2>1. CASE u = t  BY <2>1 DEF Adds, Grew
  <2>2. CASE u # t  BY <1>1, <2>2
  <2>3. QED  BY <2>1, <2>2
<1>3. e.claims = d.claims  BY <1>1 DEF Tables
<1>4. /\ \A i \in DOMAIN d.jobs : i \in DOMAIN e.jobs /\ e.jobs[i] = d.jobs[i]
      /\ \A i \in DOMAIN d.tasks : i \in DOMAIN e.tasks /\ e.tasks[i] = d.tasks[i]
      /\ \A i \in DOMAIN d.artifacts : i \in DOMAIN e.artifacts /\ e.artifacts[i] = d.artifacts[i]
  BY <1>1 DEF Tables
<1>5. Rowed(e)
  <2> SUFFICES ASSUME NEW u \in Mutable, NEW i \in DOMAIN e[u] PROVE HasColumns(u, e[u][i])
    BY DEF Rowed
  <2>1. u \in Tables  BY DEF Mutable, Tables
  <2>2. QED  BY <1>2, <2>1 DEF Base, Rowed, Fits
<1>6. Limited(e)
  <2> SUFFICES ASSUME NEW u \in Counted PROVE Len(e[u]) <= Capacity[u]
    BY DEF Limited
  <2>1. u \in Tables  BY DEF Counted, Tables
  <2>2. QED  BY <1>1, <2>1 DEF Base, Limited
<1>7. KeyOnce(e)  BY <1>0, AddsKeyOnce DEF Base, Fits
<1>8. Distinct(e)  BY <1>3 DEF Base, Distinct
<1>9. Published(e)
  <2> SUFFICES ASSUME NEW p \in DOMAIN e.publications PROVE Publishes(e, e.publications[p])
    BY DEF Published
  <2>1. \/ p \in DOMAIN d.publications /\ e.publications[p] = d.publications[p]
        \/ t = "publications" /\ e.publications[p] = row
    BY <1>2 DEF Tables
  <2>2. Publishes(d, e.publications[p])  BY <2>1 DEF Base, Published, Fits
  <2>3. QED  BY <1>3, <2>2 DEF Publishes
<1>10. Linked(e)
  <2> SUFFICES ASSUME NEW k \in LinkKinds, NEW l \in e.links[k] PROVE Links(e, k, l)
    BY DEF Linked
  <2>1. k \in Tables /\ l \in d.links[k]  BY <1>1 DEF LinkKinds, Tables
  <2>2. Links(d, k, l)  BY <2>1 DEF Base, Linked
  <2>3. QED  BY <1>1, <1>3, <2>1, <2>2 DEF Links
<1>11. Proved(e)
  <2>1. \A l \in d.links["artifacts"] : l[1] \in DOMAIN d.artifacts  BY DEF Base, Linked, Links, LinkKinds
  <2>2. QED  BY <1>1, <1>3, <1>4, <2>1 DEF Base, Proved
<1>12. Joined(e)
  <2> SUFFICES ASSUME NEW r \in DOMAIN e.relationships PROVE Joins(e, e.relationships[r])
    BY DEF Joined
  <2>1. \/ r \in DOMAIN d.relationships /\ e.relationships[r] = d.relationships[r]
        \/ t = "relationships" /\ e.relationships[r] = row
    BY <1>2 DEF Tables
  <2>2. Joins(d, e.relationships[r])  BY <2>1 DEF Base, Joined, Fits
  <2>3. QED  BY <1>3, <2>2 DEF Joins
<1>13. Focused(e)  BY <1>1, <1>3, <1>4 DEF Base, Focused
<1>14. Credited(e)
  <2> SUFFICES ASSUME NEW u \in SourceTables, NEW i \in DOMAIN e[u] PROVE Credits(e, e[u][i].body.source)
    BY DEF Credited
  <2>1. u \in Tables  BY DEF SourceTables, Tables
  <2>2. Credits(d, e[u][i].body.source)  BY <1>2, <2>1 DEF Base, Credited, Fits
  <2>3. QED  BY <1>4, <2>2 DEF Credits
<1>15. Seen(e)
  <2> SUFFICES ASSUME NEW v \in DOMAIN e.reviews PROVE Sees(e, e.reviews[v])
    BY DEF Seen
  <2>1. \/ v \in DOMAIN d.reviews /\ e.reviews[v] = d.reviews[v]
        \/ t = "reviews" /\ e.reviews[v] = row
    BY <1>2 DEF Tables
  <2>2. Sees(d, e.reviews[v])  BY <2>1 DEF Base, Seen, Fits
  <2>3. QED  BY <1>4, <2>2 DEF Sees
<1>16. Answered(e)
  <2> SUFFICES ASSUME NEW j \in DOMAIN e.jobs
               PROVE  /\ e.jobs[j].body.task \in DOMAIN e.tasks
                      /\ e.jobs[j].status = "done" => e.jobs[j].output \in Outputs
    BY DEF Answered
  <2>1. \/ j \in DOMAIN d.jobs /\ e.jobs[j] = d.jobs[j]
        \/ t = "jobs" /\ e.jobs[j] = row
    BY <1>2 DEF Tables
  <2>2. QED  BY <1>4, <2>1 DEF Base, Answered, Fits
<1>17. QED
  BY <1>0, <1>5, <1>6, <1>7, <1>8, <1>9, <1>10, <1>11, <1>12, <1>13, <1>14, <1>15, <1>16 DEF Base

-------------------------------------------------------------------------------
(* A new claim, a new link, a new focus, and rows changed where they stand *)

LEMMA ClaimBase ==
  ASSUME NEW d, Base(d), NEW e, NEW content, Adds(d, e, "claims", content),
         \A c \in DOMAIN d.claims : d.claims[c] # content, Len(e.claims) <= MaxClaims
  PROVE  Base(e)
<1>0. Formed(d) /\ Formed(e) /\ "claims" \in Tables /\ d.revision \in Nat  BY DEF Base, Adds, Formed, Tables
<1>1. /\ \A u \in Tables : \A i \in DOMAIN d[u] : i \in DOMAIN e[u] /\ e[u][i] = d[u][i]
      /\ \A u \in Tables \ {"claims"} : e[u] = d[u]
      /\ e.links = d.links /\ e.focus = d.focus
  BY <1>0, AddsTables
<1>2. /\ e.agents = d.agents /\ e.tasks = d.tasks /\ e.jobs = d.jobs /\ e.messages = d.messages
      /\ e.artifacts = d.artifacts /\ e.publications = d.publications /\ e.relationships = d.relationships
      /\ e.reviews = d.reviews /\ \A i \in DOMAIN d.claims : i \in DOMAIN e.claims /\ e.claims[i] = d.claims[i]
  BY <1>1 DEF Tables
<1>3. \A i \in DOMAIN e.claims : \/ i \in DOMAIN d.claims /\ e.claims[i] = d.claims[i]
                                 \/ i = Len(d.claims) + 1 /\ e.claims[i] = content
  BY DEF Adds, Grew
<1>4. Rowed(e)  BY <1>2 DEF Base, Rowed, Mutable
<1>5. Limited(e)
  <2> SUFFICES ASSUME NEW u \in Counted PROVE Len(e[u]) <= Capacity[u]
    BY DEF Limited
  <2>1. u \in Tables /\ Capacity["claims"] = MaxClaims  BY DEF Counted, Tables, Capacity
  <2>2. QED  BY <1>1, <2>1 DEF Base, Limited
<1>6. KeyOnce(e)  BY <1>1 DEF Base, KeyOnce
<1>7. Distinct(e)  BY <1>3 DEF Base, Distinct
<1>8. Published(e)  BY <1>2 DEF Base, Published, Publishes
<1>9. Linked(e)
  <2> SUFFICES ASSUME NEW k \in LinkKinds, NEW l \in e.links[k] PROVE Links(e, k, l)
    BY DEF Linked
  <2>1. k \in Tables /\ l \in d.links[k]  BY <1>1 DEF LinkKinds, Tables
  <2>2. Links(d, k, l)  BY <2>1 DEF Base, Linked
  <2>3. QED  BY <1>1, <1>2, <2>1, <2>2 DEF Links
<1>10. Proved(e)
  <2>1. \A l \in d.links["artifacts"] : l[2] \in DOMAIN d.claims  BY DEF Base, Linked, Links, LinkKinds
  <2>2. QED  BY <1>1, <1>2, <2>1 DEF Base, Proved
<1>11. Joined(e)
  <2> SUFFICES ASSUME NEW r \in DOMAIN d.relationships PROVE Joins(e, d.relationships[r])
    BY <1>2 DEF Joined
  <2>1. Joins(d, d.relationships[r])  BY DEF Base, Joined
  <2>2. QED  BY <1>2, <2>1 DEF Joins
<1>12. Focused(e)  BY <1>1, <1>2 DEF Base, Focused
<1>13. Credited(e)
  <2>1. \A u \in SourceTables : e[u] = d[u]  BY <1>1 DEF SourceTables, Tables
  <2>2. e.jobs = d.jobs  BY <1>2
  <2>3. \A s : Credits(d, s) => Credits(e, s)  BY <2>2 DEF Credits
  <2>4. QED  BY <2>1, <2>3 DEF Base, Credited
<1>14. Seen(e)  BY <1>2 DEF Base, Seen, Sees
<1>15. Answered(e)  BY <1>2 DEF Base, Answered
<1>16. QED
  BY <1>0, <1>4, <1>5, <1>6, <1>7, <1>8, <1>9, <1>10, <1>11, <1>12, <1>13, <1>14, <1>15 DEF Base

\* The tables of two groups of rows are the same.
SameTables(d, e) == Formed(e) /\ (\A u \in Tables : e[u] = d[u]) /\ e.revision >= d.revision

LEMMA SameNames ==
  ASSUME NEW d, NEW e, SameTables(d, e)
  PROVE  /\ e.agents = d.agents /\ e.tasks = d.tasks /\ e.jobs = d.jobs /\ e.messages = d.messages
         /\ e.artifacts = d.artifacts /\ e.publications = d.publications /\ e.relationships = d.relationships
         /\ e.reviews = d.reviews /\ e.claims = d.claims /\ e.asks = d.asks
BY DEF SameTables, Tables

LEMMA SameBase ==
  ASSUME NEW d, Base(d), NEW e, SameTables(d, e), Linked(e), Proved(e), Focused(e)
  PROVE  Base(e)
<1>1. /\ e.agents = d.agents /\ e.tasks = d.tasks /\ e.jobs = d.jobs /\ e.messages = d.messages
      /\ e.artifacts = d.artifacts /\ e.publications = d.publications /\ e.relationships = d.relationships
      /\ e.reviews = d.reviews /\ e.claims = d.claims
  BY SameNames
<1>2. Rowed(e)  BY <1>1 DEF Base, Rowed, Mutable
<1>3. Limited(e)
  <2>1. \A u \in Counted : e[u] = d[u]  BY DEF SameTables, Counted, Tables
  <2>2. QED  BY <2>1 DEF Base, Limited
<1>4. KeyOnce(e)  BY DEF Base, KeyOnce, SameTables
<1>5. Distinct(e) /\ Published(e) /\ Joined(e)
  BY <1>1 DEF Base, Distinct, Published, Publishes, Joined, Joins
<1>6. Credited(e)
  <2>1. \A u \in SourceTables : e[u] = d[u]  BY DEF SameTables, SourceTables, Tables
  <2>2. e.jobs = d.jobs  BY <1>1
  <2>3. \A s : Credits(d, s) => Credits(e, s)  BY <2>2 DEF Credits
  <2>4. QED  BY <2>1, <2>3 DEF Base, Credited
<1>7. Seen(e)  BY <1>1 DEF Base, Seen, Sees
<1>8. Answered(e)  BY <1>1 DEF Base, Answered
<1>9. QED  BY <1>2, <1>3, <1>4, <1>5, <1>6, <1>7, <1>8 DEF Base, SameTables

LEMMA SameKept ==
  ASSUME NEW d, Formed(d), NEW e, SameTables(d, e), KeptSets(d, e)
  PROVE  Kept(d, e)
<1>1. KeptRecords(d, e)  BY DEF KeptRecords, Records, SameTables, Tables
<1>2. KeptRows(d, e)  BY DEF KeptRows, Mutable, SameTables, Tables
<1>3. KeptStates(d, e)  BY SameNames DEF KeptStates, KeptJob
<1>4. d.revision <= e.revision  BY DEF SameTables, Formed
<1>5. QED  BY <1>1, <1>2, <1>3, <1>4 DEF Kept

\* What a successful attachment leaves.
Attached(d, e, k, i, c) ==
  /\ Base(e) /\ Kept(d, e) /\ <<i, c>> \in e.links[k] /\ SameTables(d, e)
  /\ \/ e = d
     \/ Same(d, e, {"revision", "links"}) /\ e.revision > d.revision
  /\ \A m \in LinkKinds : \A l \in e.links[m] : l \in d.links[m] \/ (m = k /\ l = <<i, c>>)

LEMMA AttachBase ==
  ASSUME NEW d, Base(d), NEW k \in LinkKinds, NEW i, NEW c, AttachEvidence(d, k, i, c).ok
  PROVE  LET r == AttachEvidence(d, k, i, c) IN
         /\ r.id = i /\ i \in DOMAIN d[k] /\ c \in DOMAIN d.claims /\ Attached(d, r.db, k, i, c)
         /\ <<i, c>> \notin d.links[k] => r.db.revision > d.revision
<1> DEFINE r == AttachEvidence(d, k, i, c)
<1>0. Formed(d)  BY DEF Base
<1>1. /\ r.id = i /\ c \in DOMAIN d.claims /\ i \in DOMAIN d[k]
      /\ k = "artifacts" => d.artifacts[i].body.content = d.claims[c]
      /\ \/ r.db = d /\ <<i, c>> \in d.links[k]
         \/ /\ Formed(r.db) /\ Same(d, r.db, {"revision", "links"}) /\ r.db.revision > d.revision
            /\ <<i, c>> \notin d.links[k] /\ r.db.links[k] = d.links[k] \cup {<<i, c>>}
            /\ \A m \in LinkKinds \ {k} : r.db.links[m] = d.links[m]
            /\ k = "artifacts" => ~ \E l \in d.links[k] : l[1] = i
  BY <1>0, AttachFacts
<1> HIDE DEF r
<1>2. CASE r.db = d /\ <<i, c>> \in d.links[k]
  <2>1. SameTables(d, d)  BY <1>0 DEF SameTables, Formed
  <2>2. QED  BY <1>0, <1>1, <1>2, <2>1, KeptSelf DEF Attached, r
<1>3. CASE /\ Formed(r.db) /\ Same(d, r.db, {"revision", "links"}) /\ r.db.revision > d.revision
           /\ <<i, c>> \notin d.links[k] /\ r.db.links[k] = d.links[k] \cup {<<i, c>>}
           /\ \A m \in LinkKinds \ {k} : r.db.links[m] = d.links[m]
           /\ k = "artifacts" => ~ \E l \in d.links[k] : l[1] = i
  <2> DEFINE e == r.db
  <2> HIDE DEF e
  <2>0. e = r.db  BY DEF e
  <2>1. \A u \in Tables : u \in Fields \ {"revision", "links"}  BY DEF Tables, Fields
  <2>2. SameTables(d, e)  BY <1>0, <1>3, <2>0, <2>1 DEF SameTables, Same, Formed
  <2>3. e.focus = d.focus /\ e.receipts = d.receipts /\ e.updates = d.updates
    BY <1>3, <2>0 DEF Same, Fields
  <2>4. \A m \in LinkKinds : \A l \in e.links[m] : l \in d.links[m] \/ (m = k /\ l = <<i, c>>)
    BY <1>3, <2>0
  <2>5. \A m \in LinkKinds : d.links[m] \subseteq e.links[m]  BY <1>3, <2>0
  <2>6. Linked(e)
    <3> SUFFICES ASSUME NEW m \in LinkKinds, NEW l \in e.links[m] PROVE Links(e, m, l)
      BY DEF Linked
    <3>1. Links(d, m, l)
      <4>1. CASE l \in d.links[m]  BY <4>1 DEF Base, Linked
      <4>2. CASE m = k /\ l = <<i, c>>  BY <1>1, <4>2 DEF Links
      <4>3. QED  BY <2>4, <4>1, <4>2
    <3>2. e[m] = d[m] /\ e.claims = d.claims  BY <2>2, SameNames DEF SameTables, LinkKinds, Tables
    <3>3. QED  BY <3>1, <3>2 DEF Links
  <2>7. Proved(e)
    <3>1. e.claims = d.claims /\ e.artifacts = d.artifacts  BY <2>2, SameNames
    <3>2. CASE k = "artifacts"
      <4>1. \A l \in e.links["artifacts"] : l \in d.links["artifacts"] \/ l = <<i, c>>
        BY <2>4, <3>2
      <4>2. \A l \in d.links["artifacts"] : l[1] # i  BY <1>3, <3>2
      <4>3. <<i, c>>[1] = i /\ <<i, c>>[2] = c  OBVIOUS
      <4>4. d.artifacts[i].body.content = d.claims[c]  BY <1>1, <3>2
      <4>5. Proved(d)  BY DEF Base
      <4>6. QED  BY <3>1, <4>1, <4>2, <4>3, <4>4, <4>5 DEF Proved
    <3>3. CASE k # "artifacts"
      <4>1. e.links["artifacts"] = d.links["artifacts"]  BY <1>3, <2>0, <3>3 DEF LinkKinds
      <4>2. QED  BY <3>1, <4>1 DEF Base, Proved
    <3>4. QED  BY <3>2, <3>3
  <2>8. Focused(e)
    <3>1. e.tasks = d.tasks /\ e.claims = d.claims  BY <2>2, SameNames
    <3>2. QED  BY <2>3, <3>1 DEF Base, Focused
  <2>9. Base(e)  BY <2>2, <2>6, <2>7, <2>8, SameBase
  <2>10. KeptSets(d, e)  BY <2>3, <2>5 DEF KeptSets
  <2>11. Kept(d, e)  BY <1>0, <2>2, <2>10, SameKept
  <2>12. Attached(d, e, k, i, c)  BY <1>3, <2>0, <2>2, <2>4, <2>9, <2>11 DEF Attached
  <2>13. QED  BY <1>1, <1>3, <2>0, <2>12 DEF r
<1>4. QED  BY <1>1, <1>2, <1>3

-------------------------------------------------------------------------------
(* The writes of the graph: they add, and leave tasks, jobs and work alone *)

Untouched(d, e) ==
  /\ e.work = d.work /\ e.stopped = d.stopped /\ e.tasks = d.tasks /\ e.jobs = d.jobs /\ e.receipts = d.receipts
  /\ e.updates = d.updates /\ e.agents = d.agents /\ e.focus = d.focus
Writes(d, e) ==
  /\ Base(e) /\ Kept(d, e) /\ Untouched(d, e) /\ (Complete(d) => Complete(e))
  /\ e = d \/ e.revision > d.revision

LEMMA WritesSelf == ASSUME NEW d, Base(d) PROVE Writes(d, d)
BY KeptSelf DEF Writes, Untouched, Base

LEMMA WritesAgain ==
  ASSUME NEW a, NEW b, NEW c, Base(a), Writes(a, b), Writes(b, c)
  PROVE  Writes(a, c)
<1>1. Formed(a) /\ Formed(b) /\ Formed(c)  BY DEF Writes, Base
<1>2. Kept(a, c)  BY <1>1, KeptAgain DEF Writes
<1>3. Untouched(a, c)  BY DEF Writes, Untouched
<1>4. a.revision \in Nat /\ b.revision \in Nat /\ c.revision \in Nat  BY <1>1 DEF Formed
<1>5. c = a \/ c.revision > a.revision  BY <1>4 DEF Writes
<1>6. QED  BY <1>2, <1>3, <1>5 DEF Writes

LEMMA CompleteSame ==
  ASSUME NEW d, NEW e, Complete(d), e.messages = d.messages, e.artifacts = d.artifacts, e.tasks = d.tasks,
         e.links = d.links, e.focus = d.focus
  PROVE  Complete(e)
<1>1. \A k \in LinkKinds : e[k] = d[k]  BY DEF LinkKinds
<1>2. QED  BY <1>1 DEF Complete

LEMMA SourceCredits == ASSUME NEW d, NEW s, SourceOK(d, s) PROVE Credits(d, s)
BY DEF SourceOK, Credits

\* A row of a table that needs no link.
LEMMA EnteredWrites ==
  ASSUME NEW d, Base(d), NEW t \in {"relationships", "reviews", "asks", "publications"}, NEW row, NEW e,
         Formed(e), Grew(d, e, t, row), Same(d, e, {t, "revision"}), e.revision > d.revision, Fits(d, t, row),
         t \in Counted => Len(e[t]) <= Capacity[t]
  PROVE  Writes(d, e)
<1>1. t \in Tables \ {"claims"} /\ t \in Tables  BY DEF Tables
<1>2. Formed(d) /\ d.revision \in Nat /\ e.revision \in Nat  BY DEF Base, Formed
<1>3. Adds(d, e, t, row)  BY <1>2 DEF Adds
<1>4. Base(e)  BY <1>1, <1>3, AddsBase
<1>5. Kept(d, e)  BY <1>1, <1>2, <1>3, AddsKeep
<1>6. /\ \A u \in Tables \ {t} : e[u] = d[u]
      /\ e.links = d.links /\ e.focus = d.focus /\ e.receipts = d.receipts /\ e.updates = d.updates
      /\ e.work = d.work /\ e.stopped = d.stopped
  BY <1>1, <1>2, <1>3, AddsTables
<1>7. /\ e.messages = d.messages /\ e.artifacts = d.artifacts /\ e.tasks = d.tasks /\ e.jobs = d.jobs
      /\ e.agents = d.agents
  BY <1>6 DEF Tables
<1>8. Untouched(d, e)  BY <1>6, <1>7 DEF Untouched
<1>9. Complete(d) => Complete(e)  BY <1>6, <1>7, CompleteSame
<1>10. QED  BY <1>4, <1>5, <1>8, <1>9 DEF Writes

LEMMA InsertClaimWrites ==
  ASSUME NEW d, Base(d), NEW key, NEW content, NEW source, InsertClaim(d, key, content, source).ok
  PROVE  LET r == InsertClaim(d, key, content, source) IN
         /\ Writes(d, r.db) /\ r.id \in DOMAIN r.db.claims /\ r.db.claims[r.id] = content
         /\ r.db.messages = d.messages /\ r.db.artifacts = d.artifacts /\ r.db.links = d.links
<1> DEFINE r == InsertClaim(d, key, content, source)  e == r.db
           row == [key |-> key, body |-> [content |-> content, source |-> source], claim |-> r.id]
<1>0. Formed(d) /\ d.revision \in Nat  BY DEF Base, Formed
<1>1. /\ SourceOK(d, source)
      /\ \/ /\ e = d
            /\ \E p \in Keyed(d, "publications", key) :
                 d.publications[p].body = row.body /\ r.id = d.publications[p].claim
         \/ /\ Formed(e) /\ Keyed(d, "publications", key) = {}
            /\ Grew(d, e, "publications", row) /\ Len(e.publications) <= MaxPublications
            /\ e.revision > d.revision
            /\ \/ /\ Same(d, e, {"publications", "revision"})
                  /\ r.id \in DOMAIN d.claims /\ d.claims[r.id] = content
               \/ /\ Same(d, e, {"publications", "claims", "revision"})
                  /\ \A c \in DOMAIN d.claims : d.claims[c] # content
                  /\ Grew(d, e, "claims", content) /\ Len(e.claims) <= MaxClaims
                  /\ r.id = Len(d.claims) + 1
  BY <1>0, InsertClaimFacts
<1>2. row.key = key /\ row.body.source = source /\ row.body.content = content /\ row.claim = r.id  OBVIOUS
<1>3. Credits(d, source)  BY <1>1, SourceCredits
<1>4. Capacity["publications"] = MaxPublications /\ Capacity["claims"] = MaxClaims  BY DEF Capacity
<1> HIDE DEF r, row
<1>5. CASE /\ e = d
           /\ \E p \in Keyed(d, "publications", key) :
                d.publications[p].body = row.body /\ r.id = d.publications[p].claim
  <2>1. PICK p \in Keyed(d, "publications", key) :
          d.publications[p].body = row.body /\ r.id = d.publications[p].claim
    BY <1>5
  <2>2. Publishes(d, d.publications[p])  BY DEF Keyed, Base, Published
  <2>3. r.id \in DOMAIN d.claims /\ d.claims[r.id] = content  BY <1>2, <2>1, <2>2 DEF Publishes
  <2>4. QED  BY <1>5, <2>3, WritesSelf DEF r
<1>6. CASE /\ Formed(e) /\ Keyed(d, "publications", key) = {}
           /\ Grew(d, e, "publications", row) /\ Len(e.publications) <= MaxPublications
           /\ e.revision > d.revision
           /\ Same(d, e, {"publications", "revision"})
           /\ r.id \in DOMAIN d.claims /\ d.claims[r.id] = content
  <2>1. Publishes(d, row)  BY <1>2, <1>6 DEF Publishes
  <2>2. Fits(d, "publications", row)
    BY <1>2, <1>3, <1>6, <2>1 DEF Fits, Mutable, SourceTables
  <2>3. Writes(d, e)  BY <1>4, <1>6, <2>2, EnteredWrites
  <2>4. e.claims = d.claims /\ e.messages = d.messages /\ e.artifacts = d.artifacts /\ e.links = d.links
    BY <1>6 DEF Same, Fields
  <2>5. QED  BY <1>6, <2>3, <2>4 DEF r
<1>7. CASE /\ Formed(e) /\ Keyed(d, "publications", key) = {}
           /\ Grew(d, e, "publications", row) /\ Len(e.publications) <= MaxPublications
           /\ e.revision > d.revision
           /\ Same(d, e, {"publications", "claims", "revision"})
           /\ \A c \in DOMAIN d.claims : d.claims[c] # content
           /\ Grew(d, e, "claims", content) /\ Len(e.claims) <= MaxClaims
           /\ r.id = Len(d.claims) + 1
  <2> DEFINE m == Add(d, "claims", content)
  <2>1. /\ Formed(m) /\ Grew(d, m, "claims", content) /\ Same(d, m, {"claims"})
    BY <1>0, AddFacts DEF Tables
  <2>2. m.claims = e.claims
    <3>1. IsSeq(m.claims) /\ IsSeq(e.claims)  BY <1>7, <2>1 DEF Grew
    <3>2. DOMAIN m.claims = DOMAIN e.claims /\ \A i \in DOMAIN m.claims : m.claims[i] = e.claims[i]
      BY <1>7, <2>1 DEF Grew
    <3>3. QED  BY <3>1, <3>2 DEF IsSeq
  <2> HIDE DEF m
  <2>3. m.revision = d.revision /\ m.publications = d.publications /\ m.jobs = d.jobs
    BY <2>1 DEF Same, Fields
  <2>4. Adds(d, m, "claims", content)
    BY <1>0, <2>1, <2>3 DEF Adds, Same
  <2>5. Len(m.claims) <= MaxClaims  BY <1>7, <2>2
  <2>6. Base(m)  BY <1>7, <2>4, <2>5, ClaimBase
  <2>7. Kept(d, m)  BY <1>0, <2>4, AddsKeep DEF Tables
  <2>8. Untouched(d, m) /\ m.links = d.links /\ m.messages = d.messages /\ m.artifacts = d.artifacts
    BY <2>1 DEF Untouched, Same, Fields
  <2>9. Complete(d) => Complete(m)  BY <2>8, CompleteSame DEF Untouched
  <2>10. r.id \in DOMAIN m.claims /\ m.claims[r.id] = content  BY <1>7, <2>1 DEF Grew
  <2>11. Publishes(m, row)  BY <1>2, <2>10 DEF Publishes
  <2>12. Credits(m, source)  BY <1>3, <2>3 DEF Credits
  <2>13. Keyed(m, "publications", key) = {}  BY <1>7, <2>3 DEF Keyed
  <2>14. Fits(m, "publications", row)  BY <1>2, <2>11, <2>12, <2>13 DEF Fits, Mutable, SourceTables
  <2>15. Grew(m, e, "publications", row)  BY <1>7, <2>3 DEF Grew
  <2>16. Same(m, e, {"publications", "revision"})  BY <1>7, <2>1, <2>2 DEF Same
  <2>17. Writes(m, e)  BY <1>4, <1>7, <2>3, <2>6, <2>14, <2>15, <2>16, EnteredWrites
  <2>18. Formed(m) /\ Formed(e)  BY <1>7, <2>1
  <2>19. Kept(d, e)  BY <1>0, <2>7, <2>17, <2>18, KeptAgain DEF Writes
  <2>20. Untouched(d, e)  BY <2>8, <2>17 DEF Writes, Untouched
  <2>21. Writes(d, e)  BY <1>7, <2>9, <2>17, <2>19, <2>20 DEF Writes
  <2>22. e.messages = d.messages /\ e.artifacts = d.artifacts /\ e.links = d.links
    BY <1>7 DEF Same, Fields
  <2>23. QED  BY <2>2, <2>10, <2>21, <2>22 DEF r
<1>8. QED  BY <1>1, <1>5, <1>6, <1>7

LEMMA RelationWrites ==
  ASSUME NEW d, Base(d), NEW key, NEW from, NEW to, NEW kind, NEW source,
         ProposeRelationship(d, key, from, to, kind, source).ok
  PROVE  Writes(d, ProposeRelationship(d, key, from, to, kind, source).db)
<1> DEFINE r == ProposeRelationship(d, key, from, to, kind, source)
           row == RelationRow(key, from, to, kind, source)
<1>1. /\ SourceOK(d, source) /\ from \in DOMAIN d.claims /\ to \in DOMAIN d.claims
      /\ Environment[d.claims[from]] = Environment[d.claims[to]]
      /\ Entered(d, r, "relationships", row, MaxRelationships)
  BY ProposeFacts DEF Base
<1>2. row.key = key /\ row.body.source = source /\ row.body.from = from /\ row.body.to = to  BY DEF RelationRow
<1> HIDE DEF r, row
<1>3. Joins(d, row) /\ Credits(d, row.body.source)  BY <1>1, <1>2, SourceCredits DEF Joins
<1>4. Capacity["relationships"] = MaxRelationships  BY DEF Capacity
<1>5. CASE r.db = d  BY <1>5, WritesSelf DEF r
<1>6. CASE r.db # d
  <2>1. Fits(d, "relationships", row)  BY <1>1, <1>3, <1>6 DEF Entered, Fits, Mutable, SourceTables
  <2>2. Writes(d, r.db)  BY <1>1, <1>4, <1>6, <2>1, EnteredWrites DEF Entered
  <2>3. QED  BY <2>2 DEF r
<1>7. QED  BY <1>5, <1>6

LEMMA ReviewWrites ==
  ASSUME NEW d, Base(d), NEW key, NEW relationship, NEW reviewer, NEW status, NEW task, NEW job,
         ReviewRelationship(d, key, relationship, reviewer, status, task, job).ok,
         Sees(d, OpinionRow(key, relationship, reviewer, status, task, job))
  PROVE  Writes(d, ReviewRelationship(d, key, relationship, reviewer, status, task, job).db)
<1> DEFINE r == ReviewRelationship(d, key, relationship, reviewer, status, task, job)
           row == OpinionRow(key, relationship, reviewer, status, task, job)
<1>1. SourceOK(d, row.body.source) /\ Entered(d, r, "reviews", row, MaxReviews)  BY ReviewFacts DEF Base
<1>2. Sees(d, row)  OBVIOUS
<1> HIDE DEF r, row
<1>3. Credits(d, row.body.source)  BY <1>1, SourceCredits
<1>4. Capacity["reviews"] = MaxReviews  BY DEF Capacity
<1>5. CASE r.db = d  BY <1>5, WritesSelf DEF r
<1>6. CASE r.db # d
  <2>1. Fits(d, "reviews", row)  BY <1>1, <1>2, <1>3, <1>6 DEF Entered, Fits, Mutable, SourceTables
  <2>2. Writes(d, r.db)  BY <1>1, <1>4, <1>6, <2>1, EnteredWrites DEF Entered
  <2>3. QED  BY <2>2 DEF r
<1>7. QED  BY <1>5, <1>6

\* An attachment, once the row it is about is there.
LEMMA AttachWrites ==
  ASSUME NEW d, Base(d), NEW k \in LinkKinds, NEW i, NEW c, AttachEvidence(d, k, i, c).ok
  PROVE  Writes(d, AttachEvidence(d, k, i, c).db)
<1> DEFINE r == AttachEvidence(d, k, i, c)
<1>1. Attached(d, r.db, k, i, c)  BY AttachBase
<1> HIDE DEF r
<1>2. CASE r.db = d  BY <1>2, WritesSelf DEF r
<1>3. CASE Same(d, r.db, {"revision", "links"}) /\ r.db.revision > d.revision
  <2>1. Untouched(d, r.db)  BY <1>3 DEF Same, Fields, Untouched
  <2>2. Complete(d) => Complete(r.db)
    <3>1. \A m \in LinkKinds : r.db[m] = d[m] /\ d.links[m] \subseteq r.db.links[m]
      BY <1>1 DEF Attached, SameTables, LinkKinds, Tables, Kept, KeptSets
    <3>2. r.db.tasks = d.tasks /\ r.db.focus = d.focus  BY <2>1 DEF Untouched
    <3>3. QED  BY <3>1, <3>2 DEF Complete
  <2>3. QED  BY <1>1, <1>3, <2>1, <2>2 DEF Attached, Writes, r
<1>4. QED  BY <1>1, <1>2, <1>3 DEF Attached

\* A message or an artifact and its link, written in one transaction.
LEMMA LinkedWrites ==
  ASSUME NEW d, Base(d), NEW k \in LinkKinds, NEW row, NEW m, Adds(d, m, k, row),
         NEW f, Writes(m, f), f.messages = m.messages, f.artifacts = m.artifacts, f.links = m.links,
         NEW c, NEW e, Attached(f, e, k, Len(d[k]) + 1, c), e.revision > d.revision
  PROVE  Writes(d, e)
<1> DEFINE i == Len(d[k]) + 1
<1>0. k \in Tables /\ \A u \in LinkKinds : f[u] = m[u]  BY DEF LinkKinds, Tables
<1>1. Formed(d) /\ Formed(m)  BY DEF Base, Adds
<1>3. Kept(d, m)  BY <1>0, <1>1, AddsKeep
<1>4. /\ \A u \in Tables : \A n \in DOMAIN d[u] : n \in DOMAIN m[u] /\ m[u][n] = d[u][n]
      /\ \A u \in Tables \ {k} : m[u] = d[u]
      /\ m.links = d.links /\ m.focus = d.focus /\ m.receipts = d.receipts /\ m.updates = d.updates
      /\ m.work = d.work /\ m.stopped = d.stopped
  BY <1>0, <1>1, AddsTables
<1>5. m.tasks = d.tasks /\ m.jobs = d.jobs /\ m.agents = d.agents  BY <1>4 DEF LinkKinds, Tables
<1>6. Untouched(d, m)  BY <1>4, <1>5 DEF Untouched
<1>7. Attached(f, e, k, i, c)  OBVIOUS
<1>8. Formed(f) /\ Formed(e) /\ Base(e) /\ Kept(f, e)  BY <1>7 DEF Attached, Base, Writes
<1>9. Kept(m, f)  BY DEF Writes
<1>10. Kept(d, f) /\ Kept(d, e)  BY <1>1, <1>3, <1>8, <1>9, KeptAgain
<1>11. Untouched(f, e)
  <2>1. e = f \/ Same(f, e, {"revision", "links"})  BY <1>7 DEF Attached
  <2>2. QED  BY <2>1 DEF Untouched, Same, Fields
<1>12. Untouched(d, e)  BY <1>6, <1>11 DEF Untouched, Writes
<1>13. ASSUME Complete(d) PROVE Complete(e)
  <2>1. \A u \in LinkKinds : e[u] = m[u]  BY <1>0, <1>7 DEF Attached, SameTables, LinkKinds, Tables
  <2>2. \A u \in LinkKinds : f.links[u] \subseteq e.links[u]  BY <1>8 DEF Kept, KeptSets
  <2>3. ASSUME NEW u \in LinkKinds, NEW n \in DOMAIN e[u] PROVE \E l \in e.links[u] : l[1] = n
    <3>1. CASE u = k /\ n = i
      <4>1. <<i, c>> \in e.links[k] /\ <<i, c>>[1] = i  BY <1>7 DEF Attached
      <4>2. QED  BY <3>1, <4>1
    <3>2. CASE u = k /\ n # i
      <4>1. n \in DOMAIN d[k]  BY <2>1, <3>2 DEF Adds, Grew
      <4>2. PICK l \in d.links[k] : l[1] = n  BY <1>13, <4>1 DEF Complete
      <4>3. l \in e.links[k]  BY <1>4, <2>2
      <4>4. QED  BY <3>2, <4>2, <4>3
    <3>3. CASE u # k
      <4>1. u \in Tables /\ m[u] = d[u]  BY <1>4, <3>3 DEF LinkKinds, Tables
      <4>2. PICK l \in d.links[u] : l[1] = n  BY <1>13, <2>1, <4>1 DEF Complete
      <4>3. l \in e.links[u]  BY <1>4, <2>2
      <4>4. QED  BY <4>2, <4>3
    <3>4. QED  BY <3>1, <3>2, <3>3
  <2>4. ASSUME NEW t \in DOMAIN e.tasks PROVE \E g \in e.focus : g.task = t
    BY <1>12, <1>13 DEF Untouched, Complete
  <2>5. QED  BY <2>3, <2>4 DEF Complete
<1>14. QED  BY <1>7, <1>8, <1>10, <1>12, <1>13 DEF Writes

LEMMA AddBase ==
  ASSUME NEW d, Base(d), NEW t \in Tables \ {"claims"}, NEW row, Fits(d, t, row),
         t \in Counted => Capacity[t] \in Nat /\ ~ (Len(d[t]) >= Capacity[t])
  PROVE  Base(Add(d, t, row)) /\ Adds(d, Add(d, t, row), t, row)
<1> DEFINE m == Add(d, t, row)
<1>0. Formed(d) /\ t \in Tables /\ d.revision \in Nat  BY DEF Base, Formed
<1>1. Formed(m) /\ Grew(d, m, t, row) /\ Same(d, m, {t})  BY <1>0, AddFacts
<1> HIDE DEF m
<1>2. t # "revision" /\ m.revision = d.revision  BY <1>0, <1>1 DEF Tables, Fields, Same
<1>3. Adds(d, m, t, row)  BY <1>0, <1>1, <1>2 DEF Adds, Same
<1>4. t \in Counted => Len(m[t]) <= Capacity[t]  BY <1>1 DEF Grew
<1>5. Base(m)  BY <1>3, <1>4, AddsBase
<1>6. QED  BY <1>3, <1>5 DEF m

\* A message, and its link to a claim.
MessageRow(key, source, text) == [key |-> key, body |-> [source |-> source, text |-> text], review |-> Unreviewed]
LEMMA MessageWrites ==
  ASSUME NEW d, Base(d), NEW key, NEW source, NEW text, Keyed(d, "messages", key) = {} \/ FromBatch(key),
         ~ (Len(d.messages) >= MaxMessages), Credits(d, source), NEW c,
         AttachEvidence(Add(d, "messages", MessageRow(key, source, text)), "messages", Len(d.messages) + 1, c).ok
  PROVE  LET m == Add(d, "messages", MessageRow(key, source, text)) IN
         /\ Writes(d, AttachEvidence(m, "messages", Len(d.messages) + 1, c).db)
         /\ AttachEvidence(m, "messages", Len(d.messages) + 1, c).db.messages = m.messages
         /\ Grew(d, m, "messages", MessageRow(key, source, text))
<1> DEFINE row == MessageRow(key, source, text)  m == Add(d, "messages", row)
           r == AttachEvidence(m, "messages", Len(d.messages) + 1, c)
<1>1. row.key = key /\ row.body.source = source /\ HasColumns("messages", row)
  BY DEF MessageRow, HasColumns, Columns
<1> HIDE DEF row
<1>2. MaxMessages \in Nat /\ Capacity["messages"] = MaxMessages  BY GroupStateAssumption DEF Capacity
<1>3. Fits(d, "messages", row)  BY <1>1 DEF Fits
<1>4. Base(m) /\ Adds(d, m, "messages", row)  BY <1>2, <1>3, AddBase DEF Tables
<1>15. Formed(m) /\ Same(d, m, {"messages"})  BY AddFacts DEF Base, Tables
<1>5. m.links = d.links /\ m.revision = d.revision /\ m.revision \in Nat
  BY <1>15 DEF Same, Fields, Formed
<1> HIDE DEF m
<1>6. r.ok  BY DEF m, row
<1>7. /\ Attached(m, r.db, "messages", Len(d.messages) + 1, c)
      /\ <<Len(d.messages) + 1, c>> \notin m.links["messages"] => r.db.revision > m.revision
  BY <1>4, <1>6, AttachBase DEF LinkKinds
<1>8. <<Len(d.messages) + 1, c>> \notin d.links["messages"]
  <2>1. \A l \in d.links["messages"] : l[1] \in DOMAIN d.messages  BY DEF Base, Linked, Links, LinkKinds
  <2>2. Len(d.messages) + 1 \notin DOMAIN d.messages  BY <1>4 DEF Adds, Grew
  <2>3. <<Len(d.messages) + 1, c>>[1] = Len(d.messages) + 1  OBVIOUS
  <2>4. QED  BY <2>1, <2>2, <2>3
<1>9. r.db.revision > d.revision  BY <1>5, <1>7, <1>8
<1>10. Writes(m, m)  BY <1>4, WritesSelf
<1> HIDE DEF r
<1>11. Writes(d, r.db)  BY <1>4, <1>7, <1>9, <1>10, LinkedWrites DEF LinkKinds
<1>12. r.db.messages = m.messages  BY <1>7, SameNames DEF Attached
<1>13. Grew(d, m, "messages", row)  BY <1>4 DEF Adds
<1>14. QED  BY <1>11, <1>12, <1>13 DEF r, m, row

LEMMA FoundWrites ==
  ASSUME NEW d, Base(d), NEW key, NEW claim, NEW source, NEW text, Found(d, key, claim, source, text).ok,
         Credits(d, source), FromBatch(key)
  PROVE  Writes(d, Found(d, key, claim, source, text).db)
<1> DEFINE m == Add(d, "messages", MessageRow(key, source, text))
<1>1. /\ ~ (Len(d.messages) >= MaxMessages)
      /\ Found(d, key, claim, source, text) = AttachEvidence(m, "messages", Len(m.messages), claim)
  BY DEF Found, Conflict, MessageRow
<1>2. Len(m.messages) = Len(d.messages) + 1  BY AddFacts DEF Base, Grew, Tables
<1> HIDE DEF m
<1>3. AttachEvidence(m, "messages", Len(d.messages) + 1, claim).ok  BY <1>1, <1>2
<1>4. Writes(d, AttachEvidence(m, "messages", Len(d.messages) + 1, claim).db)  BY <1>1, <1>3, MessageWrites DEF m
<1>5. QED  BY <1>1, <1>2, <1>4

LEMMA AskedWrites ==
  ASSUME NEW d, Base(d), NEW key, NEW claim, NEW action, Asked(d, key, claim, action).ok, FromBatch(key)
  PROVE  Writes(d, Asked(d, key, claim, action).db)
<1> DEFINE row == [key |-> key, body |-> [claim |-> claim, action |-> action]]
           m == Add(d, "asks", row)  e == Raise(m)
<1>1. Asked(d, key, claim, action).db = e  BY DEF Asked, Conflict, Done
<1>2. row.key = key  OBVIOUS
<1> HIDE DEF row
<1>3. Formed(m) /\ Grew(d, m, "asks", row) /\ Same(d, m, {"asks"}) /\ d.revision \in Nat
  BY AddFacts DEF Base, Tables, Formed
<1> HIDE DEF m
<1>4. Formed(e) /\ e.revision = m.revision + 1 /\ Same(m, e, {"revision"})  BY <1>3, RaiseFacts
<1> HIDE DEF e
<1>5. e.asks = m.asks /\ m.revision = d.revision  BY <1>3, <1>4 DEF Same, Fields
<1>6. Same(d, e, {"asks", "revision"})  BY <1>3, <1>4 DEF Same
<1>7. Grew(d, e, "asks", row)  BY <1>3, <1>5 DEF Grew
<1>8. Fits(d, "asks", row)  BY <1>2 DEF Fits, Mutable, SourceTables
<1>9. e.revision > d.revision /\ "asks" \notin Counted  BY <1>3, <1>4, <1>5 DEF Counted
<1>10. Writes(d, e)  BY <1>4, <1>6, <1>7, <1>8, <1>9, EnteredWrites
<1>11. QED  BY <1>1, <1>10

LEMMA ArtifactWrites ==
  ASSUME NEW d, Base(d), NEW key, NEW content, NEW proof, NEW source, InsertArtifact(d, key, content, proof, source).ok
  PROVE  Writes(d, InsertArtifact(d, key, content, proof, source).db)
<1> DEFINE row == [key |-> key, body |-> [content |-> content, proof |-> proof, source |-> source]]
           put == Insert(d, "artifacts", row, MaxArtifacts)
           pub == InsertClaim(put.db, <<"artifact", put.id, "">>, content, source)
           r   == InsertArtifact(d, key, content, proof, source)
<1>1. source.job # None => SourceOK(d, source)  BY DEF InsertArtifact, Conflict
<1>2. put.ok  BY DEF InsertArtifact, Conflict, Then
<1>3. IF Keyed(d, "artifacts", key) # {} THEN r = put
      ELSE r = IF pub.ok THEN AttachEvidence(pub.db, "artifacts", put.id, pub.id) ELSE Conflict
  BY <1>2 DEF InsertArtifact, Conflict, Then
<1>4. row.key = key /\ row.body.source = source  OBVIOUS
<1>5. r.ok  OBVIOUS
<1>6. \/ put.db = d
      \/ /\ Keyed(d, "artifacts", key) = {} /\ ~ (Len(d.artifacts) >= MaxArtifacts)
         /\ put.db = Add(d, "artifacts", row) /\ put.id = Len(d.artifacts) + 1
  BY <1>2, <1>4, InsertFacts
<1>7. Credits(d, source)  BY <1>1 DEF SourceOK, Credits
<1> HIDE DEF row, r
<1>8. CASE Keyed(d, "artifacts", key) # {}
  <2>1. r.db = d  BY <1>3, <1>6, <1>8
  <2>2. QED  BY <2>1, WritesSelf DEF r
<1>9. CASE Keyed(d, "artifacts", key) = {}
  <2>1. /\ ~ (Len(d.artifacts) >= MaxArtifacts) /\ put.db = Add(d, "artifacts", row) /\ put.id = Len(d.artifacts) + 1
    <3>1. Insert(d, "artifacts", row, MaxArtifacts) = IF Len(d.artifacts) >= MaxArtifacts THEN Conflict
             ELSE Done(Add(d, "artifacts", row), Len(d.artifacts) + 1)
      BY <1>4, <1>9 DEF Insert
    <3>2. QED  BY <1>2, <3>1 DEF Conflict, Done
  <2>20. r = IF pub.ok THEN AttachEvidence(pub.db, "artifacts", put.id, pub.id) ELSE Conflict  BY <1>3, <1>9
  <2>21. ~ Conflict.ok  BY DEF Conflict
  <2>2. pub.ok /\ r = AttachEvidence(pub.db, "artifacts", put.id, pub.id)
    <3> HIDE DEF pub
    <3>1. QED  BY <1>5, <2>20, <2>21
  <2>3. MaxArtifacts \in Nat /\ Capacity["artifacts"] = MaxArtifacts  BY GroupStateAssumption DEF Capacity
  <2>4. Fits(d, "artifacts", row)  BY <1>4, <1>7, <1>9 DEF Fits, Mutable
  <2> DEFINE m == Add(d, "artifacts", row)
  <2>5. Base(m) /\ Adds(d, m, "artifacts", row)  BY <2>1, <2>3, <2>4, AddBase DEF Tables
  <2>15. Formed(m) /\ Same(d, m, {"artifacts"})  BY AddFacts DEF Base, Tables
  <2>6. m.links = d.links /\ m.revision = d.revision /\ m.revision \in Nat
    BY <2>15 DEF Same, Fields, Formed
  <2> HIDE DEF m
  <2>7. put.db = m  BY <2>1 DEF m
  <2> DEFINE f == pub.db  i == Len(d.artifacts) + 1
  <2> DEFINE q == <<"artifact", put.id, "">>
  <2>22. pub = InsertClaim(m, q, content, source)  BY <2>7
  <2> HIDE DEF put, pub, q
  <2>23. InsertClaim(m, q, content, source).ok  BY <2>2, <2>22
  <2>24. LET w == InsertClaim(m, q, content, source) IN
         /\ Writes(m, w.db) /\ w.db.messages = m.messages /\ w.db.artifacts = m.artifacts /\ w.db.links = m.links
    BY <2>5, <2>23, InsertClaimWrites
  <2>8. /\ Writes(m, f) /\ f.messages = m.messages /\ f.artifacts = m.artifacts /\ f.links = m.links
    BY <2>22, <2>24
  <2>9. AttachEvidence(f, "artifacts", i, pub.id).ok /\ r = AttachEvidence(f, "artifacts", i, pub.id)
    BY <1>5, <2>1, <2>2
  <2>10. /\ Attached(f, r.db, "artifacts", i, pub.id)
         /\ <<i, pub.id>> \notin f.links["artifacts"] => r.db.revision > f.revision
    BY <2>8, <2>9, AttachBase DEF LinkKinds, Writes
  <2>11. <<i, pub.id>> \notin d.links["artifacts"]
    <3>1. \A l \in d.links["artifacts"] : l[1] \in DOMAIN d.artifacts  BY DEF Base, Linked, Links, LinkKinds
    <3>2. i \notin DOMAIN d.artifacts  BY <2>5 DEF Adds, Grew
    <3>3. <<i, pub.id>>[1] = i  OBVIOUS
    <3>4. QED  BY <3>1, <3>2, <3>3
  <2>12. r.db.revision > d.revision
    <3>1. f.revision >= m.revision /\ f.revision \in Nat /\ r.db.revision \in Nat
      BY <2>6, <2>8, <2>10 DEF Writes, Kept, Base, Formed, Attached
    <3>2. r.db.revision > f.revision  BY <2>6, <2>8, <2>10, <2>11
    <3>3. QED  BY <2>6, <3>1, <3>2
  <2> HIDE DEF f, i
  <2>13. Writes(d, r.db)  BY <2>5, <2>8, <2>10, <2>12, LinkedWrites DEF LinkKinds, i
  <2>14. QED  BY <2>13 DEF r
<1>10. QED  BY <1>8, <1>9
-------------------------------------------------------------------------------
(* Rows changed where they stand *)

Sound(d, e) == Base(e) /\ Kept(d, e) /\ (Complete(d) => Complete(e))

LEMMA SoundSelf == ASSUME NEW d, Base(d) PROVE Sound(d, d)
BY KeptSelf DEF Sound, Base

LEMMA SoundAgain ==
  ASSUME NEW a, NEW b, NEW c, Base(a), Sound(a, b), Sound(b, c)
  PROVE  Sound(a, c)
<1>1. Formed(a) /\ Formed(b) /\ Formed(c)  BY DEF Sound, Base
<1>2. QED  BY <1>1, KeptAgain DEF Sound

\* What a row becomes.
Keeps(t, x, y) ==
  /\ HasColumns(t, y) /\ y.key = x.key /\ y.body = x.body
  /\ t = "jobs" => KeptJob(x, y) /\ (y.status = "done" => y.output \in Outputs)
  /\ t = "tasks" => (x.status # "open" => y.status = x.status)
  /\ t = "messages" => (x.review.status # "pending" => y.review = x.review)
InPlace(d, e) ==
  /\ Formed(e) /\ Same(d, e, Mutable \cup {"work", "stopped", "updates", "receipts", "revision"})
  /\ d.updates \subseteq e.updates /\ d.receipts \subseteq e.receipts /\ d.revision <= e.revision
  /\ \A t \in Mutable : DOMAIN e[t] = DOMAIN d[t] /\ \A i \in DOMAIN d[t] : Keeps(t, d[t][i], e[t][i])

LEMMA InPlaceSound ==
  ASSUME NEW d, Base(d), NEW e, InPlace(d, e)
  PROVE  Sound(d, e)
<1>0. Formed(d) /\ Formed(e)  BY DEF Base, InPlace
<1>1. /\ \A t \in Tables \ Mutable : e[t] = d[t]
      /\ e.links = d.links /\ e.focus = d.focus
  <2>1. \A t \in Tables \ Mutable : t \in Fields \ (Mutable \cup {"work", "stopped", "updates", "receipts", "revision"})
    BY DEF Tables, Fields
  <2>2. QED  BY <2>1 DEF InPlace, Same, Fields, Mutable
<1>2. /\ e.artifacts = d.artifacts /\ e.publications = d.publications /\ e.relationships = d.relationships
      /\ e.reviews = d.reviews /\ e.claims = d.claims /\ e.asks = d.asks
  BY <1>1 DEF Tables, Mutable
<1>3. \A t \in Mutable : DOMAIN e[t] = DOMAIN d[t] /\ \A i \in DOMAIN d[t] : Keeps(t, d[t][i], e[t][i])
  BY DEF InPlace
<1>4. /\ \A i \in DOMAIN d.jobs : Keeps("jobs", d.jobs[i], e.jobs[i])
      /\ \A i \in DOMAIN d.tasks : Keeps("tasks", d.tasks[i], e.tasks[i])
      /\ \A i \in DOMAIN d.messages : Keeps("messages", d.messages[i], e.messages[i])
      /\ DOMAIN e.jobs = DOMAIN d.jobs /\ DOMAIN e.tasks = DOMAIN d.tasks /\ DOMAIN e.messages = DOMAIN d.messages
      /\ DOMAIN e.agents = DOMAIN d.agents
  BY <1>3 DEF Mutable
<1>5. \A t \in Tables : DOMAIN e[t] = DOMAIN d[t]  BY <1>1, <1>3
<1>6. \A t \in Tables \ {"claims"} : \A i \in DOMAIN d[t] : e[t][i].key = d[t][i].key /\ e[t][i].body = d[t][i].body
  BY <1>1, <1>3 DEF Keeps
<1>7. Rowed(e)  BY <1>3 DEF Rowed, Keeps
<1>8. Limited(e)
  <2> SUFFICES ASSUME NEW t \in Counted PROVE Len(e[t]) <= Capacity[t]
    BY DEF Limited
  <2>1. t \in Tables  BY DEF Counted, Tables
  <2>2. DOMAIN e[t] = 1..Len(e[t]) /\ DOMAIN d[t] = 1..Len(d[t]) /\ Len(e[t]) \in Nat /\ Len(d[t]) \in Nat
    BY <1>0, <2>1, TableFacts
  <2>3. Len(e[t]) = Len(d[t])  BY <1>5, <2>1, <2>2
  <2>4. QED  BY <2>3 DEF Base, Limited
<1>9. KeyOnce(e)  BY <1>5, <1>6 DEF Base, KeyOnce
<1>10. Distinct(e) /\ Published(e) /\ Joined(e)
  BY <1>2 DEF Base, Distinct, Published, Publishes, Joined, Joins
<1>11. Linked(e)
  <2> SUFFICES ASSUME NEW k \in LinkKinds, NEW l \in e.links[k] PROVE Links(e, k, l)
    BY DEF Linked
  <2>1. Links(d, k, l)  BY <1>1 DEF Base, Linked
  <2>2. DOMAIN e[k] = DOMAIN d[k]  BY <1>5 DEF LinkKinds, Tables
  <2>3. QED  BY <1>2, <2>1, <2>2 DEF Links
<1>12. Proved(e)  BY <1>1, <1>2 DEF Base, Proved
<1>13. Focused(e)  BY <1>1, <1>2, <1>4 DEF Base, Focused
<1>14. \A s : Credits(d, s) => Credits(e, s)  BY <1>4 DEF Credits, Keeps, KeptJob
<1>15. Credited(e)
  <2> SUFFICES ASSUME NEW t \in SourceTables, NEW i \in DOMAIN e[t] PROVE Credits(e, e[t][i].body.source)
    BY DEF Credited
  <2>1. t \in Tables \ {"claims"}  BY DEF SourceTables, Tables
  <2>2. i \in DOMAIN d[t] /\ e[t][i].body = d[t][i].body  BY <1>5, <1>6, <2>1
  <2>3. Credits(d, d[t][i].body.source)  BY <2>2 DEF Base, Credited
  <2>4. QED  BY <1>14, <2>2, <2>3
<1>16. Seen(e)
  <2> SUFFICES ASSUME NEW v \in DOMAIN d.reviews PROVE Sees(e, d.reviews[v])
    BY <1>2 DEF Seen
  <2>1. Sees(d, d.reviews[v])  BY DEF Base, Seen
  <2>2. QED  BY <1>4, <2>1 DEF Sees, Keeps, KeptJob
<1>17. Answered(e)  BY <1>4 DEF Base, Answered, Keeps
<1>18. Base(e)
  BY <1>0, <1>7, <1>8, <1>9, <1>10, <1>11, <1>12, <1>13, <1>15, <1>16, <1>17 DEF Base
<1>19. Kept(d, e)
  <2>1. KeptRecords(d, e)  BY <1>2 DEF KeptRecords, Records
  <2>2. KeptRows(d, e)  BY <1>3 DEF KeptRows, Keeps
  <2>3. KeptSets(d, e)  BY <1>1 DEF KeptSets, InPlace
  <2>4. KeptStates(d, e)  BY <1>4 DEF KeptStates, Keeps
  <2>5. QED  BY <2>1, <2>2, <2>3, <2>4 DEF Kept, InPlace
<1>20. Complete(d) => Complete(e)
  <2>1. \A k \in LinkKinds : DOMAIN e[k] = DOMAIN d[k]  BY <1>5 DEF LinkKinds, Tables
  <2>2. QED  BY <1>1, <1>4, <2>1 DEF Complete
<1>21. QED  BY <1>18, <1>19, <1>20 DEF Sound

LEMMA KeepsSelf ==
  ASSUME NEW d, Base(d), NEW t \in Mutable, NEW i \in DOMAIN d[t]
  PROVE  Keeps(t, d[t][i], d[t][i])
<1>1. HasColumns(t, d[t][i])  BY DEF Base, Rowed
<1>2. t = "jobs" => (d[t][i].status = "done" => d[t][i].output \in Outputs)  BY DEF Base, Answered
<1>3. QED  BY <1>1, <1>2 DEF Keeps, KeptJob

LEMMA EditFacts ==
  ASSUME NEW s, IsSeq(s), NEW i \in DOMAIN s, NEW x
  PROVE  LET e == [s EXCEPT ![i] = x] IN IsSeq(e) /\ DOMAIN e = DOMAIN s /\ Len(e) = Len(s)
<1> DEFINE e == [s EXCEPT ![i] = x]  S == {e[n] : n \in DOMAIN e}
<1>1. DOMAIN s = 1..Len(s) /\ Len(s) \in Nat /\ DOMAIN e = DOMAIN s  BY SeqFacts
<1>2. e = [n \in DOMAIN e |-> e[n]]  OBVIOUS
<1> HIDE DEF e
<1>3. e \in [1..Len(s) -> S]  BY <1>1, <1>2
<1>4. e \in Seq(S) /\ Len(e) = Len(s)
  <2> HIDE DEF S
  <2>1. QED  BY <1>1, <1>3
<1>5. QED  BY <1>1, <1>4 DEF IsSeq, e

IsRecord(e) == e = [f \in Fields |-> e[f]]
\* One row changes, and what else may change besides.
LEMMA RowChanged ==
  ASSUME NEW d, Base(d), NEW t \in Mutable, NEW i \in DOMAIN d[t], NEW row, Keeps(t, d[t][i], row), NEW e,
         IsRecord(e), Same(d, e, {t, "work", "stopped", "updates", "receipts", "revision"}),
         e[t] = [d[t] EXCEPT ![i] = row], d.updates \subseteq e.updates, d.receipts \subseteq e.receipts,
         e.revision \in Nat, d.revision <= e.revision
  PROVE  InPlace(d, e)
<1>0. Formed(d)  BY DEF Base
<1>1. t \in Tables /\ t \in Fields  BY DEF Mutable, Tables, Fields
<1>9. IsSeq(d[t])  BY <1>0, <1>1 DEF Formed
<1>2. IsSeq(e[t]) /\ DOMAIN e[t] = DOMAIN d[t]
  <2>1. LET x == [d[t] EXCEPT ![i] = row] IN IsSeq(x) /\ DOMAIN x = DOMAIN d[t]  BY <1>9, EditFacts
  <2>2. QED  BY <2>1
<1>3. \A u \in Tables \ {t} : e[u] = d[u]
  <2>1. \A u \in Tables \ {t} : u \in Fields \ {t, "work", "stopped", "updates", "receipts", "revision"}
    BY DEF Tables, Fields
  <2>2. QED  BY <2>1 DEF Same
<1>4. e.links = d.links  BY DEF Same, Fields, Mutable
<1>5. Formed(e)  BY <1>0, <1>2, <1>3, <1>4 DEF Formed, IsRecord
<1>6. \A u \in Mutable : DOMAIN e[u] = DOMAIN d[u] /\ \A n \in DOMAIN d[u] : Keeps(u, d[u][n], e[u][n])
  <2> SUFFICES ASSUME NEW u \in Mutable
               PROVE  DOMAIN e[u] = DOMAIN d[u] /\ \A n \in DOMAIN d[u] : Keeps(u, d[u][n], e[u][n])
    OBVIOUS
  <2>1. CASE u # t
    <3>1. e[u] = d[u]  BY <1>3, <2>1 DEF Mutable, Tables
    <3>2. QED  BY <3>1, KeepsSelf
  <2>2. CASE u = t
    <3>1. ASSUME NEW n \in DOMAIN d[t] PROVE Keeps(t, d[t][n], e[t][n])
      <4>1. CASE n = i
        <5>1. e[t][n] = row  BY <4>1
        <5>2. QED  BY <4>1, <5>1
      <4>2. CASE n # i
        <5>1. e[t][n] = d[t][n]  BY <4>2
        <5>2. QED  BY <5>1, KeepsSelf
      <4>3. QED  BY <4>1, <4>2
    <3>2. QED  BY <1>2, <2>2, <3>1
  <2>3. QED  BY <2>1, <2>2
<1>7. Same(d, e, Mutable \cup {"work", "stopped", "updates", "receipts", "revision"})  BY DEF Same
<1>8. QED  BY <1>5, <1>6, <1>7 DEF InPlace
-------------------------------------------------------------------------------
(* The requests *)

Told(d, e) == Visible(e) = Visible(d) \/ e.revision > d.revision
Good(d, e) == Sound(d, e) /\ (Complete(d) => Told(d, e))

LEMMA WritesGood == ASSUME NEW d, NEW e, Writes(d, e) PROVE Good(d, e)
BY DEF Writes, Good, Sound, Told

LEMMA GoodSelf == ASSUME NEW d, Base(d) PROVE Good(d, d)
BY SoundSelf DEF Good, Told

\* Nothing a packet shows has changed.
Plain(d, e) ==
  /\ e.work = d.work /\ e.focus = d.focus /\ e.links = d.links /\ e.claims = d.claims
  /\ e.publications = d.publications /\ e.relationships = d.relationships /\ e.reviews = d.reviews
  /\ e.asks = d.asks /\ e.tasks = d.tasks /\ e.jobs = d.jobs /\ e.messages = d.messages
LEMMA PlainTold == ASSUME NEW d, NEW e, Plain(d, e) PROVE Told(d, e)
BY DEF Plain, Told, Visible

LEMMA ColumnsEdit ==
  ASSUME NEW t, NEW x, HasColumns(t, x), NEW c \in Columns[t], NEW v
  PROVE  LET y == [x EXCEPT ![c] = v] IN HasColumns(t, y) /\ y[c] = v /\ \A b \in Columns[t] \ {c} : y[b] = x[b]
BY DEF HasColumns

LEMMA AgentGood ==
  ASSUME NEW d, Base(d), NEW r, AddedAgent(d, r).ok
  PROVE  Good(d, AddedAgent(d, r).db)
<1> DEFINE row == [key |-> r.key, body |-> [role |-> r.role], state |-> "", revision |-> 0]
           m == Add(d, "agents", row)
<1>1. AddedAgent(d, r).db = d \/ (/\ Keyed(d, "agents", row.key) = {} /\ ~ (Len(d.agents) >= MaxAgents)
                                  /\ AddedAgent(d, r).db = m)
  BY InsertFacts DEF AddedAgent
<1>2. HasColumns("agents", row)  BY DEF HasColumns, Columns
<1> HIDE DEF row
<1>3. MaxAgents \in Nat /\ Capacity["agents"] = MaxAgents  BY GroupStateAssumption DEF Capacity
<1>4. ASSUME Keyed(d, "agents", row.key) = {}, ~ (Len(d.agents) >= MaxAgents) PROVE Good(d, m)
  <2>1. Fits(d, "agents", row)  BY <1>2, <1>4 DEF Fits, SourceTables
  <2>2. Base(m) /\ Adds(d, m, "agents", row)  BY <1>3, <1>4, <2>1, AddBase DEF Tables
  <2> HIDE DEF m
  <2>3. Formed(d)  BY DEF Base
  <2>4. Kept(d, m)  BY <2>2, <2>3, AddsKeep DEF Tables
  <2>5. /\ \A u \in Tables \ {"agents"} : m[u] = d[u]
        /\ m.links = d.links /\ m.focus = d.focus /\ m.work = d.work
    BY <2>2, <2>3, AddsTables DEF Tables
  <2>6. Plain(d, m) /\ m.artifacts = d.artifacts  BY <2>5 DEF Plain, Tables
  <2>7. Complete(d) => Complete(m)  BY <2>6, CompleteSame DEF Plain
  <2>8. QED  BY <2>2, <2>4, <2>6, <2>7, PlainTold DEF Good, Sound
<1>5. QED  BY <1>1, <1>4, GoodSelf

LEMMA UpdateGood ==
  ASSUME NEW d, Base(d), NEW r, UpdatedState(d, r).ok
  PROVE  Good(d, UpdatedState(d, r).db)
<1> DEFINE revision == r.expected + 1
           update == [agent |-> r.agent, key |-> r.key, state |-> r.state, revision |-> revision]
           e == [d EXCEPT !.agents[r.agent].state = r.state, !.agents[r.agent].revision = revision,
                          !.updates = @ \cup {update}]
           x == d.agents[r.agent]
           y == [x EXCEPT !["state"] = r.state]
           z == [y EXCEPT !["revision"] = revision]
<1>1. r.agent \in DOMAIN d.agents /\ (UpdatedState(d, r).db = d \/ UpdatedState(d, r).db = e)
  BY DEF UpdatedState, Conflict, Done
<1>2. /\ IsRecord(e) /\ Same(d, e, {"agents", "updates"})
      /\ e.updates = d.updates \cup {update} /\ e.revision = d.revision /\ d.revision \in Nat
      /\ e.agents = [[d.agents EXCEPT ![r.agent].state = r.state] EXCEPT ![r.agent].revision = revision]
  <2>1. IsRecord(d) /\ d.revision \in Nat  BY DEF Base, Formed, IsRecord
  <2> HIDE DEF update, revision
  <2>5. DOMAIN d = Fields  BY <2>1 DEF IsRecord
  <2>6. DOMAIN e = Fields /\ IsRecord(e)  BY <2>5 DEF IsRecord
  <2>7. \A f \in Fields \ {"agents", "updates"} : e[f] = d[f]  BY <2>5
  <2>8. e.updates = d.updates \cup {update}  BY <2>5 DEF Fields
  <2>2. /\ IsRecord(e) /\ e.revision = d.revision /\ e.updates = d.updates \cup {update}
        /\ \A f \in Fields \ {"agents", "updates"} : e[f] = d[f]
    BY <2>6, <2>7, <2>8 DEF Fields
  <2>3. e.agents = [[d.agents EXCEPT ![r.agent].state = r.state] EXCEPT ![r.agent].revision = revision]
    BY <2>1 DEF IsRecord, Fields
  <2>4. QED  BY <2>1, <2>2, <2>3 DEF Same
<1>15. e.agents = [d.agents EXCEPT ![r.agent] = z]  BY <1>1, <1>2
<1> HIDE DEF e, revision
<1>3. HasColumns("agents", x)  BY <1>1 DEF Base, Rowed, Mutable
<1>4. "state" \in Columns["agents"] /\ "revision" \in Columns["agents"] /\ {"key", "body"} \subseteq Columns["agents"]
  BY DEF Columns
<1>5. HasColumns("agents", y) /\ y.key = x.key /\ y.body = x.body  BY <1>3, <1>4, ColumnsEdit
<1> HIDE DEF y, x
<1>6. HasColumns("agents", z) /\ z.key = x.key /\ z.body = x.body  BY <1>4, <1>5, ColumnsEdit
<1> HIDE DEF z
<1>7. Keeps("agents", x, z)  BY <1>6 DEF Keeps
<1>8. Same(d, e, {"agents", "work", "stopped", "updates", "receipts", "revision"})  BY <1>2 DEF Same
<1>9. e.receipts = d.receipts  BY <1>2 DEF Same, Fields
<1>10. InPlace(d, e)  
  <2>1. "agents" \in Mutable /\ r.agent \in DOMAIN d["agents"]  BY <1>1 DEF Mutable
  <2>2. Keeps("agents", d["agents"][r.agent], z)  BY <1>7 DEF x
  <2>3. d.updates \subseteq e.updates /\ d.receipts \subseteq e.receipts /\ e.revision \in Nat /\ d.revision <= e.revision
    BY <1>2, <1>9
  <2>4. /\ IsRecord(e) /\ Same(d, e, {"agents", "work", "stopped", "updates", "receipts", "revision"})
        /\ e["agents"] = [d["agents"] EXCEPT ![r.agent] = z]
    BY <1>2, <1>8, <1>15
  <2>5. QED  BY <2>1, <2>2, <2>3, <2>4, RowChanged
<1>11. Sound(d, e)  BY <1>10, InPlaceSound
<1>12. Plain(d, e)  BY <1>2 DEF Same, Fields, Plain
<1>13. Good(d, e)  BY <1>11, <1>12, PlainTold DEF Good
<1>14. QED  BY <1>1, <1>13, GoodSelf

\* What keeps a raised edit of one row of the tasks, the jobs or the messages.
LEMMA EditGood ==
  ASSUME NEW d, Base(d), NEW t \in {"tasks", "jobs", "messages"}, NEW i \in DOMAIN d[t], NEW row,
         Keeps(t, d[t][i], row), NEW e, IsRecord(e), Same(d, e, {t, "revision"}),
         e[t] = [d[t] EXCEPT ![i] = row], e.revision \in Nat, e.revision >= d.revision
  PROVE  Sound(d, e)
<1>1. d.revision \in Nat  BY DEF Base, Formed
<1>2. t \in Mutable  BY DEF Mutable
<1>3. Same(d, e, {t, "work", "stopped", "updates", "receipts", "revision"})  BY DEF Same
<1>4. e.updates = d.updates /\ e.receipts = d.receipts  BY DEF Same, Fields
<1>5. InPlace(d, e)  BY <1>1, <1>2, <1>3, <1>4, RowChanged
<1>6. QED  BY <1>5, InPlaceSound

LEMMA CloseGood ==
  ASSUME NEW d, Base(d), NEW task, NEW status, ClosedTask(d, task, status).ok
  PROVE  Good(d, ClosedTask(d, task, status).db)
<1> DEFINE x == d.tasks[task]
           y == [x EXCEPT !["status"] = status]
           e == Raise([d EXCEPT !.tasks[task].status = status])
<1>1. /\ task \in DOMAIN d.tasks
      /\ \/ ClosedTask(d, task, status).db = d
         \/ ClosedTask(d, task, status).db = e /\ x.status = "open"
  BY DEF ClosedTask, Conflict, Done
<1>2. /\ IsRecord(e) /\ Same(d, e, {"tasks", "revision"})
      /\ e.tasks = [d.tasks EXCEPT ![task] = y] /\ e.revision = d.revision + 1 /\ d.revision \in Nat
  BY DEF Base, Formed, IsRecord, Fields, Same, Raise
<1> HIDE DEF e
<1>3. HasColumns("tasks", x)  BY <1>1 DEF Base, Rowed, Mutable
<1>4. "status" \in Columns["tasks"] /\ {"key", "body"} \subseteq Columns["tasks"]  BY DEF Columns
<1>5. HasColumns("tasks", y) /\ y.key = x.key /\ y.body = x.body  BY <1>3, <1>4, ColumnsEdit
<1> HIDE DEF y
<1>6. ASSUME x.status = "open" PROVE Good(d, e)
  <2>1. Keeps("tasks", x, y)  BY <1>5, <1>6 DEF Keeps
  <2>2. e.revision \in Nat /\ e.revision > d.revision  BY <1>2
  <2> HIDE DEF x
  <2>3. Sound(d, e)  BY <1>1, <1>2, <2>1, <2>2, EditGood DEF x
  <2>4. QED  BY <2>2, <2>3 DEF Good, Told
<1>7. QED  BY <1>1, <1>6, GoodSelf

LEMMA ReviewedGood ==
  ASSUME NEW d, Base(d), NEW r, ReviewedMessage(d, r).ok
  PROVE  Good(d, ReviewedMessage(d, r).db)
<1> DEFINE review == [status |-> r.status, by |-> r.reviewer, key |-> r.key]
           i == r.message
           x == d.messages[i]
           y == [x EXCEPT !["review"] = review]
           q == [d EXCEPT !.messages[i].review = review]
           e == Raise(q)
           linked == \E l \in d.links["messages"] : l[1] = i
<1>1. /\ i \in DOMAIN d.messages
      /\ \/ ReviewedMessage(d, r).db = d
         \/ /\ x.review.status = "pending"
            /\ ReviewedMessage(d, r).db = IF linked THEN e ELSE q
  BY DEF ReviewedMessage, Conflict, Done
<1>2. /\ IsRecord(q) /\ Same(d, q, {"messages"})
      /\ q.messages = [d.messages EXCEPT ![i] = y] /\ q.revision = d.revision /\ d.revision \in Nat
      /\ IsRecord(e) /\ Same(d, e, {"messages", "revision"})
      /\ e.messages = [d.messages EXCEPT ![i] = y] /\ e.revision = d.revision + 1
  BY DEF Base, Formed, IsRecord, Fields, Same, Raise
<1> HIDE DEF e, q, review
<1>3. HasColumns("messages", x)  BY <1>1 DEF Base, Rowed, Mutable
<1>4. "review" \in Columns["messages"] /\ {"key", "body"} \subseteq Columns["messages"]  BY DEF Columns
<1>5. HasColumns("messages", y) /\ y.key = x.key /\ y.body = x.body  BY <1>3, <1>4, ColumnsEdit
<1> HIDE DEF y
<1>6. ASSUME x.review.status = "pending" PROVE Good(d, IF linked THEN e ELSE q)
  <2>1. Keeps("messages", x, y)  BY <1>5, <1>6 DEF Keeps
  <2>2. e.revision \in Nat /\ e.revision > d.revision /\ q.revision >= d.revision  BY <1>2
  <2>3. Same(d, q, {"messages", "revision"})  BY <1>2 DEF Same
  <2> HIDE DEF x, i
  <2>8. "messages" \in {"tasks", "jobs", "messages"} /\ i \in DOMAIN d["messages"] /\ Keeps("messages", d["messages"][i], y)
    BY <1>1, <2>1 DEF x
  <2>9. /\ IsRecord(e) /\ Same(d, e, {"messages", "revision"}) /\ e["messages"] = [d["messages"] EXCEPT ![i] = y]
        /\ IsRecord(q) /\ q["messages"] = [d["messages"] EXCEPT ![i] = y] /\ q.revision \in Nat /\ e.revision >= d.revision
    BY <1>2
  <2>4. Sound(d, e)  BY <2>2, <2>8, <2>9, EditGood
  <2>5. Sound(d, q)  BY <2>2, <2>3, <2>8, <2>9, EditGood
  <2>6. Complete(d) => linked  BY <1>1 DEF Complete, LinkKinds
  <2>7. QED  BY <2>2, <2>4, <2>5, <2>6 DEF Good, Told
<1>7. QED  BY <1>1, <1>6, GoodSelf
\* A new focus.
LEMMA FocusBase ==
  ASSUME NEW d, Base(d), NEW task, NEW claim, NEW action, AttachTask(d, task, claim, action).ok
  PROVE  LET e == AttachTask(d, task, claim, action).db IN
         /\ Base(e) /\ Kept(d, e) /\ SameTables(d, e) /\ e.links = d.links
         /\ task \in DOMAIN d.tasks /\ \E f \in e.focus : f.task = task
         /\ e = d \/ (e.revision > d.revision /\ Same(d, e, {"focus", "revision"}))
<1> DEFINE focus == [task |-> task, claim |-> claim, action |-> action]
           e == Raise([d EXCEPT !.focus = @ \cup {focus}])
           r == AttachTask(d, task, claim, action)
<1>1. /\ task \in DOMAIN d.tasks /\ claim \in DOMAIN d.claims
      /\ \/ Focus(d, task) = {} /\ r = Done(e, task)
         \/ focus \in d.focus /\ r = Done(d, task)
  BY DEF AttachTask, Conflict
<1>2. focus.task = task /\ focus.claim = claim  OBVIOUS
<1>0. Formed(d)  BY DEF Base
<1>3. /\ IsRecord(e) /\ Same(d, e, {"focus", "revision"})
      /\ e.focus = d.focus \cup {focus} /\ e.revision = d.revision + 1 /\ d.revision \in Nat
  BY DEF Base, Formed, Fields, Same, Raise, IsRecord
<1> HIDE DEF e, r, focus
<1>4. CASE focus \in d.focus /\ r = Done(d, task)
  <2>1. r.db = d  BY <1>4 DEF Done
  <2>2. SameTables(d, d)  BY <1>0 DEF SameTables, Formed
  <2>3. QED  BY <1>0, <1>1, <1>2, <1>4, <2>1, <2>2, KeptSelf DEF r
<1>5. CASE Focus(d, task) = {} /\ r = Done(e, task)
  <2>1. r.db = e  BY <1>5 DEF Done
  <2>2. \A u \in Tables : u \in Fields \ {"focus", "revision"}  BY DEF Tables, Fields
  <2>3. e.links = d.links /\ e.receipts = d.receipts /\ e.updates = d.updates  BY <1>3 DEF Same, Fields
  <2>4. SameTables(d, e)  BY <1>0, <1>3, <2>2, <2>3 DEF SameTables, Same, Formed, IsRecord
  <2>5. e.tasks = d.tasks /\ e.claims = d.claims /\ e.artifacts = d.artifacts  BY <2>4, SameNames
  <2>6. Linked(e)
    <3> SUFFICES ASSUME NEW k \in LinkKinds, NEW l \in e.links[k] PROVE Links(e, k, l)
      BY DEF Linked
    <3>1. Links(d, k, l)  BY <2>3 DEF Base, Linked
    <3>2. e[k] = d[k]  BY <2>4 DEF SameTables, LinkKinds, Tables
    <3>3. QED  BY <2>5, <3>1, <3>2 DEF Links
  <2>7. Proved(e)  BY <2>3, <2>5 DEF Base, Proved
  <2>8. Focused(e)
    <3>1. \A f \in d.focus : f.task # task  BY <1>5 DEF Focus
    <3>2. QED  BY <1>1, <1>2, <1>3, <2>5, <3>1 DEF Base, Focused
  <2>9. Base(e)  BY <2>4, <2>6, <2>7, <2>8, SameBase
  <2>10. KeptSets(d, e)  BY <1>3, <2>3 DEF KeptSets
  <2>11. Kept(d, e)  BY <1>0, <2>4, <2>10, SameKept
  <2>12. e.revision > d.revision  BY <1>3
  <2>13. QED  BY <1>1, <1>2, <1>3, <2>1, <2>3, <2>4, <2>9, <2>11, <2>12 DEF r
<1>6. QED  BY <1>1, <1>4, <1>5

\* Work that is taken.
LEMMA TakeBase ==
  ASSUME NEW d, Base(d), NEW budget
  PROVE  LET e == Take(d, budget) IN
         /\ Base(e) /\ Kept(d, e) /\ SameTables(d, e) /\ Same(d, e, {"work", "revision"})
<1> DEFINE e == Take(d, budget)
<1>0. Formed(d) /\ d.revision \in Nat  BY DEF Base, Formed
<1>1. /\ IsRecord(e) /\ Same(d, e, {"work", "revision"})
      /\ e.revision = d.revision \/ e.revision = d.revision + 1
  BY <1>0 DEF Formed, Fields, Same, Take, IsRecord
<1> HIDE DEF e
<1>2. \A u \in Tables : u \in Fields \ {"work", "revision"}  BY DEF Tables, Fields
<1>3. e.links = d.links /\ e.receipts = d.receipts /\ e.updates = d.updates /\ e.focus = d.focus
  BY <1>1 DEF Same, Fields
<1>4. SameTables(d, e)  BY <1>0, <1>1, <1>2, <1>3 DEF SameTables, Same, Formed, IsRecord
<1>5. e.tasks = d.tasks /\ e.claims = d.claims /\ e.artifacts = d.artifacts  BY <1>4, SameNames
<1>6. Linked(e)
  <2> SUFFICES ASSUME NEW k \in LinkKinds, NEW l \in e.links[k] PROVE Links(e, k, l)
    BY DEF Linked
  <2>1. Links(d, k, l)  BY <1>3 DEF Base, Linked
  <2>2. e[k] = d[k]  BY <1>4 DEF SameTables, LinkKinds, Tables
  <2>3. QED  BY <1>5, <2>1, <2>2 DEF Links
<1>7. Proved(e) /\ Focused(e)  BY <1>3, <1>5 DEF Base, Proved, Focused
<1>8. Base(e)  BY <1>4, <1>6, <1>7, SameBase
<1>9. Kept(d, e)  BY <1>0, <1>3, <1>4, SameKept DEF KeptSets
<1>10. QED  BY <1>1, <1>4, <1>8, <1>9 DEF e

TaskRow(d, r) ==
  [key |-> r.key, body |-> [creator |-> r.creator, owner |-> r.owner, parent |-> r.parent, budget |-> r.budget],
   remaining |-> r.budget, depth |-> IF r.parent = None THEN 0 ELSE d.tasks[r.parent].depth + 1, status |-> "open"]
TaskClaim(r) == IF r.claim = None THEN Root ELSE r.claim
LEMMA AddedTaskIs ==
  ASSUME NEW d, NEW r, AddedTask(d, r).ok
  PROVE  LET put == Insert(d, "tasks", TaskRow(d, r), MaxTasks)
             new == Keyed(d, "tasks", r.key) = {}
             m   == IF new THEN Take(put.db, r.budget) ELSE put.db
         IN /\ put.ok /\ AttachTask(m, put.id, TaskClaim(r), r.action).ok
            /\ AddedTask(d, r) = AttachTask(m, put.id, TaskClaim(r), r.action)
            /\ {r.creator, r.owner} \subseteq DOMAIN d.agents /\ r.parent \in DOMAIN d.tasks \cup {None}
            /\ new => /\ TaskRow(d, r).depth <= MaxDepth \/ ~ (TaskRow(d, r).depth > MaxDepth)
                      /\ ~ (r.budget > d.work)
<1>1. /\ {r.creator, r.owner} \subseteq DOMAIN d.agents /\ r.parent \in DOMAIN d.tasks \cup {None}
      /\ Keyed(d, "tasks", r.key) = {} => ~ (TaskRow(d, r).depth > MaxDepth) /\ ~ (r.budget > d.work)
  BY DEF AddedTask, Conflict, TaskRow
<1>2. LET put == Insert(d, "tasks", TaskRow(d, r), MaxTasks)
          new == Keyed(d, "tasks", r.key) = {}
      IN AddedTask(d, r) = Then(put, LAMBDA e, t : AttachTask(IF new THEN Take(e, r.budget) ELSE e, t, TaskClaim(r), r.action))
  BY DEF AddedTask, Conflict, TaskRow, TaskClaim
<1>3. Insert(d, "tasks", TaskRow(d, r), MaxTasks).ok  BY <1>2 DEF Then, Conflict
<1>4. QED  BY <1>1, <1>2, <1>3 DEF Then

LEMMA TaskGood ==
  ASSUME NEW d, Base(d), NEW r, AddedTask(d, r).ok
  PROVE  Good(d, AddedTask(d, r).db)
<1> DEFINE row == TaskRow(d, r)
           put == Insert(d, "tasks", row, MaxTasks)
           new == Keyed(d, "tasks", r.key) = {}
           p   == put.db
           m   == IF new THEN Take(p, r.budget) ELSE p
           e   == AddedTask(d, r).db
<1>1. /\ put.ok /\ AttachTask(m, put.id, TaskClaim(r), r.action).ok
      /\ AddedTask(d, r) = AttachTask(m, put.id, TaskClaim(r), r.action)
  BY AddedTaskIs
<1>2. row.key = r.key /\ HasColumns("tasks", row)  BY DEF TaskRow, HasColumns, Columns
<1> HIDE DEF row
<1>3. \/ p = d /\ ~ new
      \/ new /\ ~ (Len(d.tasks) >= MaxTasks) /\ p = Add(d, "tasks", row) /\ put.id = Len(d.tasks) + 1
  <2>1. \/ p = d /\ put.id \in Keyed(d, "tasks", row.key) /\ d.tasks[put.id].body = row.body
        \/ /\ Keyed(d, "tasks", row.key) = {} /\ ~ (Len(d.tasks) >= MaxTasks)
           /\ p = Add(d, "tasks", row) /\ put.id = Len(d.tasks) + 1
    BY <1>1, InsertFacts
  <2>2. QED  BY <1>2, <2>1
<1> HIDE DEF put
<1>4. MaxTasks \in Nat /\ Capacity["tasks"] = MaxTasks  BY GroupStateAssumption DEF Capacity
<1>5. ASSUME Base(m)
      PROVE  /\ Base(e) /\ Kept(m, e) /\ SameTables(m, e) /\ e.links = m.links
             /\ put.id \in DOMAIN m.tasks /\ \E f \in e.focus : f.task = put.id
             /\ e = m \/ (e.revision > m.revision /\ Same(m, e, {"focus", "revision"}))
  <2> HIDE DEF m
  <2>1. QED  BY <1>1, <1>5, FocusBase
<1>6. CASE p = d /\ ~ new
  <2>1. m = d  BY <1>6
  <2>2. Complete(d) => Complete(e)
    <3>1. e.messages = d.messages /\ e.artifacts = d.artifacts /\ e.tasks = d.tasks /\ e.links = d.links
      BY <1>5, <2>1, SameNames
    <3>2. d.focus \subseteq e.focus  BY <1>5, <2>1 DEF Kept, KeptSets
    <3>3. \A k \in LinkKinds : e[k] = d[k]  BY <3>1 DEF LinkKinds
    <3>4. QED  BY <3>1, <3>2, <3>3 DEF Complete
  <2> HIDE DEF m, e
  <2>3. QED  BY <1>5, <2>1, <2>2 DEF Good, Sound, Told, e
<1>7. CASE new /\ ~ (Len(d.tasks) >= MaxTasks) /\ p = Add(d, "tasks", row) /\ put.id = Len(d.tasks) + 1
  <2>1. Fits(d, "tasks", row)  BY <1>2, <1>7 DEF Fits, SourceTables
  <2>2. Base(p) /\ Adds(d, p, "tasks", row)  BY <1>4, <1>7, <2>1, AddBase DEF Tables
  <2> HIDE DEF p
  <2>3. m = Take(p, r.budget)  BY <1>7
  <2>4. Base(m) /\ Kept(p, m) /\ SameTables(p, m) /\ Same(p, m, {"work", "revision"})  BY <2>2, <2>3, TakeBase
  <2> HIDE DEF m, new
  <2>5. /\ Base(e) /\ Kept(m, e) /\ SameTables(m, e) /\ e.links = m.links
        /\ put.id \in DOMAIN m.tasks /\ \E f \in e.focus : f.task = put.id
        /\ e = m \/ (e.revision > m.revision /\ Same(m, e, {"focus", "revision"}))
    BY <1>5, <2>4
  <2> HIDE DEF e
  <2>6. Formed(d) /\ Formed(p) /\ Formed(m) /\ Formed(e)  BY <2>2, <2>4, <2>5 DEF Base
  <2>7. Kept(d, p)  BY <2>2, <2>6, AddsKeep DEF Tables
  <2>8. Kept(d, e)  BY <2>4, <2>5, <2>6, <2>7, KeptAgain
  <2>9. /\ \A u \in Tables \ {"tasks"} : p[u] = d[u]
        /\ p.links = d.links /\ p.focus = d.focus
    BY <2>2, <2>6, AddsTables DEF Tables
  <2>10. /\ p.messages = d.messages /\ p.artifacts = d.artifacts
         /\ m.messages = p.messages /\ m.artifacts = p.artifacts /\ m.tasks = p.tasks
         /\ e.messages = m.messages /\ e.artifacts = m.artifacts /\ e.tasks = m.tasks
    BY <2>4, <2>5, <2>9, SameNames DEF Tables
  <2>11. m.links = p.links /\ m.focus = p.focus  BY <2>4 DEF Same, Fields
  <2>12. e.revision > d.revision
    <3>1. \A f \in d.focus : f.task # put.id
      <4>1. \A f \in d.focus : f.task \in DOMAIN d.tasks  BY DEF Base, Focused
      <4>2. put.id \notin DOMAIN d.tasks  BY <1>7, <2>2 DEF Adds, Grew
      <4>3. QED  BY <4>1, <4>2
    <3>2. e # m  BY <2>5, <2>9, <2>11, <3>1
    <3>3. e.revision > m.revision /\ m.revision >= d.revision
      BY <2>2, <2>4, <2>5, <2>6, <3>2 DEF Adds, SameTables, Formed
    <3>4. QED  BY <2>6, <3>3 DEF Formed
  <2>13. Complete(d) => Complete(e)
    <3>1. \A k \in LinkKinds : e[k] = d[k]  BY <2>10 DEF LinkKinds
    <3>2. e.links = d.links /\ d.focus \subseteq e.focus
      BY <2>5, <2>8, <2>9, <2>11 DEF Kept, KeptSets
    <3>3. \A t \in DOMAIN e.tasks : t \in DOMAIN d.tasks \/ t = put.id
      BY <1>7, <2>2, <2>10 DEF Adds, Grew
    <3>4. QED  BY <2>5, <3>1, <3>2, <3>3 DEF Complete
  <2>14. QED  BY <2>5, <2>8, <2>12, <2>13 DEF Good, Sound, Told, e
<1>8. QED  BY <1>3, <1>6, <1>7
JobRow(r, shown) ==
  [key |-> r.key, body |-> [task |-> r.task, agent |-> r.agent, cost |-> r.cost, type |-> r.type, graph |-> r.graph],
   shown |-> shown, status |-> "queued", attempts |-> 0, output |-> "none"]
LEMMA EnqueuedJobIs ==
  ASSUME NEW d, NEW r, NEW shown, EnqueuedJob(d, r, shown).ok
  PROVE  LET put == Insert(d, "jobs", JobRow(r, shown), MaxWork + 1)
             new == Keyed(d, "jobs", r.key) = {}
         IN /\ put.ok /\ EnqueuedJob(d, r, shown).id = put.id
            /\ EnqueuedJob(d, r, shown).db = IF new THEN Reserve(put.db, r.task, r.cost) ELSE put.db
            /\ r.task \in DOMAIN d.tasks /\ r.agent \in DOMAIN d.agents
            /\ new => ~ (r.cost > d.tasks[r.task].remaining)
<1>1. /\ r.task \in DOMAIN d.tasks /\ r.agent \in DOMAIN d.agents
      /\ Keyed(d, "jobs", r.key) = {} => ~ (r.cost > d.tasks[r.task].remaining)
  BY DEF EnqueuedJob, Conflict, JobRow
<1>2. LET put == Insert(d, "jobs", JobRow(r, shown), MaxWork + 1)
          new == Keyed(d, "jobs", r.key) = {}
      IN EnqueuedJob(d, r, shown) = Then(put, LAMBDA e, j : Done(IF new THEN Reserve(e, r.task, r.cost) ELSE e, j))
  BY DEF EnqueuedJob, Conflict, JobRow
<1>3. Insert(d, "jobs", JobRow(r, shown), MaxWork + 1).ok  BY <1>2 DEF Then, Conflict
<1>4. QED  BY <1>1, <1>2, <1>3 DEF Then, Done

Charged(x, cost) == [x EXCEPT !["remaining"] = @ - cost]
Charges(d, e, task, cost) ==
  /\ IsRecord(e) /\ Same(d, e, {"tasks", "revision"}) /\ e.revision = d.revision + 2 /\ d.revision \in Nat
  /\ e.tasks = [d.tasks EXCEPT ![task] = Charged(d.tasks[task], cost)]
LEMMA ReserveFacts ==
  ASSUME NEW d, Formed(d), NEW task, NEW cost
  PROVE  Charges(d, Reserve(d, task, cost), task, cost)
<1> DEFINE c == [d EXCEPT !.tasks[task].remaining = @ - cost]
           e == Reserve(d, task, cost)
<1>0. IsRecord(d) /\ d.revision \in Nat /\ DOMAIN d = Fields  BY DEF Formed, IsRecord
<1>1. IsRecord(c) /\ c.revision = d.revision /\ \A f \in Fields \ {"tasks", "revision"} : c[f] = d[f]
  BY <1>0 DEF IsRecord, Fields
<1>2. c.tasks = [d.tasks EXCEPT ![task] = Charged(d.tasks[task], cost)]
  BY <1>0 DEF Charged, Fields
<1>3. e = Raise(Raise(c))  BY DEF Reserve
<1> HIDE DEF c, e
<1>4. /\ IsRecord(Raise(c)) /\ Raise(c).revision = d.revision + 1
      /\ \A f \in Fields \ {"revision"} : Raise(c)[f] = c[f]
  BY <1>0, <1>1 DEF Raise, IsRecord, Fields
<1> DEFINE b == Raise(c)
<1>10. IsRecord(b) /\ b.revision = d.revision + 1  BY <1>4
<1> HIDE DEF b
<1>5. /\ IsRecord(Raise(b)) /\ Raise(b).revision = d.revision + 2
      /\ \A f \in Fields \ {"revision"} : Raise(b)[f] = b[f]
  BY <1>0, <1>10 DEF Raise, IsRecord, Fields
<1>6. e = Raise(b)  BY <1>3 DEF b
<1>7. e.tasks = c.tasks  BY <1>4, <1>5, <1>6 DEF Fields, b
<1>8. \A f \in Fields \ {"tasks", "revision"} : e[f] = d[f]  BY <1>1, <1>4, <1>5, <1>6 DEF b
<1>9. QED  BY <1>0, <1>2, <1>5, <1>6, <1>7, <1>8 DEF Same, Charges, e

LEMMA ChargedFacts ==
  ASSUME NEW x, HasColumns("tasks", x), NEW cost
  PROVE  LET y == Charged(x, cost) IN
         /\ Keeps("tasks", x, y) /\ y.remaining = x.remaining - cost /\ y.depth = x.depth /\ y.status = x.status
<1>1. \A f \in {"key", "body", "remaining", "depth", "status"} : f \in Columns["tasks"]  BY DEF Columns
<1> DEFINE v == x.remaining - cost  y == [x EXCEPT !["remaining"] = v]
<1>2. Charged(x, cost) = y  BY DEF Charged
<1>3. HasColumns("tasks", y) /\ y["remaining"] = v /\ \A b \in Columns["tasks"] \ {"remaining"} : y[b] = x[b]
  BY <1>1, ColumnsEdit
<1> HIDE DEF y
<1>4. QED  BY <1>1, <1>2, <1>3 DEF Keeps

LEMMA JobGood ==
  ASSUME NEW d, Base(d), NEW r, NEW shown, EnqueuedJob(d, r, shown).ok
  PROVE  Good(d, EnqueuedJob(d, r, shown).db)
<1> DEFINE row == JobRow(r, shown)
           put == Insert(d, "jobs", row, MaxWork + 1)
           new == Keyed(d, "jobs", r.key) = {}
           m   == Add(d, "jobs", row)
           e   == Reserve(m, r.task, r.cost)
           res == EnqueuedJob(d, r, shown).db
<1>1. put.ok /\ res = (IF new THEN Reserve(put.db, r.task, r.cost) ELSE put.db) /\ r.task \in DOMAIN d.tasks
  BY EnqueuedJobIs
<1>2. row.key = r.key /\ HasColumns("jobs", row) /\ row.status = "queued" /\ row.body.task = r.task
  BY DEF JobRow, HasColumns, Columns
<1> HIDE DEF row, res
<1>3. \/ put.db = d /\ ~ new
      \/ new /\ put.db = m
  <2>1. \/ put.db = d /\ put.id \in Keyed(d, "jobs", row.key)
        \/ Keyed(d, "jobs", row.key) = {} /\ put.db = m
    BY <1>1, InsertFacts
  <2>2. QED  BY <1>2, <2>1
<1> HIDE DEF put
<1>4. ASSUME new PROVE Good(d, e)
  <2>1. Fits(d, "jobs", row)  BY <1>1, <1>2, <1>4 DEF Fits, SourceTables
  <2>2. Base(m) /\ Adds(d, m, "jobs", row)  BY <2>1, AddBase DEF Tables, Counted
  <2> HIDE DEF m
  <2>3. Formed(d) /\ Formed(m)  BY <2>2 DEF Base
  <2>4. Kept(d, m)  BY <2>2, <2>3, AddsKeep DEF Tables
  <2>5. /\ \A u \in Tables \ {"jobs"} : m[u] = d[u]
        /\ m.links = d.links /\ m.focus = d.focus
    BY <2>2, <2>3, AddsTables DEF Tables
  <2>6. m.tasks = d.tasks /\ m.messages = d.messages /\ m.artifacts = d.artifacts  BY <2>5 DEF Tables
  <2>7. Complete(d) => Complete(m)  BY <2>5, <2>6, CompleteSame
  <2>8. Sound(d, m)  BY <2>2, <2>4, <2>7 DEF Sound
  <2> DEFINE x == m.tasks[r.task]  y == Charged(x, r.cost)
  <2>9. HasColumns("tasks", x)  BY <1>1, <2>2, <2>6 DEF Base, Rowed, Mutable
  <2>10. Keeps("tasks", x, y)  BY <2>9, ChargedFacts
  <2>11. /\ IsRecord(e) /\ Same(m, e, {"tasks", "revision"}) /\ e.revision = m.revision + 2 /\ m.revision \in Nat
         /\ e.tasks = [m.tasks EXCEPT ![r.task] = y]
    <3>1. Charges(m, e, r.task, r.cost)  BY <2>3, ReserveFacts
    <3>2. QED  BY <3>1 DEF Charges
  <2> HIDE DEF e, y
  <2>12. "tasks" \in {"tasks", "jobs", "messages"} /\ r.task \in DOMAIN m["tasks"] /\ Keeps("tasks", m["tasks"][r.task], y)
    BY <1>1, <2>6, <2>10
  <2>13. e["tasks"] = [m["tasks"] EXCEPT ![r.task] = y] /\ e.revision \in Nat /\ e.revision >= m.revision  BY <2>11
  <2>14. Sound(m, e)  BY <2>2, <2>11, <2>12, <2>13, EditGood
  <2>15. Sound(d, e)  BY <2>8, <2>14, SoundAgain
  <2>16. e.revision > d.revision  BY <2>2, <2>3, <2>11 DEF Adds, Formed
  <2>17. QED  BY <2>15, <2>16 DEF Good, Told
<1>5. QED  BY <1>1, <1>3, <1>4, GoodSelf DEF res

LEMMA AddedMessageIs ==
  ASSUME NEW d, NEW r, AddedMessage(d, r).ok
  PROVE  LET put == Insert(d, "messages", MessageRow(r.key, r.source, r.text), MaxMessages)
             new == Keyed(d, "messages", r.key) = {}
         IN /\ put.ok /\ AddedMessage(d, r) = IF new THEN LinkedToFocus(put.db, put.id) ELSE Done(put.db, put.id)
            /\ r.source.task \in DOMAIN d.tasks /\ Credits(d, r.source)
<1>1. r.source.task \in DOMAIN d.tasks /\ Credits(d, r.source)
  BY DEF AddedMessage, Conflict, Credits
<1>2. LET put == Insert(d, "messages", MessageRow(r.key, r.source, r.text), MaxMessages)
          new == Keyed(d, "messages", r.key) = {}
      IN AddedMessage(d, r) = Then(put, LAMBDA e, m : IF new THEN LinkedToFocus(e, m) ELSE Done(e, m))
  BY DEF AddedMessage, Conflict, MessageRow
<1>3. Insert(d, "messages", MessageRow(r.key, r.source, r.text), MaxMessages).ok  BY <1>2 DEF Then, Conflict
<1>4. QED  BY <1>1, <1>2, <1>3 DEF Then

LEMMA MessageGood ==
  ASSUME NEW d, Base(d), NEW r, AddedMessage(d, r).ok
  PROVE  Good(d, AddedMessage(d, r).db)
<1> DEFINE row == MessageRow(r.key, r.source, r.text)
           put == Insert(d, "messages", row, MaxMessages)
           new == Keyed(d, "messages", r.key) = {}
           m   == Add(d, "messages", row)
           i   == Len(d.messages) + 1
           res == AddedMessage(d, r)
<1>1. /\ put.ok /\ res = (IF new THEN LinkedToFocus(put.db, put.id) ELSE Done(put.db, put.id))
      /\ r.source.task \in DOMAIN d.tasks /\ Credits(d, r.source)
  BY AddedMessageIs
<1>2. row.key = r.key /\ row.body.source = r.source /\ HasColumns("messages", row)
  BY DEF MessageRow, HasColumns, Columns
<1>3. res.ok  OBVIOUS
<1> HIDE DEF row, res
<1>4. \/ put.db = d /\ ~ new
      \/ new /\ put.db = m /\ put.id = i /\ ~ (Len(d.messages) >= MaxMessages)
  <2>1. \/ put.db = d /\ put.id \in Keyed(d, "messages", row.key)
        \/ /\ Keyed(d, "messages", row.key) = {} /\ ~ (Len(d.messages) >= MaxMessages)
           /\ put.db = m /\ put.id = i
    BY <1>1, InsertFacts
  <2>2. QED  BY <1>2, <2>1
<1> HIDE DEF put
<1>5. CASE put.db = d /\ ~ new
  <2>1. res.db = d  BY <1>1, <1>5 DEF Done
  <2>2. QED  BY <2>1, GoodSelf DEF res
<1>6. CASE new /\ put.db = m /\ put.id = i /\ ~ (Len(d.messages) >= MaxMessages)
  <2>1. Fits(d, "messages", row)  BY <1>1, <1>2, <1>6 DEF Fits
  <2>2. MaxMessages \in Nat /\ Capacity["messages"] = MaxMessages  BY GroupStateAssumption DEF Capacity
  <2>3. Base(m) /\ Adds(d, m, "messages", row)  BY <1>6, <2>1, <2>2, AddBase DEF Tables
  <2> HIDE DEF m
  <2>4. Formed(d)  BY DEF Base
  <2>5. m.messages[i] = row  BY <2>3 DEF Adds, Grew
  <2>6. m.focus = d.focus  BY <2>3, <2>4, AddsTables DEF Tables
  <2> DEFINE focus == Focus(m, m.messages[i].body.source.task)  c == (CHOOSE f \in focus : TRUE).claim
  <2>7. res = IF focus = {} THEN Done(m, i) ELSE AttachEvidence(m, "messages", i, c)
    <3>1. res = LinkedToFocus(m, i)  BY <1>1, <1>6
    <3>2. LinkedToFocus(m, i) = IF focus = {} THEN Done(m, i) ELSE AttachEvidence(m, "messages", i, c)
      BY DEF LinkedToFocus
    <3>3. QED  BY <3>1, <3>2
  <2> HIDE DEF c, focus
  <2>8. CASE focus = {}
    <3>1. res.db = m  BY <2>7, <2>8 DEF Done
    <3>2. Kept(d, m)  BY <2>3, <2>4, AddsKeep DEF Tables
    <3>5. m.messages[i].body.source.task = r.source.task  BY <1>2, <2>5
    <3>3. ~ Complete(d)  BY <1>1, <2>6, <2>8, <3>5 DEF focus, Focus, Complete
    <3>4. QED  BY <2>3, <3>1, <3>2, <3>3 DEF Good, Sound, res
  <2>9. CASE focus # {}
    <3>1. res = AttachEvidence(m, "messages", i, c)  BY <2>7, <2>9
    <3>2. AttachEvidence(Add(d, "messages", MessageRow(r.key, r.source, r.text)), "messages", i, c).ok
      BY <1>3, <3>1 DEF m, row
    <3>3. Writes(d, AttachEvidence(Add(d, "messages", MessageRow(r.key, r.source, r.text)), "messages", i, c).db)
      BY <1>1, <1>6, <3>2, MessageWrites
    <3>4. Writes(d, res.db)  BY <3>1, <3>3 DEF m, row
    <3>5. QED  BY <3>4, WritesGood DEF res
  <2>10. QED  BY <2>8, <2>9
<1>7. QED  BY <1>4, <1>5, <1>6
LEMMA ServeGood ==
  ASSUME Base(db), Serve
  PROVE  Good(db, db')
<1>1. PICK r \in Requests :
        \/ AddAgent(r) \/ UpdateState(r) \/ AddTask(r) \/ CloseTask(r) \/ EnqueueJob(r) \/ AddMessage(r)
        \/ ReviewMessage(r) \/ ProposeClaim(r) \/ LinkEvidence(r) \/ Relate(r) \/ Review(r) \/ ProposeArtifact(r)
  BY DEF Serve
<1>2. r.key[1] = "api" /\ (r.op = "link" => r.kind \in {"messages", "artifacts"})  BY RequestAssumption
<1>3. CASE AddAgent(r)  BY <1>3, AgentGood DEF AddAgent, Commit
<1>4. CASE UpdateState(r)  BY <1>4, UpdateGood DEF UpdateState, Commit
<1>5. CASE AddTask(r)  BY <1>5, TaskGood DEF AddTask, Commit
<1>6. CASE CloseTask(r)  BY <1>6, CloseGood DEF CloseTask, Commit
<1>7. CASE EnqueueJob(r)  BY <1>7, JobGood DEF EnqueueJob, Commit
<1>8. CASE AddMessage(r)  BY <1>8, MessageGood DEF AddMessage, Commit
<1>9. CASE ReviewMessage(r)  BY <1>9, ReviewedGood DEF ReviewMessage, Commit
<1>10. CASE ProposeClaim(r)
  <2>1. InsertClaim(db, r.key, r.content, r.source).ok /\ db' = InsertClaim(db, r.key, r.content, r.source).db
    BY <1>10 DEF ProposeClaim, Commit
  <2>2. Writes(db, InsertClaim(db, r.key, r.content, r.source).db)  BY <2>1, InsertClaimWrites
  <2>3. QED  BY <2>1, <2>2, WritesGood
<1>11. CASE LinkEvidence(r)
  <2>1. AttachEvidence(db, r.kind, r.id, r.claim).ok /\ db' = AttachEvidence(db, r.kind, r.id, r.claim).db
    BY <1>11 DEF LinkEvidence, Commit
  <2>2. r.kind \in LinkKinds  BY <1>2, <1>11 DEF LinkEvidence, LinkKinds
  <2>3. Writes(db, AttachEvidence(db, r.kind, r.id, r.claim).db)  BY <2>1, <2>2, AttachWrites
  <2>4. QED  BY <2>1, <2>3, WritesGood
<1>12. CASE Relate(r)
  <2> DEFINE q == ProposeRelationship(db, r.key, r.from, r.to, r.kind, r.source)
  <2>1. q.ok /\ db' = q.db  BY <1>12 DEF Relate, Commit
  <2>2. Writes(db, q.db)  BY <2>1, RelationWrites
  <2>3. QED  BY <2>1, <2>2, WritesGood
<1>13. CASE Review(r)
  <2> DEFINE q == ReviewRelationship(db, r.key, r.relationship, r.reviewer, r.status, r.task, r.job)
  <2>1. q.ok /\ db' = q.db  BY <1>13 DEF Review, Commit
  <2>2. Sees(db, OpinionRow(r.key, r.relationship, r.reviewer, r.status, r.task, r.job))
    BY <1>2 DEF Sees, OpinionRow
  <2>3. Writes(db, q.db)  BY <2>1, <2>2, ReviewWrites
  <2>4. QED  BY <2>1, <2>3, WritesGood
<1>14. CASE ProposeArtifact(r)
  <2> DEFINE q == InsertArtifact(db, r.key, r.content, r.proof, r.source)
  <2>1. q.ok /\ db' = q.db  BY <1>14 DEF ProposeArtifact, Commit
  <2>2. Writes(db, q.db)  BY <2>1, ArtifactWrites
  <2>3. QED  BY <2>1, <2>2, WritesGood
<1>15. QED
  BY <1>1, <1>3, <1>4, <1>5, <1>6, <1>7, <1>8, <1>9, <1>10, <1>11, <1>12, <1>13, <1>14

-------------------------------------------------------------------------------
(* Batches *)

IsItem(item) == \E n \in DOMAIN Order : item.kind = Order[n]
LEMMA Kinds ==
  ASSUME NEW item, IsItem(item)
  PROVE  /\ item.kind \in {"claim", "relationship", "review", "finding", "artifact", "ask"}
         /\ Rank(item) \in 1..6 /\ Order[Rank(item)] = item.kind
<1>1. DOMAIN Order = 1..6 /\ Order[1] = "claim" /\ Order[2] = "relationship" /\ Order[3] = "review"
      /\ Order[4] = "finding" /\ Order[5] = "artifact" /\ Order[6] = "ask"
  BY DEF Order
<1>2. \A n \in 1..6 : n = 1 \/ n = 2 \/ n = 3 \/ n = 4 \/ n = 5 \/ n = 6  OBVIOUS
<1>3. item.kind \in {"claim", "relationship", "review", "finding", "artifact", "ask"}  BY <1>1, <1>2 DEF IsItem
<1>4. Rank(item) \in DOMAIN Order /\ Order[Rank(item)] = item.kind  BY DEF IsItem, Rank
<1>5. QED  BY <1>1, <1>3, <1>4

Before(items, i, j) == \/ Rank(items[i]) < Rank(items[j])
                       \/ (Rank(items[i]) = Rank(items[j]) /\ i <= j)
\* The order of a batch puts each of its items at a place of its own.
LEMMA Places ==
  ASSUME NEW items, IsSeq(items), \A i \in DOMAIN items : IsItem(items[i])
  PROVE  /\ \A j \in DOMAIN items : Place(items, j) \in DOMAIN items
         /\ \A j, k \in DOMAIN items : Place(items, j) = Place(items, k) => j = k
         /\ \A n \in DOMAIN items : \E j \in DOMAIN items : Place(items, j) = n
<1> DEFINE D == DOMAIN items
           P(j) == {i \in D : Before(items, i, j)}
           f == [j \in D |-> Place(items, j)]
<1>1. D = 1..Len(items) /\ Len(items) \in Nat /\ D \subseteq Nat  BY SeqFacts
<1>2. IsFiniteSet(D) /\ Cardinality(D) = Len(items)
  <2> DEFINE n == Len(items)
  <2>1. D = 1..n /\ n \in Nat  BY <1>1
  <2> HIDE DEF n, D
  <2>2. IsFiniteSet(1..n) /\ Cardinality(1..n) = IF 1 > n THEN 0 ELSE n - 1 + 1  BY <2>1, FS_Interval
  <2>3. IsFiniteSet(D) /\ Cardinality(D) = n  BY <2>1, <2>2
  <2>4. QED  BY <2>3 DEF n
<1>3. \A j : Place(items, j) = Cardinality(P(j))  BY DEF Place, Before
<1>4. \A j \in D : Rank(items[j]) \in Nat  BY Kinds
<1>5. \A j \in D : P(j) \in SUBSET D /\ j \in P(j)  BY <1>1, <1>4 DEF Before
<1>6. \A j \in D : IsFiniteSet(P(j)) /\ Cardinality(P(j)) \in Nat /\ Cardinality(P(j)) <= Len(items)
  BY <1>2, <1>5, FS_Subset, FS_CardinalityType
<1>7. \A j \in D : Cardinality(P(j)) # 0
  BY <1>5, <1>6, FS_EmptySet
<1>8. \A j \in D : Place(items, j) \in D
  <2> HIDE DEF P
  <2>1. \A j \in D : Place(items, j) \in Nat /\ Place(items, j) # 0 /\ Place(items, j) <= Len(items)
    BY <1>3, <1>6, <1>7
  <2> HIDE DEF D
  <2>2. QED  BY <1>1, <2>1
<1>9. ASSUME NEW j \in D, NEW k \in D, Place(items, j) = Place(items, k), Before(items, j, k) PROVE j = k
  <2>1. P(j) \in SUBSET P(k)
    <3>1. \A i \in P(j) : i \in D /\ Before(items, i, j)  OBVIOUS
    <3>2. \A i \in D : Before(items, i, j) => Before(items, i, k)  BY <1>1, <1>4, <1>9 DEF Before
    <3>3. QED  BY <3>1, <3>2
  <2>2. Cardinality(P(j)) = Cardinality(P(k))  BY <1>3, <1>9
  <2>3. P(j) = P(k)
    <3> HIDE DEF P
    <3>1. QED  BY <1>6, <2>1, <2>2, FS_Subset
  <2>4. k \in P(j)  BY <1>5, <2>3
  <2>5. QED  BY <1>1, <1>4, <1>9, <2>4 DEF Before
<1>10. \A j, k \in D : Before(items, j, k) \/ Before(items, k, j)  BY <1>1, <1>4 DEF Before
<1>11. \A j, k \in D : Place(items, j) = Place(items, k) => j = k  BY <1>9, <1>10
<1>12. f \in Injection(D, D)  BY <1>8, <1>11 DEF Injection, IsInjective
<1>13. f \in Surjection(D, D)
  <2> HIDE DEF f, D
  <2>1. QED  BY <1>2, <1>12, FS_Injection
<1>14. \A n \in D : \E j \in D : Place(items, j) = n  BY <1>13 DEF Surjection
<1>15. QED  BY <1>8, <1>11, <1>14

LEMMA InOrderFacts ==
  ASSUME NEW items, IsSeq(items), \A i \in DOMAIN items : IsItem(items[i])
  PROVE  /\ DOMAIN InOrder(items) = DOMAIN items /\ Len(InOrder(items)) = Len(items)
         /\ \A n \in DOMAIN items : \E j \in DOMAIN items : Place(items, j) = n /\ InOrder(items)[n] = items[j]
         /\ \A j \in DOMAIN items : InOrder(items)[Place(items, j)] = items[j]
<1>1. DOMAIN InOrder(items) = DOMAIN items  BY DEF InOrder
<1>2. DOMAIN items = 1..Len(items) /\ Len(items) \in Nat  BY SeqFacts
<1>3. Len(InOrder(items)) = Len(items)
  <2> DEFINE s == InOrder(items)  S == {s[n] : n \in DOMAIN s}
  <2>1. s \in [1..Len(items) -> S]  BY <1>1, <1>2 DEF InOrder
  <2> HIDE DEF s, S
  <2>2. QED  BY <1>2, <2>1 DEF s
<1>4. \A n \in DOMAIN items : InOrder(items)[n] = items[CHOOSE j \in DOMAIN items : Place(items, j) = n]
  BY DEF InOrder
<1>5. \A n \in DOMAIN items : \E j \in DOMAIN items : Place(items, j) = n /\ InOrder(items)[n] = items[j]
  BY <1>4, Places
<1>6. \A j \in DOMAIN items : InOrder(items)[Place(items, j)] = items[j]  BY <1>5, Places
<1>7. QED  BY <1>1, <1>3, <1>5, <1>6
\* One item.
LEMMA ApplyWrites ==
  ASSUME NEW d, Base(d), NEW job \in DOMAIN d.jobs, d.jobs[job].status = "done", NEW item, IsItem(item), NEW local,
         Apply(d, job, item, local).ok
  PROVE  Writes(d, Apply(d, job, item, local).db)
<1> DEFINE body   == d.jobs[job].body
           source == [agent |-> body.agent, task |-> body.task, job |-> job]
           key    == Mine(job, item.key)
           r      == Apply(d, job, item, local)
           about  == Resolve(local, "claim", item.claim)
<1>1. FromBatch(key) /\ key[2] = job  BY DEF FromBatch, Mine
<1>2. Credits(d, source)  BY DEF Credits
<1>3. item.kind \in {"claim", "relationship", "review", "finding", "artifact", "ask"}  BY Kinds
<1>4. r.ok  OBVIOUS
<1>5. CASE item.kind = "claim"
  <2>1. r = InsertClaim(d, key, item.content, source)  BY <1>5 DEF Apply
  <2> HIDE DEF r, key, source
  <2>2. Writes(d, InsertClaim(d, key, item.content, source).db)  BY <1>4, <2>1, InsertClaimWrites
  <2>3. QED  BY <2>1, <2>2 DEF r
<1>6. CASE item.kind = "relationship"
  <2> DEFINE from == Resolve(local, "claim", item.from)  to == Resolve(local, "claim", item.to)
  <2>1. r = ProposeRelationship(d, key, from, to, item.type, source)  BY <1>6 DEF Apply
  <2> HIDE DEF r, key, source, from, to
  <2>2. Writes(d, ProposeRelationship(d, key, from, to, item.type, source).db)  BY <1>4, <2>1, RelationWrites
  <2>3. QED  BY <2>1, <2>2 DEF r
<1>7. CASE item.kind = "review"
  <2> DEFINE edge == Resolve(local, "relationship", item.relationship)
             q == ReviewRelationship(d, key, edge, body.agent, item.status, body.task, job)
  <2>1. r = IF edge \notin Shown(d, job) THEN Conflict ELSE q  BY <1>7 DEF Apply
  <2> HIDE DEF r
  <2>2. edge \in Shown(d, job) /\ r = q  BY <1>4, <2>1 DEF Conflict
  <2>3. Sees(d, OpinionRow(key, edge, body.agent, item.status, body.task, job))
    BY <1>1, <2>2 DEF Sees, OpinionRow, Shown
  <2> HIDE DEF key, edge, body
  <2>4. Writes(d, q.db)  BY <1>4, <2>2, <2>3, ReviewWrites
  <2>5. QED  BY <2>2, <2>4 DEF r
<1>8. CASE item.kind = "finding"
  <2>1. r = Found(d, key, about, source, item.text)  BY <1>8 DEF Apply
  <2> HIDE DEF r, key, source, about
  <2>2. Writes(d, Found(d, key, about, source, item.text).db)  BY <1>1, <1>2, <1>4, <2>1, FoundWrites
  <2>3. QED  BY <2>1, <2>2 DEF r
<1>9. CASE item.kind = "artifact"
  <2> DEFINE q == InsertArtifact(d, key, item.content, item.proof, source)
  <2>1. r = Conflict \/ r = q  BY <1>9 DEF Apply
  <2> HIDE DEF r, key, source
  <2>2. r = q  BY <1>4, <2>1 DEF Conflict
  <2>3. Writes(d, q.db)  BY <1>4, <2>2, ArtifactWrites
  <2>4. QED  BY <2>2, <2>3 DEF r
<1>10. CASE item.kind = "ask"
  <2>1. r = Asked(d, key, about, item.action)  BY <1>10 DEF Apply
  <2> HIDE DEF r, key, about
  <2>2. Writes(d, Asked(d, key, about, item.action).db)  BY <1>1, <1>4, <2>1, AskedWrites
  <2>3. QED  BY <2>1, <2>2 DEF r
<1>11. QED  BY <1>3, <1>5, <1>6, <1>7, <1>8, <1>9, <1>10

\* The states a batch goes through.
Runs(after, job, first, items, N) ==
  after = [n \in 0..N |-> IF n = 0 THEN first ELSE Proceed(job, after[n - 1], items[n])]

LEMMA RunsExist ==
  ASSUME NEW job, NEW first, NEW items, NEW N \in Nat
  PROVE  \E after : Runs(after, job, first, items, N)
<1> DEFINE S == {n \in 0..N : ~ \E after : Runs(after, job, first, items, n)}
<1>1. SUFFICES ASSUME S # {} PROVE FALSE
  <2>1. N \in 0..N  OBVIOUS
  <2>2. QED  BY <2>1
<1>2. S \subseteq Int /\ IsFiniteSet(S)
  <2>1. IsFiniteSet(0..N)  BY FS_Interval
  <2>2. S \in SUBSET (0..N) /\ S \subseteq Int  OBVIOUS
  <2> HIDE DEF S
  <2>3. IsFiniteSet(S)  BY <2>1, <2>2, FS_Subset
  <2>4. QED  BY <2>2, <2>3
<1> DEFINE m == Min(S)
<1>3. m \in S /\ \A x \in S : m <= x
  <2> HIDE DEF S
  <2>1. QED  BY <1>1, <1>2, MinFacts
<1> HIDE DEF m
<1>4. m \in 0..N /\ ~ \E after : Runs(after, job, first, items, m)  BY <1>3
<1>5. CASE m = 0
  <2> DEFINE after == [n \in 0..0 |-> first]
  <2>1. after = [n \in 0..0 |-> IF n = 0 THEN first ELSE Proceed(job, after[n - 1], items[n])]
    <3>1. \A n \in 0..0 : n = 0  OBVIOUS
    <3>2. [n \in 0..0 |-> first] = [n \in 0..0 |-> IF n = 0 THEN first ELSE Proceed(job, after[n - 1], items[n])]
      <4> HIDE DEF after
      <4>1. QED  BY <3>1
    <3>3. QED  BY <3>2
  <2> HIDE DEF after
  <2>2. Runs(after, job, first, items, m)  BY <1>5, <2>1 DEF Runs
  <2>3. QED  BY <1>4, <2>2
<1>6. CASE m # 0
  <2>1. m - 1 \in 0..N /\ m - 1 \notin S /\ m - 1 \in Nat /\ m \in Nat  BY <1>3, <1>4, <1>6
  <2>2. PICK prior : Runs(prior, job, first, items, m - 1)  BY <2>1
  <2> HIDE DEF S
  <2>3. prior = [n \in 0..(m - 1) |-> IF n = 0 THEN first ELSE Proceed(job, prior[n - 1], items[n])]
    BY <2>2 DEF Runs
  <2> DEFINE after == [n \in 0..m |-> IF n = m THEN Proceed(job, prior[m - 1], items[m]) ELSE prior[n]]
  <2>4. \A n \in 0..m : after[n] = IF n = m THEN Proceed(job, prior[m - 1], items[m]) ELSE prior[n]  OBVIOUS
  <2>5. DOMAIN after = 0..m /\ after = [n \in 0..m |-> after[n]]  OBVIOUS
  <2> HIDE DEF after
  <2>6. \A n \in 0..m : after[n] = IF n = 0 THEN first ELSE Proceed(job, after[n - 1], items[n])
    <3> TAKE n \in 0..m
    <3>1. CASE n = m
      <4>1. after[n] = Proceed(job, prior[m - 1], items[m])  BY <2>4, <3>1
      <4>2. m - 1 \in 0..m /\ m - 1 # m  BY <2>1
      <4>3. after[m - 1] = prior[m - 1]  BY <2>4, <4>2
      <4>4. QED  BY <1>6, <3>1, <4>1, <4>3
    <3>2. CASE n # m
      <4>1. n \in 0..(m - 1)  BY <2>1, <3>2
      <4>2. after[n] = prior[n]  BY <2>4, <3>2
      <4>3. prior[n] = IF n = 0 THEN first ELSE Proceed(job, prior[n - 1], items[n])  BY <2>3, <4>1
      <4>4. n # 0 => n - 1 \in 0..m /\ n - 1 # m  BY <2>1, <4>1
      <4>5. n # 0 => after[n - 1] = prior[n - 1]  BY <2>4, <4>4
      <4>6. QED  BY <4>2, <4>3, <4>5
    <3>3. QED  BY <3>1, <3>2
  <2>7. after = [n \in 0..m |-> IF n = 0 THEN first ELSE Proceed(job, after[n - 1], items[n])]
    <3>1. [n \in 0..m |-> after[n]] = [n \in 0..m |-> IF n = 0 THEN first ELSE Proceed(job, after[n - 1], items[n])]
      BY <2>6
    <3>2. QED  BY <2>5, <3>1
  <2>8. Runs(after, job, first, items, m)  BY <2>7 DEF Runs
  <2>9. QED  BY <1>4, <2>8
<1>7. QED  BY <1>5, <1>6

\* The state after n items of the batch of a job.
First(d, job) == [result |-> Done(d, job), local |-> << >>]
Batch(d, job) == InOrder(d.jobs[job].output.items)
Course(d, job) == CHOOSE after : Runs(after, job, First(d, job), Batch(d, job), Len(Batch(d, job)))
LEMMA CourseFacts ==
  ASSUME NEW d, NEW job, Len(Batch(d, job)) \in Nat
  PROVE  LET after == Course(d, job)  N == Len(Batch(d, job)) IN
         /\ Applied(d, job) = after[N].result
         /\ after[0] = First(d, job)
         /\ \A n \in 1..N : n - 1 \in 0..N /\ after[n] = Proceed(job, after[n - 1], Batch(d, job)[n])
<1> DEFINE N == Len(Batch(d, job))
           after == Course(d, job)
<1>1. Runs(after, job, First(d, job), Batch(d, job), N)  BY RunsExist DEF Course
<1>2. after = [n \in 0..N |-> IF n = 0 THEN First(d, job) ELSE Proceed(job, after[n - 1], Batch(d, job)[n])]
  BY <1>1 DEF Runs
<1>3. Applied(d, job) = after[N].result
  BY DEF Applied, Course, Runs, First, Batch
<1> HIDE DEF after, N
<1>4. N \in Nat  BY DEF N
<1>5. 0 \in 0..N /\ \A n \in 1..N : n \in 0..N /\ n # 0 /\ n - 1 \in 0..N  BY <1>4
<1>6. after[0] = First(d, job)  BY <1>2, <1>5
<1>7. \A n \in 1..N : n - 1 \in 0..N /\ after[n] = Proceed(job, after[n - 1], Batch(d, job)[n])  BY <1>2, <1>5
<1>8. QED  BY <1>3, <1>6, <1>7 DEF after, N
\* What holds of the batch of a completed job.
Ready(d, job) ==
  /\ Base(d) /\ job \in DOMAIN d.jobs /\ d.jobs[job].status = "done"
LEMMA BatchFacts ==
  ASSUME NEW d, NEW job, Ready(d, job)
  PROVE  LET items == d.jobs[job].output.items  batch == Batch(d, job) IN
         /\ IsSeq(items) /\ (\A i \in DOMAIN items : IsItem(items[i]))
         /\ DOMAIN items = 1..Len(items) /\ Len(items) \in Nat
         /\ DOMAIN batch = DOMAIN items /\ Len(batch) = Len(items)
         /\ \A n \in 1..Len(batch) : IsItem(batch[n])
<1> DEFINE items == d.jobs[job].output.items  batch == Batch(d, job)
<1>1. d.jobs[job].output \in Outputs  BY DEF Ready, Base, Answered
<1>2. IsSeq(items) /\ \A i \in DOMAIN items : IsItem(items[i])
  BY <1>1, OutputAssumption DEF IsSeq, IsItem
<1>3. batch = InOrder(items)  BY DEF Batch
<1> HIDE DEF items, batch
<1>4. DOMAIN items = 1..Len(items) /\ Len(items) \in Nat  BY <1>2, SeqFacts
<1>5. /\ DOMAIN batch = DOMAIN items /\ Len(batch) = Len(items)
      /\ \A n \in DOMAIN items : \E j \in DOMAIN items : Place(items, j) = n /\ batch[n] = items[j]
  BY <1>2, <1>3, InOrderFacts
<1>6. \A n \in 1..Len(batch) : IsItem(batch[n])  BY <1>2, <1>4, <1>5
<1>7. QED  BY <1>2, <1>4, <1>5, <1>6 DEF items, batch

LEMMA ReadyAgain ==
  ASSUME NEW d, NEW job, Ready(d, job), NEW e, Writes(d, e)
  PROVE  Ready(e, job) /\ e.jobs = d.jobs
BY DEF Ready, Writes, Untouched

\* As long as no item fails, what was written is sound.
LEMMA CourseWrites ==
  ASSUME NEW d, NEW job, Ready(d, job)
  PROVE  \A n \in 0..Len(Batch(d, job)) : Course(d, job)[n].result.ok => Writes(d, Course(d, job)[n].result.db)
<1> DEFINE N == Len(Batch(d, job))
           after == Course(d, job)
           batch == Batch(d, job)
           S == {n \in 0..N : after[n].result.ok /\ ~ Writes(d, after[n].result.db)}
<1>1. N \in Nat /\ \A n \in 1..N : IsItem(batch[n])
  <2> DEFINE items == d.jobs[job].output.items
  <2>1. Len(items) \in Nat /\ Len(batch) = Len(items) /\ \A n \in 1..Len(batch) : IsItem(batch[n])  BY BatchFacts
  <2>2. QED  BY <2>1
<1>2. /\ after[0] = First(d, job)
      /\ \A n \in 1..N : n - 1 \in 0..N /\ after[n] = Proceed(job, after[n - 1], batch[n])
  BY <1>1, CourseFacts
<1> HIDE DEF N, after, batch
<1>3. SUFFICES ASSUME S # {} PROVE FALSE  BY DEF N, after
<1>4. S \subseteq Int /\ IsFiniteSet(S)
  <2>1. IsFiniteSet(0..N)  BY <1>1, FS_Interval
  <2>2. S \in SUBSET (0..N) /\ S \subseteq Int  BY <1>1
  <2> HIDE DEF S
  <2>3. IsFiniteSet(S)  BY <2>1, <2>2, FS_Subset
  <2>4. QED  BY <2>2, <2>3
<1> DEFINE m == Min(S)
<1>5. m \in S /\ \A x \in S : m <= x
  <2> HIDE DEF S
  <2>1. QED  BY <1>3, <1>4, MinFacts
<1> HIDE DEF m
<1>6. m \in 0..N /\ after[m].result.ok /\ ~ Writes(d, after[m].result.db)  BY <1>5
<1>7. m # 0
  <2>1. First(d, job).result.db = d  BY DEF First, Done
  <2>2. Writes(d, d)  BY WritesSelf DEF Ready
  <2>3. QED  BY <1>2, <1>6, <2>1, <2>2
<1>8. m \in 1..N /\ m - 1 \in 0..N /\ ~ m <= m - 1  BY <1>1, <1>6, <1>7
<1>9. after[m] = Proceed(job, after[m - 1], batch[m])  BY <1>2, <1>8
<1> DEFINE s == after[m - 1]
           a == Apply(s.result.db, job, batch[m], s.local)
<1>10. m - 1 \notin S  BY <1>5, <1>8
<1>11. s.result.ok /\ after[m].result = a
  <2>1. s.result.ok  BY <1>6, <1>9 DEF Proceed
  <2>2. QED  BY <1>9, <2>1 DEF Proceed
<1>12. Writes(d, s.result.db)  BY <1>8, <1>10, <1>11
<1> HIDE DEF s, S
<1>13. Ready(s.result.db, job)  BY <1>12, ReadyAgain
<1>14. a.ok  BY <1>6, <1>11
<1>15. Writes(s.result.db, a.db)  BY <1>1, <1>8, <1>13, <1>14, ApplyWrites DEF Ready
<1>16. Writes(d, a.db)  BY <1>12, <1>15, WritesAgain DEF Ready
<1>17. QED  BY <1>6, <1>11, <1>16

LEMMA AppliedWrites ==
  ASSUME NEW d, NEW job, Ready(d, job), Applied(d, job).ok
  PROVE  Writes(d, Applied(d, job).db)
<1> DEFINE N == Len(Batch(d, job))
           items == d.jobs[job].output.items
<1>1. Len(items) \in Nat /\ Len(Batch(d, job)) = Len(items)  BY BatchFacts
<1>2. N \in Nat  BY <1>1
<1>3. Applied(d, job) = Course(d, job)[N].result  BY <1>2, CourseFacts
<1>4. N \in 0..N  BY <1>2
<1>5. QED  BY <1>3, <1>4, CourseWrites

\* A receipt.
LEMMA ReceiveGood ==
  ASSUME NEW d, Base(d), NEW job, NEW status
  PROVE  LET e == Receive(d, job, status) IN
         /\ Sound(d, e) /\ Plain(d, e) /\ Same(d, e, {"receipts"}) /\ e.revision = d.revision
         /\ e.receipts = d.receipts \cup {[job |-> job, status |-> status]}
<1> DEFINE e == Receive(d, job, status)
<1>0. Formed(d) /\ d.revision \in Nat  BY DEF Base, Formed
<1>1. /\ IsRecord(e) /\ Same(d, e, {"receipts"}) /\ e.receipts = d.receipts \cup {[job |-> job, status |-> status]}
      /\ e.revision = d.revision
  BY <1>0 DEF Formed, Fields, Same, Receive, IsRecord
<1> HIDE DEF e
<1>2. \A u \in Tables : u \in Fields \ {"receipts"}  BY DEF Tables, Fields
<1>3. Plain(d, e) /\ e.updates = d.updates /\ e.artifacts = d.artifacts  BY <1>1 DEF Same, Fields, Plain
<1>4. SameTables(d, e)  BY <1>0, <1>1, <1>2, <1>3 DEF SameTables, Same, Formed, IsRecord, Plain
<1>5. Linked(e)
  <2> SUFFICES ASSUME NEW k \in LinkKinds, NEW l \in e.links[k] PROVE Links(e, k, l)
    BY DEF Linked
  <2>1. Links(d, k, l)  BY <1>3 DEF Base, Linked, Plain
  <2>2. e[k] = d[k]  BY <1>4 DEF SameTables, LinkKinds, Tables
  <2>3. QED  BY <1>3, <2>1, <2>2 DEF Links, Plain
<1>6. Proved(e) /\ Focused(e)  BY <1>3 DEF Base, Proved, Focused, Plain
<1>7. Base(e)  BY <1>4, <1>5, <1>6, SameBase
<1>8. Kept(d, e)  BY <1>0, <1>1, <1>3, <1>4, SameKept DEF KeptSets, Plain
<1>9. Complete(d) => Complete(e)  BY <1>3, CompleteSame DEF Plain
<1>10. QED  BY <1>1, <1>3, <1>7, <1>8, <1>9 DEF Sound, e

LEMMA IngestGood ==
  ASSUME NEW d, NEW job, Ready(d, job)
  PROVE  Good(d, Ingest(d, job)) /\ Ingest(d, job).revision >= d.revision
<1> DEFINE f == Applied(d, job).db
<1>0. Base(d) /\ d.revision \in Nat  BY DEF Ready, Base, Formed
<1>1. \/ Ingest(d, job) = d
      \/ Applied(d, job).ok /\ Ingest(d, job) = Receive(f, job, "accepted")
      \/ Ingest(d, job) = Receive(d, job, "rejected")
  BY DEF Ingest
<1>2. CASE Ingest(d, job) = d  BY <1>0, <1>2, GoodSelf
<1>3. CASE Applied(d, job).ok /\ Ingest(d, job) = Receive(f, job, "accepted")
  <2>1. Writes(d, f)  BY <1>3, AppliedWrites
  <2> HIDE DEF f
  <2> DEFINE e == Receive(f, job, "accepted")
  <2>2. Base(f) /\ f.revision \in Nat  BY <2>1 DEF Writes, Base, Formed
  <2>3. Sound(f, e) /\ Plain(f, e) /\ e.revision = f.revision  BY <2>2, ReceiveGood
  <2> HIDE DEF e
  <2>4. Sound(d, e)  BY <1>0, <2>1, <2>3, SoundAgain DEF Writes, Sound
  <2>5. Told(d, e)
    <3>1. CASE f = d  BY <2>3, <3>1, PlainTold
    <3>2. CASE f.revision > d.revision  BY <2>3, <3>2 DEF Told
    <3>3. QED  BY <2>1, <3>1, <3>2 DEF Writes
  <2>6. e.revision >= d.revision  BY <1>0, <2>1, <2>2, <2>3 DEF Writes
  <2>7. QED  BY <1>3, <2>4, <2>5, <2>6 DEF Good, e
<1>4. CASE Ingest(d, job) = Receive(d, job, "rejected")
  <2> DEFINE e == Receive(d, job, "rejected")
  <2>1. Sound(d, e) /\ Plain(d, e) /\ e.revision = d.revision  BY <1>0, ReceiveGood
  <2>2. QED  BY <1>0, <1>4, <2>1, PlainTold DEF Good
<1>5. QED  BY <1>1, <1>2, <1>3, <1>4
-------------------------------------------------------------------------------
(* The workers *)

WithStatus(x, status) == [x EXCEPT !["status"] = status]
\* The status of a job, and the trigger on it.
Statuses(d, e, job, status) ==
  /\ IsRecord(e) /\ Same(d, e, {"jobs", "revision"}) /\ d.revision \in Nat /\ e.revision \in Nat
  /\ e.revision >= d.revision /\ (Focus(d, d.jobs[job].body.task) # {} => e.revision > d.revision)
  /\ e.jobs = [d.jobs EXCEPT ![job] = WithStatus(d.jobs[job], status)]
LEMMA StatusFacts ==
  ASSUME NEW d, Formed(d), NEW job, NEW status
  PROVE  Statuses(d, SetStatus(d, job, status), job, status)
<1> DEFINE c == [d EXCEPT !.jobs[job].status = status]
           e == SetStatus(d, job, status)
<1>0. IsRecord(d) /\ d.revision \in Nat /\ DOMAIN d = Fields  BY DEF Formed, IsRecord
<1>1. IsRecord(c) /\ c.revision = d.revision /\ \A f \in Fields \ {"jobs", "revision"} : c[f] = d[f]
  BY <1>0 DEF IsRecord, Fields
<1>2. c.jobs = [d.jobs EXCEPT ![job] = WithStatus(d.jobs[job], status)]
  BY <1>0 DEF WithStatus, Fields
<1>3. e = IF Focus(d, d.jobs[job].body.task) = {} THEN c ELSE Raise(c)  BY DEF SetStatus
<1> HIDE DEF c, e
<1>4. /\ IsRecord(Raise(c)) /\ Raise(c).revision = d.revision + 1
      /\ \A f \in Fields \ {"revision"} : Raise(c)[f] = c[f]
  BY <1>0, <1>1 DEF Raise, IsRecord, Fields
<1>5. Raise(c).jobs = c.jobs  BY <1>4 DEF Fields
<1>6. CASE Focus(d, d.jobs[job].body.task) = {}
  <2>1. e = c  BY <1>3, <1>6
  <2>2. QED  BY <1>0, <1>1, <1>2, <1>6, <2>1 DEF Statuses, Same, e
<1>7. CASE Focus(d, d.jobs[job].body.task) # {}
  <2>1. e = Raise(c)  BY <1>3, <1>7
  <2>2. \A f \in Fields \ {"jobs", "revision"} : e[f] = d[f]  BY <1>1, <1>4, <2>1
  <2>3. e.jobs = [d.jobs EXCEPT ![job] = WithStatus(d.jobs[job], status)]  BY <1>2, <1>5, <2>1
  <2>4. e.revision = d.revision + 1 /\ IsRecord(e)  BY <1>4, <2>1
  <2>5. QED  BY <1>0, <1>7, <2>2, <2>3, <2>4 DEF Statuses, Same, e
<1>8. QED  BY <1>6, <1>7

\* A row of a job in which the status and one more column may have changed.
LEMMA JobColumns ==
  ASSUME NEW x, HasColumns("jobs", x), x.status # "done", NEW status, NEW c \in {"attempts", "output"}, NEW v
  PROVE  LET y == WithStatus(x, status)  z == [y EXCEPT ![c] = v] IN
         /\ status # "done" => Keeps("jobs", x, y)
         /\ (status = "done" => z.output \in Outputs) => Keeps("jobs", x, z)
         /\ y.status = status /\ z.status = status /\ z[c] = v /\ z.body = x.body
<1> DEFINE y == WithStatus(x, status)  z == [y EXCEPT ![c] = v]
<1>1. \A f \in {"key", "body", "shown", "status", "attempts", "output"} : f \in Columns["jobs"]  BY DEF Columns
<1>2. HasColumns("jobs", y) /\ y["status"] = status /\ \A b \in Columns["jobs"] \ {"status"} : y[b] = x[b]
  <2>1. LET w == [x EXCEPT !["status"] = status] IN
        HasColumns("jobs", w) /\ w["status"] = status /\ \A b \in Columns["jobs"] \ {"status"} : w[b] = x[b]
    BY <1>1, ColumnsEdit
  <2>2. QED  BY <2>1 DEF WithStatus
<1> HIDE DEF y
<1>3. HasColumns("jobs", z) /\ z[c] = v /\ \A b \in Columns["jobs"] \ {c} : z[b] = y[b]
  BY <1>1, <1>2, ColumnsEdit
<1> HIDE DEF z
<1>4. y.key = x.key /\ y.body = x.body /\ y.shown = x.shown /\ y.status = status  BY <1>1, <1>2
<1>5. z.key = x.key /\ z.body = x.body /\ z.shown = x.shown /\ z.status = status  BY <1>1, <1>3, <1>4
<1>6. status # "done" => Keeps("jobs", x, y)  BY <1>2, <1>4 DEF Keeps, KeptJob
<1>7. (status = "done" => z.output \in Outputs) => Keeps("jobs", x, z)  BY <1>3, <1>5 DEF Keeps, KeptJob
<1>8. QED  BY <1>3, <1>4, <1>5, <1>6, <1>7 DEF z, y

LEMMA StatusKeeps ==
  ASSUME NEW x, HasColumns("jobs", x), x.status # "done", NEW status, status # "done"
  PROVE  Keeps("jobs", x, WithStatus(x, status))
<1>1. "attempts" \in {"attempts", "output"}  OBVIOUS
<1>2. QED  BY <1>1, JobColumns

\* A job whose row changes: what its task has as focus tells of it.
LEMMA JobRowGood ==
  ASSUME NEW d, Base(d), NEW job \in DOMAIN d.jobs, NEW row, Keeps("jobs", d.jobs[job], row), NEW e,
         IsRecord(e), Same(d, e, {"jobs", "revision"}), e.jobs = [d.jobs EXCEPT ![job] = row],
         e.revision \in Nat, e.revision >= d.revision,
         Focus(d, d.jobs[job].body.task) # {} => e.revision > d.revision
  PROVE  Good(d, e) /\ (Complete(d) => e.revision > d.revision)
<1>1. /\ "jobs" \in {"tasks", "jobs", "messages"} /\ job \in DOMAIN d["jobs"] /\ Keeps("jobs", d["jobs"][job], row)
      /\ e["jobs"] = [d["jobs"] EXCEPT ![job] = row]
  OBVIOUS
<1>2. Sound(d, e)  BY <1>1, EditGood
<1>3. d.jobs[job].body.task \in DOMAIN d.tasks  BY DEF Base, Answered
<1>4. Complete(d) => Focus(d, d.jobs[job].body.task) # {}  BY <1>3 DEF Complete, Focus
<1>5. QED  BY <1>2, <1>4 DEF Good, Told

LEMMA StatusGood ==
  ASSUME NEW d, Base(d), NEW job \in DOMAIN d.jobs, d.jobs[job].status # "done", NEW status, status # "done"
  PROVE  Good(d, SetStatus(d, job, status)) /\ (Complete(d) => SetStatus(d, job, status).revision > d.revision)
<1> DEFINE e == SetStatus(d, job, status)  x == d.jobs[job]  y == WithStatus(x, status)
<1>0. Formed(d)  BY DEF Base
<1>1. Statuses(d, e, job, status)  BY <1>0, StatusFacts
<1> HIDE DEF e
<1>2. HasColumns("jobs", x)  BY DEF Base, Rowed, Mutable
<1>3. Keeps("jobs", x, y)  BY <1>2, StatusKeeps
<1> HIDE DEF y
<1>4. e.jobs = [d.jobs EXCEPT ![job] = y]  BY <1>1 DEF Statuses, y
<1>5. QED  BY <1>1, <1>3, <1>4, JobRowGood DEF Statuses, e

\* A status and one more column of a job.
JobWith(d, job, status, c, v) == [SetStatus(d, job, status) EXCEPT !.jobs[job][c] = v]
LEMMA StatusAndMore ==
  ASSUME NEW d, Base(d), NEW job \in DOMAIN d.jobs, d.jobs[job].status # "done", NEW status,
         NEW c \in {"attempts", "output"}, NEW v, status = "done" => c = "output" /\ v \in Outputs,
         NEW e, e = JobWith(d, job, status, c, v)
  PROVE  /\ Good(d, e) /\ (Complete(d) => e.revision > d.revision) /\ e.revision >= d.revision
         /\ job \in DOMAIN e.jobs /\ e.jobs[job].status = status /\ e.jobs[job][c] = v
         /\ e.jobs[job].body = d.jobs[job].body
<1> DEFINE m == SetStatus(d, job, status)  x == d.jobs[job]  y == WithStatus(x, status)  z == [y EXCEPT ![c] = v]
<1>0. Formed(d)  BY DEF Base
<1>1. Statuses(d, m, job, status)  BY <1>0, StatusFacts
<1>2. e = [m EXCEPT !.jobs[job][c] = v]  BY DEF JobWith
<1> HIDE DEF m
<1>3. IsRecord(m) /\ Same(d, m, {"jobs", "revision"}) /\ m.jobs = [d.jobs EXCEPT ![job] = y]  BY <1>1 DEF Statuses
<1>4. /\ IsRecord(e) /\ e.revision = m.revision /\ \A f \in Fields \ {"jobs", "revision"} : e[f] = m[f]
      /\ e.jobs = [m.jobs EXCEPT ![job][c] = v]
  BY <1>2, <1>3 DEF IsRecord, Fields
<1>5. e.jobs = [d.jobs EXCEPT ![job] = z]  BY <1>3, <1>4
<1>6. Same(d, e, {"jobs", "revision"})  BY <1>3, <1>4 DEF Same
<1>7. HasColumns("jobs", x)  BY DEF Base, Rowed, Mutable
<1>8. /\ (status = "done" => z.output \in Outputs) => Keeps("jobs", x, z)
      /\ z.status = status /\ z[c] = v /\ z.body = x.body
  <2> HIDE DEF x
  <2>1. x.status # "done"  BY DEF x
  <2>2. QED  BY <1>7, <2>1, JobColumns
<1> HIDE DEF z, y
<1>9. Keeps("jobs", x, z)  BY <1>8
<1>10. /\ e.revision \in Nat /\ e.revision >= d.revision
       /\ Focus(d, d.jobs[job].body.task) # {} => e.revision > d.revision
  BY <1>1, <1>4 DEF Statuses
<1>11. Good(d, e) /\ (Complete(d) => e.revision > d.revision)
  <2>1. IsRecord(e) /\ e.jobs = [d.jobs EXCEPT ![job] = z] /\ Keeps("jobs", d.jobs[job], z)  BY <1>4, <1>5, <1>9
  <2>2. QED  BY <1>6, <1>10, <2>1, JobRowGood
<1>12. job \in DOMAIN e.jobs /\ e.jobs[job] = z  BY <1>5
<1>13. QED  BY <1>8, <1>10, <1>11, <1>12
LEMMA LeaseGood == ASSUME Base(db), NEW job \in DOMAIN db.jobs, LeaseJob(job) PROVE Good(db, db')
<1> DEFINE v == SetStatus(db, job, "assigned").jobs[job].attempts + 1
<1>1. db.jobs[job].status # "done" /\ db' = JobWith(db, job, "assigned", "attempts", v)
  BY DEF LeaseJob, JobWith
<1> HIDE DEF v
<1>2. "attempts" \in {"attempts", "output"} /\ "assigned" # "done"  OBVIOUS
<1>3. QED  BY <1>1, <1>2, StatusAndMore

LEMMA RetryGood == ASSUME Base(db), NEW job \in DOMAIN db.jobs, RetryJob(job) PROVE Good(db, db')
<1>1. PICK status \in {"queued", "failed", "cancelled"} : db' = SetStatus(db, job, status)  BY DEF RetryJob
<1>2. db.jobs[job].status # "done" /\ status # "done"  BY DEF RetryJob
<1>3. QED  BY <1>1, <1>2, StatusGood

LEMMA DoneRow ==
  ASSUME NEW d, Base(d), NEW job \in DOMAIN d.jobs, NEW output
  PROVE  JobWith(d, job, "done", "output", output).jobs[job].status = "done"
<1> DEFINE m == SetStatus(d, job, "done")  y == WithStatus(d.jobs[job], "done")
           e == JobWith(d, job, "done", "output", output)
<1>1. Statuses(d, m, job, "done")  BY StatusFacts DEF Base
<1>2. e = [m EXCEPT !.jobs[job]["output"] = output]  BY DEF JobWith
<1> HIDE DEF m, e
<1>3. IsRecord(m) /\ m.jobs = [d.jobs EXCEPT ![job] = y]  BY <1>1 DEF Statuses
<1>4. e.jobs[job] = [y EXCEPT !["output"] = output]  BY <1>2, <1>3 DEF IsRecord, Fields
<1>5. HasColumns("jobs", d.jobs[job])  BY DEF Base, Rowed, Mutable
<1>6. y.status = "done"  BY <1>5 DEF HasColumns, Columns, WithStatus
<1>7. [y EXCEPT !["output"] = output].status = y.status  OBVIOUS
<1>8. QED  BY <1>4, <1>6, <1>7 DEF e

LEMMA CompleteGood ==
  ASSUME Base(db), NEW job \in DOMAIN db.jobs, NEW output \in Outputs, CompleteJob(job, output)
  PROVE  Good(db, db')
<1> DEFINE m == JobWith(db, job, "done", "output", output)
<1>0. m = JobWith(db, job, "done", "output", output) /\ m.jobs[job].status = "done"  BY DoneRow
<1>1. db.jobs[job].status # "done" /\ db' = Ingest(m, job)  BY DEF CompleteJob, JobWith
<1> HIDE DEF m
<1>a. "output" \in {"attempts", "output"} /\ ("done" = "done" => "output" = "output" /\ output \in Outputs)  OBVIOUS
<1>b. Good(db, m)  BY <1>0, <1>1, <1>a, StatusAndMore
<1>c. Complete(db) => m.revision > db.revision  BY <1>0, <1>1, <1>a, StatusAndMore
<1>d. job \in DOMAIN m.jobs  BY <1>0, <1>1, <1>a, StatusAndMore
<1>2. /\ Good(db, m) /\ (Complete(db) => m.revision > db.revision)
      /\ job \in DOMAIN m.jobs /\ m.jobs[job].status = "done"
  BY <1>0, <1>b, <1>c, <1>d
<1>3. Base(m) /\ m.revision \in Nat /\ db.revision \in Nat  BY <1>2 DEF Good, Sound, Base, Formed
<1>4. Ready(m, job)  BY <1>2, <1>3 DEF Ready
<1> DEFINE e == Ingest(m, job)
<1>5. Good(m, e) /\ e.revision >= m.revision  BY <1>4, IngestGood
<1> HIDE DEF e
<1>6. Sound(db, e)  BY <1>2, <1>5, SoundAgain DEF Good
<1>7. e.revision \in Nat  BY <1>6 DEF Sound, Base, Formed
<1>8. Complete(db) => Told(db, e)  BY <1>2, <1>3, <1>5, <1>7 DEF Told
<1>9. QED  BY <1>1, <1>6, <1>8 DEF Good, e

LEMMA IngestAgainGood == ASSUME Base(db), NEW job \in DOMAIN db.jobs, IngestAgain(job) PROVE Good(db, db')
<1>1. Ready(db, job) /\ db' = Ingest(db, job)  BY DEF IngestAgain, Ready
<1>2. QED  BY <1>1, IngestGood

LEMMA StopGood == ASSUME Base(db), Stop PROVE Good(db, db')
<1> DEFINE queued == {j \in DOMAIN db.jobs : db.jobs[j].status = "queued"}
           row(j) == IF j \in queued THEN [db.jobs[j] EXCEPT !.status = "cancelled"] ELSE db.jobs[j]
           rows   == [j \in DOMAIN db.jobs |-> row(j)]
           e      == [db EXCEPT !.stopped = TRUE, !.jobs = rows, !.revision = @ + Cardinality(queued)]
<1>0. Formed(db) /\ IsRecord(db) /\ db.revision \in Nat /\ "jobs" \in Tables  BY DEF Base, Formed, IsRecord, Tables
<1>1. db' = e  BY DEF Stop
<1>2. DOMAIN db.jobs = 1..Len(db.jobs) /\ Len(db.jobs) \in Nat /\ IsSeq(db.jobs)  BY <1>0, TableFacts
<1>3. IsFiniteSet(queued) /\ Cardinality(queued) \in Nat /\ (queued # {} => Cardinality(queued) # 0)
  <2>1. IsFiniteSet(1..Len(db.jobs))  BY <1>2, FS_Interval
  <2>2. queued \in SUBSET (1..Len(db.jobs))  BY <1>2
  <2> HIDE DEF queued
  <2>3. IsFiniteSet(queued)  BY <2>1, <2>2, FS_Subset
  <2>4. QED  BY <2>3, FS_CardinalityType, FS_EmptySet
<1> HIDE DEF row
<1>4. /\ IsRecord(e) /\ e.jobs = rows /\ e.revision = db.revision + Cardinality(queued)
      /\ \A f \in Fields \ {"stopped", "jobs", "revision"} : e[f] = db[f]
  <2> HIDE DEF rows, queued
  <2>1. QED  BY <1>0 DEF IsRecord, Fields
<1> HIDE DEF e
<1>5. \A j \in DOMAIN db.jobs : Keeps("jobs", db.jobs[j], row(j))
  <2> TAKE j \in DOMAIN db.jobs
  <2>1. Keeps("jobs", db.jobs[j], db.jobs[j])  BY KeepsSelf DEF Mutable
  <2>2. CASE j \notin queued  BY <2>1, <2>2 DEF row
  <2>3. CASE j \in queued
    <3>1. row(j) = WithStatus(db.jobs[j], "cancelled")  BY <2>3 DEF row, WithStatus
    <3>2. HasColumns("jobs", db.jobs[j]) /\ db.jobs[j].status # "done"  BY <2>3 DEF Base, Rowed, Mutable
    <3>3. Keeps("jobs", db.jobs[j], WithStatus(db.jobs[j], "cancelled"))  BY <3>2, StatusKeeps
    <3>4. QED  BY <3>1, <3>3
  <2>4. QED  BY <2>2, <2>3
<1>6. IsSeq(rows) /\ DOMAIN rows = DOMAIN db.jobs
  <2> DEFINE S == {rows[j] : j \in DOMAIN rows}
  <2>1. rows \in [1..Len(db.jobs) -> S]  BY <1>2
  <2> HIDE DEF S
  <2>2. rows \in Seq(S)  BY <1>2, <2>1
  <2>3. QED  BY <2>2 DEF IsSeq, S
<1>7. \A t \in Tables \ {"jobs"} : e[t] = db[t]
  <2>1. \A t \in Tables \ {"jobs"} : t \in Fields \ {"stopped", "jobs", "revision"}  BY DEF Tables, Fields
  <2>2. QED  BY <1>4, <2>1
<1>8. e.links = db.links /\ e.updates = db.updates /\ e.receipts = db.receipts /\ e.focus = db.focus /\ e.work = db.work
  BY <1>4 DEF Fields
<1>9. e.revision \in Nat /\ e.revision >= db.revision  BY <1>0, <1>3, <1>4
<1> HIDE DEF rows
<1>10. Formed(e)  BY <1>0, <1>4, <1>6, <1>7, <1>8, <1>9 DEF Formed, IsRecord
<1>11. Same(db, e, Mutable \cup {"work", "stopped", "updates", "receipts", "revision"})
  BY <1>4 DEF Same, Mutable
<1>12. \A t \in Mutable : DOMAIN e[t] = DOMAIN db[t] /\ \A i \in DOMAIN db[t] : Keeps(t, db[t][i], e[t][i])
  <2> TAKE t \in Mutable
  <2>1. CASE t # "jobs"
    <3>1. e[t] = db[t]  BY <1>7, <2>1 DEF Mutable, Tables
    <3>2. QED  BY <3>1, KeepsSelf
  <2>2. CASE t = "jobs"
    <3>1. \A j \in DOMAIN db.jobs : rows[j] = row(j)  BY DEF rows
    <3>2. QED  BY <1>4, <1>5, <1>6, <2>2, <3>1
  <2>3. QED  BY <2>1, <2>2
<1>13. InPlace(db, e)  BY <1>8, <1>9, <1>10, <1>11, <1>12 DEF InPlace
<1>14. Sound(db, e)  BY <1>13, InPlaceSound
<1>15. Told(db, e)
  <2>1. CASE queued = {}
    <3>1. \A j \in DOMAIN db.jobs : row(j) = db.jobs[j]  BY <2>1 DEF row
    <3>2. rows = db.jobs
      <4>1. rows = [j \in DOMAIN db.jobs |-> db.jobs[j]]  BY <3>1 DEF rows
      <4>2. db.jobs = [j \in DOMAIN db.jobs |-> db.jobs[j]]  BY <1>2 DEF IsSeq
      <4>3. QED  BY <4>1, <4>2
    <3>3. Plain(db, e)  BY <1>4, <1>7, <1>8, <3>2 DEF Plain, Tables
    <3>4. QED  BY <3>3, PlainTold
  <2>2. CASE queued # {}
    <3>1. e.revision > db.revision  BY <1>0, <1>3, <1>4, <2>2
    <3>2. QED  BY <3>1 DEF Told
  <2>3. QED  BY <2>1, <2>2
<1>16. QED  BY <1>1, <1>14, <1>15 DEF Good, e

-------------------------------------------------------------------------------
(* The invariant *)

GInv == Base(db) /\ Complete(db)

LEMMA NextGood == ASSUME Base(db), Next PROVE Good(db, db')
<1>1. CASE Serve  BY <1>1, ServeGood
<1>2. CASE Workers
  <2>1. PICK job \in DOMAIN db.jobs :
          LeaseJob(job) \/ RetryJob(job) \/ IngestAgain(job) \/ \E output \in Outputs : CompleteJob(job, output)
    BY <1>2 DEF Workers
  <2>2. CASE LeaseJob(job)  BY <2>2, LeaseGood
  <2>3. CASE RetryJob(job)  BY <2>3, RetryGood
  <2>4. CASE IngestAgain(job)  BY <2>4, IngestAgainGood
  <2>5. CASE \E output \in Outputs : CompleteJob(job, output)  BY <2>5, CompleteGood
  <2>6. QED  BY <2>1, <2>2, <2>3, <2>4, <2>5
<1>3. CASE Stop  BY <1>3, StopGood
<1>4. QED  BY <1>1, <1>2, <1>3 DEF Next

LEMMA InitGInv == Init => GInv
<1> SUFFICES ASSUME Init PROVE GInv  OBVIOUS
<1>1. db = Group  BY DEF Init
<1>2. /\ db.agents = <<>> /\ db.tasks = <<>> /\ db.jobs = <<>> /\ db.messages = <<>> /\ db.artifacts = <<>>
      /\ db.relationships = <<>> /\ db.reviews = <<>> /\ db.asks = <<>> /\ db.focus = {}
      /\ db.links["messages"] = {} /\ db.links["artifacts"] = {} /\ db.claims = <<Target>>
      /\ db.publications = <<[key |-> RootKey, body |-> [content |-> Target, source |-> Coordinator], claim |-> 1]>>
  BY <1>1 DEF Group
<1>3. /\ DOMAIN db.agents = {} /\ DOMAIN db.tasks = {} /\ DOMAIN db.jobs = {} /\ DOMAIN db.messages = {}
      /\ DOMAIN db.artifacts = {} /\ DOMAIN db.relationships = {} /\ DOMAIN db.reviews = {} /\ DOMAIN db.asks = {}
      /\ DOMAIN db.claims = {1} /\ DOMAIN db.publications = {1} /\ db.claims[1] = Target
      /\ db.publications[1].claim = 1 /\ db.publications[1].body.content = Target
      /\ db.publications[1].body.source = Coordinator
  BY <1>2
<1>4. Formed(db)  BY <1>1, GroupFormed
<1>5. \A t \in Tables \ {"claims", "publications"} : DOMAIN db[t] = {}  BY <1>3 DEF Tables
<1>6. Rowed(db)  BY <1>3 DEF Rowed, Mutable
<1>7. Limited(db)
  <2>1. /\ Len(db.agents) = 0 /\ Len(db.tasks) = 0 /\ Len(db.messages) = 0 /\ Len(db.artifacts) = 0
        /\ Len(db.relationships) = 0 /\ Len(db.reviews) = 0 /\ Len(db.claims) = 1 /\ Len(db.publications) = 1
    BY <1>2
  <2>2. /\ {MaxAgents, MaxTasks, MaxMessages, MaxArtifacts, MaxClaims, MaxPublications, MaxRelationships, MaxReviews}
             \subseteq Nat \ {0}
    BY GroupStateAssumption, ClaimGraphAssumption
  <2>3. \A t \in Counted : Capacity[t] \in Nat \ {0}  BY <2>2 DEF Counted, Capacity
  <2>4. \A t \in Counted : Len(db[t]) = 0 \/ Len(db[t]) = 1  BY <2>1 DEF Counted
  <2>5. ASSUME NEW t \in Counted PROVE Len(db[t]) <= Capacity[t]
    <3>1. Capacity[t] \in Nat /\ Capacity[t] # 0 /\ (Len(db[t]) = 0 \/ Len(db[t]) = 1)  BY <2>3, <2>4
    <3> DEFINE n == Capacity[t]  k == Len(db[t])
    <3>2. n \in Nat /\ n # 0 /\ (k = 0 \/ k = 1)  BY <3>1
    <3> HIDE DEF n, k
    <3>3. k <= n  BY <3>2
    <3>4. QED  BY <3>3 DEF n, k
  <2>6. QED  BY <2>5 DEF Limited
<1>8. KeyOnce(db)
  <2> SUFFICES ASSUME NEW t \in Tables \ {"claims"}, NEW i \in DOMAIN db[t], NEW j \in DOMAIN db[t] PROVE i = j
    BY DEF KeyOnce
  <2>1. QED  BY <1>3, <1>5
<1>9. Distinct(db) /\ Published(db) /\ Joined(db) /\ Seen(db) /\ Answered(db)
  BY <1>3 DEF Distinct, Published, Publishes, Joined, Seen, Answered
<1>10. Linked(db) /\ Proved(db) /\ Focused(db)  BY <1>2 DEF Linked, Proved, Focused, LinkKinds
<1>11. Credited(db)  BY <1>3 DEF Credited, SourceTables, Credits, Coordinator
<1>12. Complete(db)  BY <1>3 DEF Complete, LinkKinds
<1>13. QED  BY <1>4, <1>6, <1>7, <1>8, <1>9, <1>10, <1>11, <1>12 DEF GInv, Base

LEMMA NextGInv == GInv /\ [Next]_vars => GInv'
<1> SUFFICES ASSUME GInv, [Next]_vars PROVE GInv'  OBVIOUS
<1>1. CASE Next
  <2>1. Good(db, db')  BY <1>1, NextGood DEF GInv
  <2>2. QED  BY <2>1 DEF GInv, Good, Sound
<1>2. CASE UNCHANGED vars  BY <1>2 DEF GInv, vars, Base, Complete
<1>3. QED  BY <1>1, <1>2

LEMMA GInvariance == Spec => []GInv
<1>1. QED  BY InitGInv, NextGInv, PTL DEF Spec

-------------------------------------------------------------------------------
(* Evidence and sources *)

LEMMA OneOf ==
  ASSUME NEW S, NEW x \in S, \A y \in S : y = x
  PROVE  Cardinality(S) = 1
<1>1. S = {x}  OBVIOUS
<1>2. QED  BY <1>1, FS_Singleton

LEMMA ExactFocus == ASSUME GInv, NEW t \in DOMAIN db.tasks PROVE Cardinality(Focus(db, t)) = 1
<1>1. PICK f \in db.focus : f.task = t  BY DEF GInv, Complete
<1>2. f \in Focus(db, t) /\ \A g \in Focus(db, t) : g = f  BY <1>1 DEF GInv, Base, Focused, Focus
<1>3. QED  BY <1>2, OneOf

LEMMA ExactProof ==
  ASSUME GInv, NEW a \in DOMAIN db.artifacts
  PROVE  /\ Cardinality({link \in db.links["artifacts"] : link[1] = a}) = 1
         /\ <<a, CHOOSE c \in DOMAIN db.claims : db.claims[c] = db.artifacts[a].body.content>> \in db.links["artifacts"]
<1> DEFINE S == {link \in db.links["artifacts"] : link[1] = a}
           content == db.artifacts[a].body.content
           c == CHOOSE c \in DOMAIN db.claims : db.claims[c] = content
<1>0. "artifacts" \in LinkKinds  BY DEF LinkKinds
<1>1. PICK l \in db.links["artifacts"] : l[1] = a  BY <1>0 DEF GInv, Complete
<1>2. l \in S /\ \A m \in S : m = l  BY <1>1 DEF GInv, Base, Proved
<1>3. Cardinality(S) = 1  BY <1>2, OneOf
<1>4. l = <<l[1], l[2]>> /\ l[2] \in DOMAIN db.claims /\ db.claims[l[2]] = content
  BY <1>0, <1>1 DEF GInv, Base, Linked, Links, Proved
<1>5. c \in DOMAIN db.claims /\ db.claims[c] = content  BY <1>4
<1> HIDE DEF c, content
<1>6. c = l[2]  BY <1>4, <1>5 DEF GInv, Base, Distinct
<1>7. <<a, c>> \in db.links["artifacts"]  BY <1>1, <1>4, <1>6
<1>8. QED  BY <1>3, <1>7 DEF c, content

LEMMA InvExact == GInv => EvidenceExact
<1> SUFFICES ASSUME GInv PROVE EvidenceExact  OBVIOUS
<1>1. \A b, c \in DOMAIN db.claims : b # c => db.claims[b] # db.claims[c]  BY DEF GInv, Base, Distinct
<1>2. \A p \in DOMAIN db.publications : db.claims[db.publications[p].claim] = db.publications[p].body.content
  BY DEF GInv, Base, Published, Publishes
<1>3. \A a \in DOMAIN db.artifacts :
        /\ Cardinality({link \in db.links["artifacts"] : link[1] = a}) = 1
        /\ <<a, CHOOSE c \in DOMAIN db.claims : db.claims[c] = db.artifacts[a].body.content>> \in db.links["artifacts"]
  BY ExactProof
<1>4. \A r \in DOMAIN db.relationships :
        Environment[db.claims[db.relationships[r].body.from]] = Environment[db.claims[db.relationships[r].body.to]]
  BY DEF GInv, Base, Joined, Joins
<1>5. \A t \in DOMAIN db.tasks : Cardinality(Focus(db, t)) = 1  BY ExactFocus
<1>6. QED  BY <1>1, <1>2, <1>3, <1>4, <1>5 DEF EvidenceExact

LEMMA InvSources == GInv => SourcesCompleted
<1> SUFFICES ASSUME GInv PROVE SourcesCompleted  OBVIOUS
<1>1. ASSUME NEW s \in Sources, s.job # None
      PROVE  /\ db.jobs[s.job].status = "done"
             /\ db.jobs[s.job].body.task = s.task /\ db.jobs[s.job].body.agent = s.agent
  <2>1. PICK e \in Entries(SourceTables) : s = db[e[1]][e[2]].body.source  BY <1>1 DEF Sources, SourceTables
  <2>2. PICK t \in SourceTables : \E i \in DOMAIN db[t] : e = <<t, i>>  BY DEF Entries
  <2>3. PICK i \in DOMAIN db[t] : s = db[t][i].body.source  BY <2>1, <2>2
  <2>4. Credits(db, s)  BY <2>3 DEF GInv, Base, Credited
  <2>5. QED  BY <1>1, <2>4 DEF Credits
<1>2. ASSUME NEW v \in DOMAIN db.reviews, db.reviews[v].key[1] = "graph", db.jobs[db.reviews[v].key[2]].body.graph
      PROVE  db.reviews[v].body.relationship \in db.jobs[db.reviews[v].key[2]].shown
  <2>1. Sees(db, db.reviews[v])  BY DEF GInv, Base, Seen
  <2>2. QED  BY <1>2, <2>1 DEF Sees
<1>3. QED  BY <1>1, <1>2 DEF SourcesCompleted

\* EvidenceExact for every number of claims, tasks, jobs and requests: the writes of claim_graph.py
\* keep one claim per contents, one focus per task, and each artifact at the claim it proves.
THEOREM EvidenceStaysExact == Spec => []EvidenceExact
<1>1. QED  BY GInvariance, InvExact, PTL

\* SourcesCompleted: what _source and completed_source checked once stays so, whoever repeats or
\* retries what (claim_graph.py, graph_response.py).
THEOREM SourcesAreCompleted == Spec => []SourcesCompleted
<1>1. QED  BY GInvariance, InvSources, PTL

-------------------------------------------------------------------------------
(* History *)

LEMMA PrefixOf ==
  ASSUME NEW s, NEW t, IsSeq(s), IsSeq(t), \A i \in DOMAIN s : i \in DOMAIN t /\ t[i] = s[i]
  PROVE  IsPrefix(s, t)
<1> DEFINE m == Len(s)  n == Len(t)
<1>1. m \in Nat /\ n \in Nat /\ DOMAIN s = 1..m /\ DOMAIN t = 1..n  BY SeqFacts
<1> HIDE DEF m, n
<1>2. m <= n
  <2>1. CASE m = 0  BY <1>1, <2>1
  <2>2. CASE m # 0
    <3>1. m \in 1..m  BY <1>1, <2>2
    <3>2. m \in DOMAIN s  BY <1>1, <3>1
    <3>3. m \in DOMAIN t  BY <3>2
    <3>4. m \in 1..n  BY <1>1, <3>3
    <3>5. QED  BY <1>1, <3>4
  <2>3. QED  BY <2>1, <2>2
<1>3. SubSeq(s, 1, m) = [i \in 1..m |-> s[i]] /\ SubSeq(t, 1, m) = [i \in 1..m |-> t[i]]
  <2>1. s \in Seq({s[i] : i \in DOMAIN s}) /\ t \in Seq({t[i] : i \in DOMAIN t})  BY DEF IsSeq
  <2>2. QED  BY <1>1, <1>2, <2>1 DEF m, n
<1>4. SubSeq(s, 1, m) = SubSeq(t, 1, m)  BY <1>1, <1>3
<1>5. QED  BY <1>2, <1>4 DEF IsPrefix, m, n

LEMMA KeptHistory ==
  ASSUME GInv, GInv', Kept(db, db')
  PROVE  HistoryKept
<1>1. ASSUME NEW t \in Records PROVE IsPrefix(db[t], db'[t])
  <2>1. t \in Tables  BY DEF Records, Tables
  <2>2. IsSeq(db[t]) /\ IsSeq(db'[t])  BY <2>1 DEF GInv, Base, Formed
  <2>3. \A i \in DOMAIN db[t] : i \in DOMAIN db'[t] /\ db'[t][i] = db[t][i]  BY DEF Kept, KeptRecords
  <2>4. QED  BY <2>2, <2>3, PrefixOf
<1>2. db.receipts \subseteq db'.receipts /\ db.focus \subseteq db'.focus /\ db.updates \subseteq db'.updates
  BY DEF Kept, KeptSets
<1>3. \A k \in {"messages", "artifacts"} : db.links[k] \subseteq db'.links[k]
  BY DEF Kept, KeptSets, LinkKinds
<1>4. \A m \in DOMAIN db.messages :
        /\ db'.messages[m].body = db.messages[m].body
        /\ db.messages[m].review.status # "pending" => db'.messages[m].review = db.messages[m].review
  BY DEF Kept, KeptRows, Mutable, KeptStates
<1>5. \A t \in DOMAIN db.tasks : db.tasks[t].status # "open" => db'.tasks[t].status = db.tasks[t].status
  BY DEF Kept, KeptStates
<1>6. QED  BY <1>1, <1>2, <1>3, <1>4, <1>5 DEF HistoryKept, Records

LEMMA StepTells ==
  GInv /\ GInv' /\ [Next]_vars => [HistoryKept /\ (Visible(db') # Visible(db) => db'.revision > db.revision)]_vars
<1> SUFFICES ASSUME GInv, GInv', Next
             PROVE  HistoryKept /\ (Visible(db') # Visible(db) => db'.revision > db.revision)
  OBVIOUS
<1>1. Good(db, db')  BY NextGood DEF GInv
<1>2. Kept(db, db') /\ Told(db, db')  BY <1>1 DEF Good, Sound, GInv
<1>3. HistoryKept  BY <1>2, KeptHistory
<1>4. QED  BY <1>2, <1>3 DEF Told

\* RevisionTells: after any request, answer or retry the history is there, and what packets show
\* changes only under a new revision (the triggers of claim_graph_schema.py).
THEOREM RevisionsTell == Spec => RevisionTells
<1>1. QED  BY GInvariance, NextGInv, StepTells, PTL DEF Spec, RevisionTells

-------------------------------------------------------------------------------
(* Work: what a step leaves of it *)

Budgets(d)   == [t \in DOMAIN d.tasks |-> d.tasks[t].body.budget]
Costs(d)     == [j \in DOMAIN d.jobs |-> d.jobs[j].body.cost]
JobsOf(d, t) == {j \in DOMAIN d.jobs : d.jobs[j].body.task = t}
Funded(d, t) ==
  /\ d.tasks[t].remaining \in Nat /\ d.tasks[t].body.budget \in Nat
  /\ d.tasks[t].remaining + SumOver(Costs(d), JobsOf(d, t)) = d.tasks[t].body.budget
Funds(d) ==
  /\ d.work \in Nat /\ d.work + SumOver(Budgets(d), DOMAIN d.tasks) = MaxWork
  /\ \A j \in DOMAIN d.jobs : d.jobs[j].body.cost \in Nat
  /\ \A t \in DOMAIN d.tasks : Funded(d, t)

TaskStatus == {"open", "done", "blocked", "cancelled"}
JobStatus  == {"queued", "assigned", "done", "failed", "cancelled"}
TypedReceipt(d, receipt) == receipt.job \in DOMAIN d.jobs /\ receipt.status \in {"accepted", "rejected"}
TypedRows(d) ==
  /\ d.stopped \in BOOLEAN
  /\ \A t \in DOMAIN d.tasks : d.tasks[t].status \in TaskStatus /\ d.tasks[t].depth \in 0..MaxDepth
  /\ \A j \in DOMAIN d.jobs : d.jobs[j].status \in JobStatus
  /\ \A receipt \in d.receipts : TypedReceipt(d, receipt)
Ledger(d) == Funds(d) /\ TypedRows(d)

\* A step that moves no work.
Steady(d, e) ==
  /\ e.work = d.work /\ (e.stopped = d.stopped \/ e.stopped = TRUE)
  /\ DOMAIN e.tasks = DOMAIN d.tasks /\ DOMAIN e.jobs = DOMAIN d.jobs
  /\ \A t \in DOMAIN d.tasks :
       /\ e.tasks[t].body = d.tasks[t].body /\ e.tasks[t].remaining = d.tasks[t].remaining
       /\ e.tasks[t].depth = d.tasks[t].depth
       /\ e.tasks[t].status = d.tasks[t].status \/ e.tasks[t].status \in TaskStatus
  /\ \A j \in DOMAIN d.jobs :
       /\ e.jobs[j].body = d.jobs[j].body
       /\ e.jobs[j].status = d.jobs[j].status \/ e.jobs[j].status \in JobStatus
  /\ \A receipt \in e.receipts : receipt \in d.receipts \/ TypedReceipt(d, receipt)

LEMMA SteadyLedger == ASSUME NEW d, Ledger(d), NEW e, Steady(d, e) PROVE Ledger(e)
<1>1. Budgets(e) = Budgets(d) /\ Costs(e) = Costs(d)  BY DEF Steady, Budgets, Costs
<1>2. \A t : JobsOf(e, t) = JobsOf(d, t)  BY DEF Steady, JobsOf
<1>3. Funds(e)
  <2>1. \A t \in DOMAIN d.tasks : Funded(d, t) => Funded(e, t)  BY <1>1, <1>2 DEF Steady, Funded
  <2>2. QED  BY <1>1, <2>1 DEF Ledger, Funds, Steady
<1>4. TypedRows(e)  BY DEF Ledger, TypedRows, Steady, TypedReceipt
<1>5. QED  BY <1>3, <1>4 DEF Ledger

LEMMA UnmovedSteady ==
  ASSUME NEW d, NEW e, e.work = d.work, e.stopped = d.stopped, e.tasks = d.tasks, e.jobs = d.jobs,
         e.receipts = d.receipts
  PROVE  Steady(d, e)
BY DEF Steady

LEMMA WritesSteady == ASSUME NEW d, NEW e, Writes(d, e) PROVE Steady(d, e)
BY UnmovedSteady DEF Writes, Untouched

LEMMA AgentSteady == ASSUME NEW d, Base(d), NEW r, AddedAgent(d, r).ok PROVE Steady(d, AddedAgent(d, r).db)
<1> DEFINE row == [key |-> r.key, body |-> [role |-> r.role], state |-> "", revision |-> 0]
           m == Add(d, "agents", row)
<1>1. AddedAgent(d, r).db = d \/ AddedAgent(d, r).db = m  BY InsertFacts DEF AddedAgent
<1> HIDE DEF row
<1>2. Same(d, m, {"agents"})  BY AddFacts DEF Base, Tables
<1> HIDE DEF m
<1>3. Steady(d, m)  BY <1>2, UnmovedSteady DEF Same, Fields
<1>4. QED  BY <1>1, <1>3, UnmovedSteady

LEMMA UpdateSteady == ASSUME NEW d, Base(d), NEW r, UpdatedState(d, r).ok PROVE Steady(d, UpdatedState(d, r).db)
<1> DEFINE revision == r.expected + 1
           update == [agent |-> r.agent, key |-> r.key, state |-> r.state, revision |-> revision]
           e == [d EXCEPT !.agents[r.agent].state = r.state, !.agents[r.agent].revision = revision,
                          !.updates = @ \cup {update}]
<1>1. UpdatedState(d, r).db = d \/ UpdatedState(d, r).db = e  BY DEF UpdatedState, Conflict, Done
<1>2. DOMAIN d = Fields  BY DEF Base, Formed
<1> HIDE DEF update, revision
<1>3. \A f \in Fields \ {"agents", "updates"} : e[f] = d[f]  BY <1>2
<1> HIDE DEF e
<1>4. Steady(d, e)  BY <1>3, UnmovedSteady DEF Fields
<1>5. QED  BY <1>1, <1>4, UnmovedSteady

LEMMA ReviewedSteady == ASSUME NEW d, Base(d), NEW r, ReviewedMessage(d, r).ok PROVE Steady(d, ReviewedMessage(d, r).db)
<1> DEFINE review == [status |-> r.status, by |-> r.reviewer, key |-> r.key]
           q == [d EXCEPT !.messages[r.message].review = review]
<1>1. ReviewedMessage(d, r).db \in {d, q, Raise(q)}  BY DEF ReviewedMessage, Conflict, Done
<1>2. DOMAIN d = Fields  BY DEF Base, Formed
<1> HIDE DEF review
<1>3. DOMAIN q = Fields /\ \A f \in Fields \ {"messages"} : q[f] = d[f]  BY <1>2
<1> HIDE DEF q
<1>4. \A f \in Fields \ {"messages", "revision"} : Raise(q)[f] = d[f]  BY <1>3 DEF Raise
<1>5. Steady(d, q) /\ Steady(d, Raise(q))  BY <1>3, <1>4, UnmovedSteady DEF Fields
<1>6. QED  BY <1>1, <1>5, UnmovedSteady

LEMMA CloseSteady ==
  ASSUME NEW d, Base(d), NEW task, NEW status \in TaskStatus, ClosedTask(d, task, status).ok
  PROVE  Steady(d, ClosedTask(d, task, status).db)
<1> DEFINE x == d.tasks[task]
           y == [x EXCEPT !["status"] = status]
           e == Raise([d EXCEPT !.tasks[task].status = status])
<1>1. task \in DOMAIN d.tasks /\ (ClosedTask(d, task, status).db = d \/ ClosedTask(d, task, status).db = e)
  BY DEF ClosedTask, Conflict, Done
<1>2. Same(d, e, {"tasks", "revision"}) /\ e.tasks = [d.tasks EXCEPT ![task] = y]
  BY DEF Base, Formed, Fields, Same, Raise
<1> HIDE DEF e
<1>3. HasColumns("tasks", x)  BY <1>1 DEF Base, Rowed, Mutable
<1>4. y.body = x.body /\ y.remaining = x.remaining /\ y.depth = x.depth /\ y.status = status
  <2>1. /\ "status" \in Columns["tasks"]
        /\ \A f \in {"body", "remaining", "depth"} : f \in Columns["tasks"] \ {"status"}
    BY DEF Columns
  <2> HIDE DEF x
  <2>2. HasColumns("tasks", y) /\ y["status"] = status /\ \A b \in Columns["tasks"] \ {"status"} : y[b] = x[b]
    BY <1>3, <2>1, ColumnsEdit
  <2> HIDE DEF y
  <2>3. QED  BY <2>1, <2>2
<1> HIDE DEF y
<1>5. \A t \in DOMAIN d.tasks : e.tasks[t] = IF t = task THEN y ELSE d.tasks[t]  BY <1>2
<1>6. DOMAIN e.tasks = DOMAIN d.tasks  BY <1>2
<1>7. e.work = d.work /\ e.stopped = d.stopped /\ e.jobs = d.jobs /\ e.receipts = d.receipts
  BY <1>2 DEF Same, Fields
<1>8. Steady(d, e)  BY <1>4, <1>5, <1>6, <1>7 DEF Steady, x
<1>9. QED  BY <1>1, <1>8, UnmovedSteady

LEMMA MessageSteady == ASSUME NEW d, Base(d), NEW r, AddedMessage(d, r).ok PROVE Steady(d, AddedMessage(d, r).db)
<1> DEFINE put == Insert(d, "messages", MessageRow(r.key, r.source, r.text), MaxMessages)
           new == Keyed(d, "messages", r.key) = {}
           res == AddedMessage(d, r)
<1>1. put.ok /\ res = IF new THEN LinkedToFocus(put.db, put.id) ELSE Done(put.db, put.id)
  BY AddedMessageIs
<1>2. put.db = d \/ put.db = Add(d, "messages", MessageRow(r.key, r.source, r.text))  BY <1>1, InsertFacts
<1>3. res.ok  OBVIOUS
<1> HIDE DEF put, res
<1>4. Formed(put.db) /\ Same(d, put.db, {"messages"})
  <2>1. Formed(d)  BY DEF Base
  <2>2. Same(d, d, {"messages"})  BY DEF Same
  <2>3. QED  BY <1>2, <2>1, <2>2, AddFacts DEF Tables
<1>5. res.db = put.db \/ Same(put.db, res.db, {"revision", "links"})
  <2>1. \/ res = Done(put.db, put.id)
        \/ \E c : res = AttachEvidence(put.db, "messages", put.id, c)
    BY <1>1 DEF LinkedToFocus
  <2>2. ASSUME NEW c, res = AttachEvidence(put.db, "messages", put.id, c)
        PROVE  res.db = put.db \/ Same(put.db, res.db, {"revision", "links"})
    BY <1>3, <1>4, <2>2, AttachFacts DEF LinkKinds
  <2>3. QED  BY <2>1, <2>2 DEF Done
<1>6. \A f \in {"work", "stopped", "tasks", "jobs", "receipts"} : res.db[f] = d[f]
  BY <1>4, <1>5 DEF Same, Fields
<1>7. QED  BY <1>6, UnmovedSteady DEF res

\* The row of a job changes, in its status at most.
LEMMA JobSteady ==
  ASSUME NEW d, NEW job \in DOMAIN d.jobs, NEW row, row.body = d.jobs[job].body, row.status \in JobStatus, NEW e,
         Same(d, e, {"jobs", "revision"}), e.jobs = [d.jobs EXCEPT ![job] = row]
  PROVE  Steady(d, e)
<1>1. \A j \in DOMAIN d.jobs : e.jobs[j] = IF j = job THEN row ELSE d.jobs[j]  OBVIOUS
<1>2. DOMAIN e.jobs = DOMAIN d.jobs  OBVIOUS
<1>3. e.work = d.work /\ e.stopped = d.stopped /\ e.tasks = d.tasks /\ e.receipts = d.receipts
  BY DEF Same, Fields
<1>4. QED  BY <1>1, <1>2, <1>3 DEF Steady

LEMMA StatusBody ==
  ASSUME NEW x, HasColumns("jobs", x), NEW status
  PROVE  WithStatus(x, status).body = x.body /\ WithStatus(x, status).status = status
<1> DEFINE y == [x EXCEPT !["status"] = status]
<1>1. "status" \in Columns["jobs"] /\ "body" \in Columns["jobs"] \ {"status"}  BY DEF Columns
<1>2. HasColumns("jobs", y) /\ y["status"] = status /\ \A b \in Columns["jobs"] \ {"status"} : y[b] = x[b]
  BY <1>1, ColumnsEdit
<1>3. QED  BY <1>1, <1>2 DEF WithStatus

LEMMA StatusSteady ==
  ASSUME NEW d, Base(d), NEW job \in DOMAIN d.jobs, NEW status \in JobStatus
  PROVE  Steady(d, SetStatus(d, job, status))
<1> DEFINE e == SetStatus(d, job, status)  y == WithStatus(d.jobs[job], status)
<1>1. Statuses(d, e, job, status)  BY StatusFacts DEF Base
<1>2. y.body = d.jobs[job].body /\ y.status = status  BY StatusBody DEF Base, Rowed, Mutable
<1> HIDE DEF e
<1>3. Same(d, e, {"jobs", "revision"}) /\ e.jobs = [d.jobs EXCEPT ![job] = y]  BY <1>1 DEF Statuses
<1> HIDE DEF y
<1>4. Steady(d, e)  BY <1>2, <1>3, JobSteady
<1>5. QED  BY <1>4 DEF e

LEMMA MoreSteady ==
  ASSUME NEW d, Base(d), NEW job \in DOMAIN d.jobs, NEW status \in JobStatus, NEW c \in {"attempts", "output"}, NEW v
  PROVE  Steady(d, JobWith(d, job, status, c, v))
<1> DEFINE m == SetStatus(d, job, status)  e == JobWith(d, job, status, c, v)
           y == WithStatus(d.jobs[job], status)  z == [y EXCEPT ![c] = v]
<1>1. Statuses(d, m, job, status)  BY StatusFacts DEF Base
<1>2. y.body = d.jobs[job].body /\ y.status = status  BY StatusBody DEF Base, Rowed, Mutable
<1>3. e = [m EXCEPT !.jobs[job][c] = v]  BY DEF JobWith
<1> HIDE DEF e, m
<1>4. IsRecord(m) /\ Same(d, m, {"jobs", "revision"}) /\ m.jobs = [d.jobs EXCEPT ![job] = y]  BY <1>1 DEF Statuses
<1> HIDE DEF y
<1>5. (\A f \in Fields \ {"jobs", "revision"} : e[f] = m[f]) /\ e.jobs = [m.jobs EXCEPT ![job][c] = v]
  BY <1>3, <1>4 DEF IsRecord, Fields
<1>6. e.jobs = [d.jobs EXCEPT ![job] = z]  BY <1>4, <1>5
<1>7. Same(d, e, {"jobs", "revision"})  BY <1>4, <1>5 DEF Same
<1>8. z.body = y.body /\ z.status = y.status  OBVIOUS
<1> HIDE DEF z
<1>9. Steady(d, e)  BY <1>2, <1>6, <1>7, <1>8, JobSteady
<1>10. QED  BY <1>9 DEF e

LEMMA ReceiveSteady ==
  ASSUME NEW d, Base(d), NEW job \in DOMAIN d.jobs, NEW status \in {"accepted", "rejected"}
  PROVE  Steady(d, Receive(d, job, status))
<1> DEFINE e == Receive(d, job, status)
<1>1. Same(d, e, {"receipts"}) /\ e.receipts = d.receipts \cup {[job |-> job, status |-> status]}  BY ReceiveGood
<1> HIDE DEF e
<1>2. /\ e.work = d.work /\ e.stopped = d.stopped /\ e.tasks = d.tasks /\ e.jobs = d.jobs  BY <1>1 DEF Same, Fields
<1>3. TypedReceipt(d, [job |-> job, status |-> status])  BY DEF TypedReceipt
<1>4. Steady(d, e)  BY <1>1, <1>2, <1>3 DEF Steady
<1>5. QED  BY <1>4 DEF e

LEMMA IngestLedger ==
  ASSUME NEW d, NEW job, Ready(d, job), Ledger(d)
  PROVE  Ledger(Ingest(d, job))
<1> DEFINE f == Applied(d, job).db
<1>1. \/ Ingest(d, job) = d
      \/ Applied(d, job).ok /\ Ingest(d, job) = Receive(f, job, "accepted")
      \/ Ingest(d, job) = Receive(d, job, "rejected")
  BY DEF Ingest
<1>2. CASE Applied(d, job).ok /\ Ingest(d, job) = Receive(f, job, "accepted")
  <2>1. Writes(d, f)  BY <1>2, AppliedWrites
  <2> HIDE DEF f
  <2>2. Ledger(f) /\ Base(f) /\ job \in DOMAIN f.jobs
    BY <2>1, WritesSteady, SteadyLedger DEF Writes, Untouched, Ready
  <2>3. Steady(f, Receive(f, job, "accepted"))  BY <2>2, ReceiveSteady
  <2>4. QED  BY <1>2, <2>2, <2>3, SteadyLedger
<1>3. CASE Ingest(d, job) = Receive(d, job, "rejected")
  <2>1. Steady(d, Receive(d, job, "rejected"))  BY ReceiveSteady DEF Ready
  <2>2. QED  BY <1>3, <2>1, SteadyLedger
<1>4. QED  BY <1>1, <1>2, <1>3

\* A task takes its budget from the group.
LEMMA TaskLedger ==
  ASSUME NEW d, Base(d), Ledger(d), NEW r, r.budget \in Nat, AddedTask(d, r).ok
  PROVE  Ledger(AddedTask(d, r).db)
<1> DEFINE row == TaskRow(d, r)
           put == Insert(d, "tasks", row, MaxTasks)
           new == Keyed(d, "tasks", r.key) = {}
           p   == put.db
           m   == IF new THEN Take(p, r.budget) ELSE p
           e   == AddedTask(d, r).db
<1>1. /\ put.ok /\ AttachTask(m, put.id, TaskClaim(r), r.action).ok
      /\ AddedTask(d, r) = AttachTask(m, put.id, TaskClaim(r), r.action)
      /\ r.parent \in DOMAIN d.tasks \cup {None}
      /\ new => ~ (row.depth > MaxDepth) /\ ~ (r.budget > d.work)
  <2>1. /\ put.ok /\ AttachTask(m, put.id, TaskClaim(r), r.action).ok
        /\ AddedTask(d, r) = AttachTask(m, put.id, TaskClaim(r), r.action)
        /\ r.parent \in DOMAIN d.tasks \cup {None}
        /\ new => /\ row.depth <= MaxDepth \/ ~ (row.depth > MaxDepth)
                  /\ ~ (r.budget > d.work)
    BY AddedTaskIs
  <2>2. row.depth \in Nat /\ MaxDepth \in Nat
    BY <2>1, GroupStateAssumption DEF TaskRow, Ledger, TypedRows
  <2>3. QED  BY <2>1, <2>2
<1>2. /\ row.key = r.key /\ row.remaining = r.budget /\ row.body.budget = r.budget /\ row.status = "open"
      /\ row.depth \in Nat /\ MaxDepth \in Nat
  BY <1>1, GroupStateAssumption DEF TaskRow, Ledger, TypedRows
<1>3. HasColumns("tasks", row)  BY DEF TaskRow, HasColumns, Columns
<1> HIDE DEF row
<1>4. \/ p = d /\ ~ new
      \/ new /\ ~ (Len(d.tasks) >= MaxTasks) /\ p = Add(d, "tasks", row)
  <2>1. \/ p = d /\ put.id \in Keyed(d, "tasks", row.key) /\ d.tasks[put.id].body = row.body
        \/ /\ Keyed(d, "tasks", row.key) = {} /\ ~ (Len(d.tasks) >= MaxTasks)
           /\ p = Add(d, "tasks", row) /\ put.id = Len(d.tasks) + 1
    BY <1>1, InsertFacts
  <2>2. QED  BY <1>2, <2>1
<1> HIDE DEF put
<1>5. ASSUME Base(m) PROVE Steady(m, e)
  <2> HIDE DEF m
  <2>1. SameTables(m, e) /\ (e = m \/ Same(m, e, {"focus", "revision"}))  BY <1>1, <1>5, FocusBase
  <2>2. e.work = m.work /\ e.stopped = m.stopped /\ e.receipts = m.receipts  BY <2>1 DEF Same, Fields
  <2>3. e.tasks = m.tasks /\ e.jobs = m.jobs  BY <2>1, SameNames
  <2> HIDE DEF e
  <2>4. QED  BY <2>2, <2>3, UnmovedSteady
<1>6. CASE p = d /\ ~ new
  <2>1. m = d  BY <1>6
  <2>2. QED  BY <1>5, <2>1, SteadyLedger
<1>7. CASE new /\ ~ (Len(d.tasks) >= MaxTasks) /\ p = Add(d, "tasks", row)
  <2>1. MaxTasks \in Nat /\ Capacity["tasks"] = MaxTasks  BY GroupStateAssumption DEF Capacity
  <2>2. Fits(d, "tasks", row)  BY <1>2, <1>3, <1>7 DEF Fits, SourceTables
  <2>3. Base(p) /\ Adds(d, p, "tasks", row)  BY <1>7, <2>1, <2>2, AddBase DEF Tables
  <2> HIDE DEF p
  <2>4. m = Take(p, r.budget)  BY <1>7
  <2>5. Base(m) /\ SameTables(p, m) /\ Same(p, m, {"work", "revision"})  BY <2>3, <2>4, TakeBase
  <2>6. m.work = p.work - r.budget
    <3>1. DOMAIN p = Fields  BY <2>3 DEF Base, Formed
    <3>2. QED  BY <2>4, <3>1 DEF Take, Fields
  <2>7. p.work = d.work /\ p.stopped = d.stopped /\ p.receipts = d.receipts /\ p.jobs = d.jobs
    BY <2>3, AddsTables DEF Tables, Base
  <2> HIDE DEF m
  <2>8. /\ m.work = d.work - r.budget /\ m.stopped = d.stopped /\ m.receipts = d.receipts /\ m.jobs = d.jobs
        /\ m.tasks = p.tasks
    <3>1. m.tasks = p.tasks /\ m.jobs = p.jobs  BY <2>5, SameNames
    <3>2. m.stopped = p.stopped /\ m.receipts = p.receipts  BY <2>5 DEF Same, Fields
    <3>3. QED  BY <2>6, <2>7, <3>1, <3>2
  <2> DEFINE n == Len(d.tasks) + 1
  <2>9. /\ DOMAIN m.tasks = DOMAIN d.tasks \cup {n} /\ n \notin DOMAIN d.tasks
        /\ m.tasks[n] = row /\ \A t \in DOMAIN d.tasks : m.tasks[t] = d.tasks[t]
        /\ DOMAIN d.tasks = 1..Len(d.tasks) /\ Len(d.tasks) \in Nat
    BY <2>3, <2>8 DEF Adds, Grew
  <2> HIDE DEF n
  <2>10. IsFiniteSet(DOMAIN d.tasks)
    <3>1. Len(d.tasks) \in Nat  BY <2>9
    <3>2. IsFiniteSet(1..Len(d.tasks))  BY <3>1, FS_Interval
    <3>3. QED  BY <2>9, <3>2
  <2>11. SumOver(Budgets(m), DOMAIN m.tasks) = r.budget + SumOver(Budgets(d), DOMAIN d.tasks)
    <3> DEFINE f == Budgets(m)  g == Budgets(d)  S == DOMAIN d.tasks
    <3>1. \A t \in S : g[t] \in Nat /\ g[t] = f[t]
      BY <2>9 DEF Budgets, Ledger, Funds, Funded
    <3>2. f[n] = r.budget  BY <1>2, <2>9 DEF Budgets
    <3> HIDE DEF f, g, S
    <3>3. IsFiniteSet(S) /\ n \notin S /\ DOMAIN m.tasks = S \cup {n}  BY <2>9, <2>10 DEF S
    <3>4. SumOver(g, S) = SumOver(f, S)  BY <3>1, <3>3, SumAgree
    <3>5. \A t \in S : f[t] \in Nat  BY <3>1
    <3>6. SumOver(f, S \cup {n}) = f[n] + SumOver(f, S)  BY <3>2, <3>3, <3>5, SumAdd
    <3>7. QED  BY <3>2, <3>3, <3>4, <3>6 DEF f, g, S
  <2>12. m.work \in Nat /\ m.work + SumOver(Budgets(m), DOMAIN m.tasks) = MaxWork
    <3> DEFINE s == SumOver(Budgets(d), DOMAIN d.tasks)
    <3>1. d.work \in Nat /\ d.work + s = MaxWork  BY DEF Ledger, Funds
    <3>2. s \in Nat
      <4>1. \A t \in DOMAIN d.tasks : Budgets(d)[t] \in Nat  BY DEF Budgets, Ledger, Funds, Funded
      <4>2. QED  BY <2>10, <4>1, SumNat
    <3>3. ~ (r.budget > d.work)  BY <1>1, <1>7
    <3> HIDE DEF s
    <3>4. QED  BY <2>8, <2>11, <3>1, <3>2, <3>3 DEF s
  <2>13. Costs(m) = Costs(d) /\ \A t : JobsOf(m, t) = JobsOf(d, t)  BY <2>8 DEF Costs, JobsOf
  <2>14. Funded(m, n)
    <3>1. JobsOf(m, n) = {}  BY <2>8, <2>9 DEF JobsOf, Base, Answered
    <3>2. SumOver(Costs(m), JobsOf(m, n)) = 0  BY <3>1, SumEmpty
    <3>3. QED  BY <1>2, <2>9, <3>2 DEF Funded
  <2>15. \A t \in DOMAIN d.tasks : Funded(d, t) => Funded(m, t)  BY <2>9, <2>13 DEF Funded
  <2>16. Funds(m)  BY <2>8, <2>9, <2>12, <2>14, <2>15 DEF Ledger, Funds
  <2>17. TypedRows(m)
    <3>1. row.status \in TaskStatus /\ row.depth \in 0..MaxDepth  BY <1>1, <1>2, <1>7 DEF TaskStatus
    <3>2. QED  BY <2>8, <2>9, <3>1 DEF Ledger, TypedRows, TypedReceipt
  <2>18. Ledger(m)  BY <2>16, <2>17 DEF Ledger
  <2>19. Steady(m, e)  BY <1>5, <2>5
  <2> HIDE DEF e
  <2>20. Ledger(e)  BY <2>18, <2>19, SteadyLedger
  <2>21. QED  BY <2>20 DEF e
<1>8. QED  BY <1>4, <1>6, <1>7

\* A job takes its cost from its task.
LEMMA JobLedger ==
  ASSUME NEW d, Base(d), Ledger(d), NEW r, NEW shown, r.cost \in Nat, EnqueuedJob(d, r, shown).ok
  PROVE  Ledger(EnqueuedJob(d, r, shown).db)
<1> DEFINE row == JobRow(r, shown)
           put == Insert(d, "jobs", row, MaxWork + 1)
           new == Keyed(d, "jobs", r.key) = {}
           m   == Add(d, "jobs", row)
           e   == Reserve(m, r.task, r.cost)
           res == EnqueuedJob(d, r, shown).db
           n   == Len(d.jobs) + 1
<1>1. /\ put.ok /\ res = (IF new THEN Reserve(put.db, r.task, r.cost) ELSE put.db)
      /\ r.task \in DOMAIN d.tasks /\ (new => ~ (r.cost > d.tasks[r.task].remaining))
  BY EnqueuedJobIs
<1>2. row.key = r.key /\ row.status = "queued" /\ row.body.task = r.task /\ row.body.cost = r.cost
  BY DEF JobRow
<1> HIDE DEF row, res
<1>3. (put.db = d /\ ~ new) \/ (new /\ put.db = m)
  <2>1. \/ put.db = d /\ put.id \in Keyed(d, "jobs", row.key)
        \/ Keyed(d, "jobs", row.key) = {} /\ put.db = m
    BY <1>1, InsertFacts
  <2>2. QED  BY <1>2, <2>1
<1> HIDE DEF put
<1>4. ASSUME new PROVE Ledger(e)
  <2>1. Formed(m) /\ Grew(d, m, "jobs", row) /\ Same(d, m, {"jobs"})  BY AddFacts DEF Base, Tables
  <2> HIDE DEF m
  <2>2. Charges(m, e, r.task, r.cost)  BY <2>1, ReserveFacts
  <2> DEFINE y == Charged(d.tasks[r.task], r.cost)
  <2>3. m.tasks = d.tasks  BY <2>1 DEF Same, Fields
  <2>4. /\ e.tasks = [d.tasks EXCEPT ![r.task] = y] /\ e.jobs = m.jobs /\ e.work = d.work /\ e.stopped = d.stopped
        /\ e.receipts = d.receipts
    BY <2>1, <2>2, <2>3 DEF Charges, Same, Fields
  <2>5. /\ y.body = d.tasks[r.task].body /\ y.remaining = d.tasks[r.task].remaining - r.cost
        /\ y.depth = d.tasks[r.task].depth /\ y.status = d.tasks[r.task].status
    <3>1. HasColumns("tasks", d.tasks[r.task])  BY <1>1 DEF Base, Rowed, Mutable
    <3>2. QED  BY <3>1, ChargedFacts DEF Keeps
  <2> HIDE DEF e, y
  <2>6. DOMAIN e.tasks = DOMAIN d.tasks /\ \A t \in DOMAIN d.tasks : e.tasks[t] = IF t = r.task THEN y ELSE d.tasks[t]
    BY <2>4
  <2>7. /\ DOMAIN e.jobs = DOMAIN d.jobs \cup {n} /\ n \notin DOMAIN d.jobs
        /\ e.jobs[n] = row /\ \A j \in DOMAIN d.jobs : e.jobs[j] = d.jobs[j]
        /\ DOMAIN d.jobs = 1..Len(d.jobs) /\ Len(d.jobs) \in Nat
    BY <2>1, <2>4 DEF Grew
  <2> HIDE DEF n
  <2>8. Budgets(e) = Budgets(d)  BY <2>5, <2>6 DEF Budgets
  <2> DEFINE f == Costs(e)  g == Costs(d)
  <2>9. (\A j \in DOMAIN d.jobs : g[j] \in Nat /\ f[j] = g[j]) /\ f[n] = r.cost
    BY <1>2, <2>7 DEF Costs, Ledger, Funds
  <2>10. IsFiniteSet(DOMAIN d.jobs)
    <3>1. Len(d.jobs) \in Nat  BY <2>7
    <3>2. IsFiniteSet(1..Len(d.jobs))  BY <3>1, FS_Interval
    <3>3. QED  BY <2>7, <3>2
  <2>11. \A t : JobsOf(e, t) = IF t = r.task THEN JobsOf(d, t) \cup {n} ELSE JobsOf(d, t)
    BY <1>2, <2>7 DEF JobsOf
  <2> HIDE DEF f, g
  <2>12. ASSUME NEW t \in DOMAIN d.tasks PROVE Funded(e, t)
    <3> DEFINE S == JobsOf(d, t)
    <3>1. S \in SUBSET DOMAIN d.jobs  BY DEF JobsOf
    <3>2. Funded(d, t)  BY DEF Ledger, Funds
    <3>3. d.tasks[t].remaining + SumOver(g, S) = d.tasks[t].body.budget  BY <3>2 DEF Funded, g
    <3> HIDE DEF S
    <3>4. IsFiniteSet(S) /\ n \notin S  BY <2>7, <2>10, <3>1, FS_Subset
    <3>5. SumOver(f, S) = SumOver(g, S) /\ SumOver(g, S) \in Nat
      BY <2>9, <3>1, <3>4, SumAgree, SumNat
    <3>6. CASE t # r.task
      <4>1. JobsOf(e, t) = S /\ e.tasks[t] = d.tasks[t]  BY <2>6, <2>11, <3>6 DEF S
      <4>2. QED  BY <3>2, <3>3, <3>5, <4>1 DEF Funded, f
    <3>7. CASE t = r.task
      <4>1. JobsOf(e, t) = S \cup {n} /\ e.tasks[t] = y  BY <2>6, <2>11, <3>7 DEF S
      <4>2. \A j \in S : f[j] \in Nat  BY <2>9, <3>1
      <4>3. SumOver(f, S \cup {n}) = f[n] + SumOver(f, S)  BY <2>9, <3>4, <4>2, SumAdd
      <4>4. ~ (r.cost > d.tasks[t].remaining)  BY <1>1, <1>4, <3>7
      <4> DEFINE old == d.tasks[t].remaining  total == d.tasks[t].body.budget  s == SumOver(g, S)
      <4>5. old \in Nat /\ total \in Nat /\ old + s = total /\ s \in Nat /\ ~ (r.cost > old)
        BY <3>2, <3>3, <3>5, <4>4 DEF Funded
      <4>6. y.remaining = old - r.cost /\ y.body.budget = total  BY <2>5, <3>7
      <4>7. SumOver(f, S \cup {n}) = r.cost + s  BY <2>9, <3>5, <4>3
      <4> HIDE DEF old, total, s
      <4>8. y.remaining \in Nat /\ y.remaining + (r.cost + s) = total  BY <4>5, <4>6
      <4>9. QED  BY <4>1, <4>5, <4>6, <4>7, <4>8 DEF Funded, f
    <3>8. QED  BY <3>6, <3>7
  <2>13. \A j \in DOMAIN e.jobs : e.jobs[j].body.cost \in Nat  BY <1>2, <2>7 DEF Ledger, Funds
  <2>14. Funds(e)  BY <2>4, <2>6, <2>8, <2>12, <2>13 DEF Ledger, Funds
  <2>15. TypedRows(e)
    <3>1. row.status \in JobStatus  BY <1>2 DEF JobStatus
    <3>2. QED  BY <2>4, <2>5, <2>6, <2>7, <3>1 DEF Ledger, TypedRows, TypedReceipt
  <2>16. QED  BY <2>14, <2>15 DEF Ledger
<1>5. QED  BY <1>1, <1>3, <1>4 DEF res

LEMMA ServeLedger == ASSUME Base(db), Ledger(db), Serve PROVE Ledger(db')
<1>1. PICK r \in Requests :
        \/ AddAgent(r) \/ UpdateState(r) \/ AddTask(r) \/ CloseTask(r) \/ EnqueueJob(r) \/ AddMessage(r)
        \/ ReviewMessage(r) \/ ProposeClaim(r) \/ LinkEvidence(r) \/ Relate(r) \/ Review(r) \/ ProposeArtifact(r)
  BY DEF Serve
<1>2. /\ r.op = "task" => r.budget \in Nat
      /\ r.op = "job" => r.cost \in Nat
      /\ r.op = "close" => r.status \in TaskStatus
      /\ r.op = "link" => r.kind \in LinkKinds
      /\ r.key[1] = "api"
  BY RequestAssumption DEF TaskStatus, LinkKinds
<1>3. CASE AddAgent(r)
  <2>1. AddedAgent(db, r).ok /\ db' = AddedAgent(db, r).db  BY <1>3 DEF AddAgent, Commit
  <2>2. Steady(db, AddedAgent(db, r).db)  BY <2>1, AgentSteady
  <2>3. QED  BY <2>1, <2>2, SteadyLedger
<1>4. CASE UpdateState(r)
  <2>1. UpdatedState(db, r).ok /\ db' = UpdatedState(db, r).db  BY <1>4 DEF UpdateState, Commit
  <2>2. Steady(db, UpdatedState(db, r).db)  BY <2>1, UpdateSteady
  <2>3. QED  BY <2>1, <2>2, SteadyLedger
<1>5. CASE AddTask(r)
  <2>1. AddedTask(db, r).ok /\ db' = AddedTask(db, r).db /\ r.budget \in Nat  BY <1>2, <1>5 DEF AddTask, Commit
  <2>2. QED  BY <2>1, TaskLedger
<1>6. CASE CloseTask(r)
  <2>1. /\ ClosedTask(db, r.task, r.status).ok /\ db' = ClosedTask(db, r.task, r.status).db
        /\ r.status \in TaskStatus
    BY <1>2, <1>6 DEF CloseTask, Commit
  <2>2. Steady(db, ClosedTask(db, r.task, r.status).db)  BY <2>1, CloseSteady
  <2>3. QED  BY <2>1, <2>2, SteadyLedger
<1>7. CASE EnqueueJob(r)
  <2>1. r.cost \in Nat /\ \E shown : EnqueuedJob(db, r, shown).ok /\ db' = EnqueuedJob(db, r, shown).db
    BY <1>2, <1>7 DEF EnqueueJob, Commit
  <2>2. QED  BY <2>1, JobLedger
<1>8. CASE AddMessage(r)
  <2>1. AddedMessage(db, r).ok /\ db' = AddedMessage(db, r).db  BY <1>8 DEF AddMessage, Commit
  <2>2. Steady(db, AddedMessage(db, r).db)  BY <2>1, MessageSteady
  <2>3. QED  BY <2>1, <2>2, SteadyLedger
<1>9. CASE ReviewMessage(r)
  <2>1. ReviewedMessage(db, r).ok /\ db' = ReviewedMessage(db, r).db  BY <1>9 DEF ReviewMessage, Commit
  <2>2. Steady(db, ReviewedMessage(db, r).db)  BY <2>1, ReviewedSteady
  <2>3. QED  BY <2>1, <2>2, SteadyLedger
<1>10. CASE ProposeClaim(r)
  <2> DEFINE q == InsertClaim(db, r.key, r.content, r.source)
  <2>1. q.ok /\ db' = q.db  BY <1>10 DEF ProposeClaim, Commit
  <2>2. Writes(db, q.db)  BY <2>1, InsertClaimWrites
  <2>3. QED  BY <2>1, <2>2, WritesSteady, SteadyLedger
<1>11. CASE LinkEvidence(r)
  <2> DEFINE q == AttachEvidence(db, r.kind, r.id, r.claim)
  <2>1. q.ok /\ db' = q.db /\ r.kind \in LinkKinds  BY <1>2, <1>11 DEF LinkEvidence, Commit
  <2>2. Writes(db, q.db)  BY <2>1, AttachWrites
  <2>3. QED  BY <2>1, <2>2, WritesSteady, SteadyLedger
<1>12. CASE Relate(r)
  <2> DEFINE q == ProposeRelationship(db, r.key, r.from, r.to, r.kind, r.source)
  <2>1. q.ok /\ db' = q.db  BY <1>12 DEF Relate, Commit
  <2>2. Writes(db, q.db)  BY <2>1, RelationWrites
  <2>3. QED  BY <2>1, <2>2, WritesSteady, SteadyLedger
<1>13. CASE Review(r)
  <2> DEFINE q == ReviewRelationship(db, r.key, r.relationship, r.reviewer, r.status, r.task, r.job)
  <2>1. q.ok /\ db' = q.db  BY <1>13 DEF Review, Commit
  <2>2. Sees(db, OpinionRow(r.key, r.relationship, r.reviewer, r.status, r.task, r.job))
    BY <1>2 DEF Sees, OpinionRow
  <2>3. Writes(db, q.db)  BY <2>1, <2>2, ReviewWrites
  <2>4. QED  BY <2>1, <2>3, WritesSteady, SteadyLedger
<1>14. CASE ProposeArtifact(r)
  <2> DEFINE q == InsertArtifact(db, r.key, r.content, r.proof, r.source)
  <2>1. q.ok /\ db' = q.db  BY <1>14 DEF ProposeArtifact, Commit
  <2>2. Writes(db, q.db)  BY <2>1, ArtifactWrites
  <2>3. QED  BY <2>1, <2>2, WritesSteady, SteadyLedger
<1>15. QED
  BY <1>1, <1>3, <1>4, <1>5, <1>6, <1>7, <1>8, <1>9, <1>10, <1>11, <1>12, <1>13, <1>14

LEMMA WorkersLedger == ASSUME Base(db), Ledger(db), Workers PROVE Ledger(db')
<1>1. PICK job \in DOMAIN db.jobs :
        LeaseJob(job) \/ RetryJob(job) \/ IngestAgain(job) \/ \E output \in Outputs : CompleteJob(job, output)
  BY DEF Workers
<1>2. {"queued", "assigned", "done", "failed", "cancelled"} \subseteq JobStatus  BY DEF JobStatus
<1>3. CASE LeaseJob(job)
  <2> DEFINE v == SetStatus(db, job, "assigned").jobs[job].attempts + 1
  <2>1. db' = JobWith(db, job, "assigned", "attempts", v)  BY <1>3 DEF LeaseJob, JobWith
  <2> HIDE DEF v
  <2>2. "assigned" \in JobStatus /\ "attempts" \in {"attempts", "output"}  BY <1>2
  <2>3. Steady(db, db')  BY <2>1, <2>2, MoreSteady
  <2>4. QED  BY <2>3, SteadyLedger
<1>4. CASE RetryJob(job)
  <2>1. PICK status \in {"queued", "failed", "cancelled"} : db' = SetStatus(db, job, status)  BY <1>4 DEF RetryJob
  <2>2. status \in JobStatus  BY <1>2
  <2>3. Steady(db, db')  BY <2>1, <2>2, StatusSteady
  <2>4. QED  BY <2>3, SteadyLedger
<1>5. CASE IngestAgain(job)
  <2>1. Ready(db, job) /\ db' = Ingest(db, job)  BY <1>5 DEF IngestAgain, Ready
  <2>2. QED  BY <2>1, IngestLedger
<1>6. ASSUME NEW output \in Outputs, CompleteJob(job, output) PROVE Ledger(db')
  <2> DEFINE m == JobWith(db, job, "done", "output", output)
  <2>0. m = JobWith(db, job, "done", "output", output) /\ m.jobs[job].status = "done"  BY DoneRow
  <2>1. db.jobs[job].status # "done" /\ db' = Ingest(m, job)  BY <1>6 DEF CompleteJob, JobWith
  <2> HIDE DEF m
  <2>2. "output" \in {"attempts", "output"} /\ ("done" = "done" => "output" = "output" /\ output \in Outputs)
    OBVIOUS
  <2>3. Good(db, m)  BY <2>0, <2>1, <2>2, StatusAndMore
  <2>4. job \in DOMAIN m.jobs  BY <2>0, <2>1, <2>2, StatusAndMore
  <2>5. Ready(m, job)  BY <2>0, <2>3, <2>4 DEF Ready, Good, Sound
  <2>6. "done" \in JobStatus  BY <1>2
  <2>7. Steady(db, m)  BY <2>0, <2>2, <2>6, MoreSteady
  <2>8. Ledger(m)  BY <2>7, SteadyLedger
  <2>9. QED  BY <2>1, <2>5, <2>8, IngestLedger
<1>7. QED  BY <1>1, <1>3, <1>4, <1>5, <1>6

LEMMA StopSteady == ASSUME Base(db), Stop PROVE Steady(db, db')
<1> DEFINE queued == {j \in DOMAIN db.jobs : db.jobs[j].status = "queued"}
           row(j) == IF j \in queued THEN [db.jobs[j] EXCEPT !.status = "cancelled"] ELSE db.jobs[j]
           rows   == [j \in DOMAIN db.jobs |-> row(j)]
<1>1. DOMAIN db = Fields  BY DEF Base, Formed
<1>2. db' = [db EXCEPT !.stopped = TRUE, !.jobs = rows, !.revision = @ + Cardinality(queued)]  BY DEF Stop
<1>3. \A j \in DOMAIN db.jobs : /\ row(j).body = db.jobs[j].body
                                /\ row(j).status = db.jobs[j].status \/ row(j).status = "cancelled"
  <2> TAKE j \in DOMAIN db.jobs
  <2>1. HasColumns("jobs", db.jobs[j])  BY DEF Base, Rowed, Mutable
  <2>2. WithStatus(db.jobs[j], "cancelled").body = db.jobs[j].body /\ WithStatus(db.jobs[j], "cancelled").status = "cancelled"
    BY <2>1, StatusBody
  <2>3. row(j) = db.jobs[j] \/ row(j) = WithStatus(db.jobs[j], "cancelled")  BY DEF WithStatus
  <2>4. QED  BY <2>2, <2>3
<1> HIDE DEF queued, row
<1>4. DOMAIN rows = DOMAIN db.jobs /\ \A j \in DOMAIN db.jobs : rows[j] = row(j)  OBVIOUS
<1> HIDE DEF rows
<1>5. /\ db'.work = db.work /\ db'.stopped = TRUE /\ db'.tasks = db.tasks /\ db'.jobs = rows
      /\ db'.receipts = db.receipts
  BY <1>1, <1>2 DEF Fields
<1>6. QED  BY <1>3, <1>4, <1>5 DEF Steady, JobStatus

LEMMA InitLedger == Init => Ledger(db)
<1> SUFFICES ASSUME Init PROVE Ledger(db)  OBVIOUS
<1>1. db.work = MaxWork /\ db.stopped = FALSE /\ db.tasks = <<>> /\ db.jobs = <<>> /\ db.receipts = {}
  BY DEF Init, Group
<1>2. DOMAIN db.tasks = {} /\ DOMAIN db.jobs = {}  BY <1>1
<1>3. MaxWork \in Nat  BY GroupStateAssumption
<1>4. SumOver(Budgets(db), DOMAIN db.tasks) = 0  BY <1>2, SumEmpty
<1>5. Funds(db)  BY <1>1, <1>2, <1>3, <1>4 DEF Funds
<1>6. TypedRows(db)  BY <1>1, <1>2 DEF TypedRows
<1>7. QED  BY <1>5, <1>6 DEF Ledger

WInv == GInv /\ Ledger(db)

LEMMA NextWInv == WInv /\ [Next]_vars => WInv'
<1> SUFFICES ASSUME WInv, [Next]_vars PROVE WInv'  OBVIOUS
<1>1. GInv /\ Base(db) /\ Ledger(db) /\ GInv'  BY NextGInv DEF WInv, GInv
<1>2. Ledger(db')
  <2>1. CASE Serve  BY <1>1, <2>1, ServeLedger
  <2>2. CASE Workers  BY <1>1, <2>2, WorkersLedger
  <2>3. CASE Stop  BY <1>1, <2>3, StopSteady, SteadyLedger
  <2>4. CASE UNCHANGED vars  BY <1>1, <2>4 DEF vars
  <2>5. QED  BY <2>1, <2>2, <2>3, <2>4 DEF Next
<1>3. Ledger(db)'  BY <1>2 DEF Ledger, Funds, Funded, TypedRows, TypedReceipt, Budgets, Costs, JobsOf, SumOver, MapThenSumSet,
               MapThenFoldSet
<1>4. QED  BY <1>1, <1>3 DEF WInv

LEMMA WInvariance == Spec => []WInv
<1>1. Init => WInv  BY InitGInv, InitLedger DEF WInv
<1>2. QED  BY <1>1, NextWInv, PTL DEF Spec

\* The sums of the model are those of the lemmas.
BudgetTotal(d) == Sum(DOMAIN d.tasks, LAMBDA t : d.tasks[t].body.budget)
CostTotal(d, S) == Sum(S, LAMBDA j : d.jobs[j].body.cost)
LEMMA BudgetTotalIs ==
  ASSUME NEW d, IsFiniteSet(DOMAIN d.tasks)
  PROVE  BudgetTotal(d) = SumOver(Budgets(d), DOMAIN d.tasks)
<1> DEFINE S == DOMAIN d.tasks
           f == Budgets(d)
           P(it) == it = [s \in SUBSET S |-> IF s = {} THEN 0
                                             ELSE d.tasks[Pick(s)].body.budget + it[s \ {Pick(s)}]]
           h == CHOOSE it : P(it)
<1>1. BudgetTotal(d) = h[S]
  BY DEF BudgetTotal, Sum, MapThenSumSet, MapThenFoldSet, Pick
<1>2. IsFiniteSet(S)  OBVIOUS
<1>3. \A s \in SUBSET S : s # {} => Pick(s) \in S /\ f[Pick(s)] = d.tasks[Pick(s)].body.budget
  BY PickIn DEF Budgets
<1> HIDE DEF f, S
<1>4. \A it : P(it) <=> Unfolds(it, f, S)
  <2>1. SUFFICES ASSUME NEW it PROVE P(it) <=> Unfolds(it, f, S)  OBVIOUS
  <2>2. [s \in SUBSET S |-> IF s = {} THEN 0 ELSE d.tasks[Pick(s)].body.budget + it[s \ {Pick(s)}]]
        = [s \in SUBSET S |-> IF s = {} THEN 0 ELSE f[Pick(s)] + it[s \ {Pick(s)}]]
    BY <1>3
  <2>3. QED  BY <2>2 DEF Unfolds
<1>5. \E it : Unfolds(it, f, S)  BY <1>2, UnfoldsExists
<1>6. Unfolds(h, f, S)  BY <1>4, <1>5
<1> HIDE DEF h
<1>7. QED  BY <1>1, <1>2, <1>6, SumIs DEF f, S

LEMMA CostTotalIs ==
  ASSUME NEW d, NEW S \in SUBSET DOMAIN d.jobs, IsFiniteSet(S)
  PROVE  CostTotal(d, S) = SumOver(Costs(d), S)
<1> DEFINE f == Costs(d)
           P(it) == it = [s \in SUBSET S |-> IF s = {} THEN 0
                                             ELSE d.jobs[Pick(s)].body.cost + it[s \ {Pick(s)}]]
           h == CHOOSE it : P(it)
<1>1. CostTotal(d, S) = h[S]
  BY DEF CostTotal, Sum, MapThenSumSet, MapThenFoldSet, Pick
<1>3. \A s \in SUBSET S : s # {} => Pick(s) \in S /\ f[Pick(s)] = d.jobs[Pick(s)].body.cost
  BY PickIn DEF Costs
<1> HIDE DEF f
<1>4. \A it : P(it) <=> Unfolds(it, f, S)
  <2>1. SUFFICES ASSUME NEW it PROVE P(it) <=> Unfolds(it, f, S)  OBVIOUS
  <2>2. [s \in SUBSET S |-> IF s = {} THEN 0 ELSE d.jobs[Pick(s)].body.cost + it[s \ {Pick(s)}]]
        = [s \in SUBSET S |-> IF s = {} THEN 0 ELSE f[Pick(s)] + it[s \ {Pick(s)}]]
    BY <1>3
  <2>3. QED  BY <2>2 DEF Unfolds
<1>5. \E it : Unfolds(it, f, S)  BY UnfoldsExists
<1>6. Unfolds(h, f, S)  BY <1>4, <1>5
<1> HIDE DEF h
<1>7. QED  BY <1>1, <1>6, SumIs DEF f

LEMMA InvWork == WInv => WorkConserved
<1> SUFFICES ASSUME WInv PROVE WorkConserved  OBVIOUS
<1>1. Base(db) /\ Ledger(db)  BY DEF WInv, GInv
<1>2. /\ DOMAIN db.tasks = 1..Len(db.tasks) /\ Len(db.tasks) \in Nat
      /\ DOMAIN db.jobs = 1..Len(db.jobs) /\ Len(db.jobs) \in Nat
  BY <1>1, TableFacts DEF Base, Tables
<1>3. IsFiniteSet(DOMAIN db.tasks) /\ IsFiniteSet(DOMAIN db.jobs)
  <2>1. IsFiniteSet(1..Len(db.tasks)) /\ IsFiniteSet(1..Len(db.jobs))  BY <1>2, FS_Interval
  <2>2. QED  BY <1>2, <2>1
<1>4. \A t \in DOMAIN db.tasks : Budgets(db)[t] \in Nat  BY <1>1 DEF Budgets, Ledger, Funds, Funded
<1>5. SumOver(Budgets(db), DOMAIN db.tasks) \in Nat  BY <1>3, <1>4, SumNat
<1>6. db.work \in Nat /\ db.work + SumOver(Budgets(db), DOMAIN db.tasks) = MaxWork /\ MaxWork \in Nat
  BY <1>1, GroupStateAssumption DEF Ledger, Funds
<1>7. db.work \in 0..MaxWork  BY <1>5, <1>6
<1>8. db.work + Sum(DOMAIN db.tasks, LAMBDA t : db.tasks[t].body.budget) = MaxWork
  <2>1. BudgetTotal(db) = SumOver(Budgets(db), DOMAIN db.tasks)  BY <1>3, BudgetTotalIs
  <2>2. db.work + BudgetTotal(db) = MaxWork  BY <1>6, <2>1
  <2>3. QED  BY <2>2 DEF BudgetTotal
<1>9. ASSUME NEW t \in DOMAIN db.tasks
      PROVE  /\ db.tasks[t].remaining \in 0..db.tasks[t].body.budget
             /\ db.tasks[t].remaining + Sum({j \in DOMAIN db.jobs : db.jobs[j].body.task = t},
                                            LAMBDA j : db.jobs[j].body.cost) = db.tasks[t].body.budget
  <2> DEFINE S == JobsOf(db, t)  s == SumOver(Costs(db), S)
  <2>1. S \in SUBSET DOMAIN db.jobs  BY DEF JobsOf
  <2>2. IsFiniteSet(S)
    <3> HIDE DEF S
    <3>1. QED  BY <1>3, <2>1, FS_Subset
  <2>3. \A j \in S : Costs(db)[j] \in Nat  BY <1>1, <2>1 DEF Costs, Ledger, Funds
  <2> HIDE DEF S
  <2>4. s \in Nat  BY <2>2, <2>3, SumNat
  <2>5. Funded(db, t)  BY <1>1 DEF Ledger, Funds
  <2>6. CostTotal(db, S) = s  BY <2>1, <2>2, CostTotalIs
  <2>7. /\ db.tasks[t].remaining \in Nat /\ db.tasks[t].body.budget \in Nat
        /\ db.tasks[t].remaining + s = db.tasks[t].body.budget
    BY <2>5 DEF Funded, S
  <2> HIDE DEF s
  <2>8. db.tasks[t].remaining \in 0..db.tasks[t].body.budget  BY <2>4, <2>7
  <2>9. db.tasks[t].remaining + CostTotal(db, S) = db.tasks[t].body.budget  BY <2>6, <2>7
  <2>10. db.tasks[t].remaining + Sum({j \in DOMAIN db.jobs : db.jobs[j].body.task = t},
                                    LAMBDA j : db.jobs[j].body.cost) = db.tasks[t].body.budget
    BY <2>9 DEF CostTotal, S, JobsOf
  <2>11. QED  BY <2>8, <2>10
<1>10. GTypeOK
  <2>1. db.stopped \in BOOLEAN /\ db.revision \in Nat  BY <1>1 DEF Ledger, TypedRows, Base, Formed
  <2>2. /\ Len(db.agents) <= MaxAgents /\ Len(db.tasks) <= MaxTasks /\ Len(db.messages) <= MaxMessages
        /\ Len(db.artifacts) <= MaxArtifacts /\ Len(db.claims) <= MaxClaims
        /\ Len(db.publications) <= MaxPublications /\ Len(db.relationships) <= MaxRelationships
        /\ Len(db.reviews) <= MaxReviews
    BY <1>1 DEF Base, Limited, Counted, Capacity
  <2>3. \A t \in DOMAIN db.tasks : /\ db.tasks[t].status \in {"open", "done", "blocked", "cancelled"}
                                   /\ db.tasks[t].depth \in 0..MaxDepth
    BY <1>1 DEF Ledger, TypedRows, TaskStatus
  <2>4. \A j \in DOMAIN db.jobs : db.jobs[j].status \in {"queued", "assigned", "done", "failed", "cancelled"}
    BY <1>1 DEF Ledger, TypedRows, JobStatus
  <2>5. \A link \in db.links["messages"] : link[1] \in DOMAIN db.messages /\ link[2] \in DOMAIN db.claims
    BY <1>1 DEF Base, Linked, Links, LinkKinds
  <2>6. \A receipt \in db.receipts : receipt.job \in DOMAIN db.jobs /\ receipt.status \in {"accepted", "rejected"}
    BY <1>1 DEF Ledger, TypedRows, TypedReceipt
  <2>7. QED  BY <1>7, <2>1, <2>2, <2>3, <2>4, <2>5, <2>6 DEF GTypeOK
<1>11. QED  BY <1>8, <1>9, <1>10 DEF WorkConserved

\* WorkConserved, with the types it states: whatever is requested, repeated or ingested, the work of a
\* group is where it was put (add_group_task, enqueue_group_job in group_state.py).
THEOREM WorkIsConserved == Spec => []WorkConserved
<1>1. QED  BY WInvariance, InvWork, PTL

-------------------------------------------------------------------------------
(* The working states *)

\* No working state is written: at most there are new agents, which have none yet.
Unwritten(d, e) ==
  /\ e.updates = d.updates /\ DOMAIN d.agents \subseteq DOMAIN e.agents
  /\ \A a \in DOMAIN d.agents : e.agents[a] = d.agents[a]
  /\ \A a \in DOMAIN e.agents \ DOMAIN d.agents : e.agents[a].state = "" /\ e.agents[a].revision = 0

LEMMA SameUnwritten == ASSUME NEW d, NEW e, e.updates = d.updates, e.agents = d.agents PROVE Unwritten(d, e)
BY DEF Unwritten

LEMMA WritesUnwritten == ASSUME NEW d, NEW e, Writes(d, e) PROVE e.updates = d.updates /\ e.agents = d.agents
BY DEF Writes, Untouched

LEMMA AgentUnwritten ==
  ASSUME NEW d, Base(d), NEW r, AddedAgent(d, r).ok PROVE Unwritten(d, AddedAgent(d, r).db)
<1> DEFINE row == [key |-> r.key, body |-> [role |-> r.role], state |-> "", revision |-> 0]
           m == Add(d, "agents", row)
<1>1. AddedAgent(d, r).db = d \/ AddedAgent(d, r).db = m  BY InsertFacts DEF AddedAgent
<1>2. row.state = "" /\ row.revision = 0  OBVIOUS
<1> HIDE DEF row
<1>3. Same(d, m, {"agents"}) /\ Grew(d, m, "agents", row)  BY AddFacts DEF Base, Tables
<1> HIDE DEF m
<1>4. m.updates = d.updates  BY <1>3 DEF Same, Fields
<1>5. Unwritten(d, m)  BY <1>2, <1>3, <1>4 DEF Unwritten, Grew
<1>6. QED  BY <1>1, <1>5, SameUnwritten

LEMMA TaskUnwritten ==
  ASSUME NEW d, Base(d), NEW r, AddedTask(d, r).ok
  PROVE  AddedTask(d, r).db.updates = d.updates /\ AddedTask(d, r).db.agents = d.agents
<1> DEFINE put == Insert(d, "tasks", TaskRow(d, r), MaxTasks)
           new == Keyed(d, "tasks", r.key) = {}
           p   == put.db
           m   == IF new THEN Take(p, r.budget) ELSE p
           q   == AttachTask(m, put.id, TaskClaim(r), r.action)
           focus == [task |-> put.id, claim |-> TaskClaim(r), action |-> r.action]
<1>1. put.ok /\ q.ok /\ AddedTask(d, r) = q  BY AddedTaskIs
<1>2. p = d \/ p = Add(d, "tasks", TaskRow(d, r))  BY <1>1, InsertFacts
<1>3. IsRecord(p) /\ \A f \in {"updates", "agents"} : p[f] = d[f]
  <2>1. Formed(d) /\ IsRecord(d)  BY DEF Base, Formed, IsRecord
  <2>2. /\ Formed(Add(d, "tasks", TaskRow(d, r)))
        /\ Same(d, Add(d, "tasks", TaskRow(d, r)), {"tasks"})
    BY <2>1, AddFacts DEF Tables
  <2>3. QED  BY <1>2, <2>1, <2>2 DEF Same, Fields, Formed, IsRecord
<1> HIDE DEF put
<1>4. IsRecord(m) /\ \A f \in {"updates", "agents"} : m[f] = p[f]
  <2>1. IsRecord(Take(p, r.budget)) /\ \A f \in {"updates", "agents"} : Take(p, r.budget)[f] = p[f]
    <3> HIDE DEF p
    <3>1. QED  BY <1>3 DEF Take, IsRecord, Fields
  <2>2. QED  BY <1>3, <2>1
<1> HIDE DEF m
<1>5. q.db = m \/ q.db = Raise([m EXCEPT !.focus = @ \cup {focus}])
  BY <1>1 DEF AttachTask, Done, Conflict
<1> HIDE DEF q, focus
<1>6. \A f \in {"updates", "agents"} : Raise([m EXCEPT !.focus = @ \cup {focus}])[f] = m[f]
  BY <1>4 DEF Raise, IsRecord, Fields
<1>7. QED  BY <1>1, <1>3, <1>4, <1>5, <1>6

LEMMA CloseUnwritten ==
  ASSUME NEW d, Base(d), NEW task, NEW status, ClosedTask(d, task, status).ok
  PROVE  /\ ClosedTask(d, task, status).id = task
         /\ ClosedTask(d, task, status).db.updates = d.updates /\ ClosedTask(d, task, status).db.agents = d.agents
<1> DEFINE e == Raise([d EXCEPT !.tasks[task].status = status])
<1>1. /\ ClosedTask(d, task, status).db = d \/ ClosedTask(d, task, status).db = e
      /\ ClosedTask(d, task, status).id = task
  BY DEF ClosedTask, Conflict, Done
<1>2. \A f \in {"updates", "agents"} : e[f] = d[f]  BY DEF Base, Formed, Fields, Raise
<1> HIDE DEF e
<1>3. QED  BY <1>1, <1>2

LEMMA JobUnwritten ==
  ASSUME NEW d, Base(d), NEW r, NEW shown, EnqueuedJob(d, r, shown).ok
  PROVE  /\ EnqueuedJob(d, r, shown).db.updates = d.updates
         /\ EnqueuedJob(d, r, shown).db.agents = d.agents
<1> DEFINE put == Insert(d, "jobs", JobRow(r, shown), MaxWork + 1)
           m == put.db
           e == EnqueuedJob(d, r, shown).db
<1>1. put.ok /\ (e = m \/ e = Reserve(m, r.task, r.cost))  BY EnqueuedJobIs
<1>2. Formed(m) /\ Same(d, m, {"jobs"})
  <2>1. Formed(d)  BY DEF Base
  <2>2. m = d \/ m = Add(d, "jobs", JobRow(r, shown))  BY <1>1, InsertFacts
  <2>3. QED  BY <2>1, <2>2, AddFacts DEF Tables, Same
<1> HIDE DEF m, e
<1>3. Same(m, Reserve(m, r.task, r.cost), {"tasks", "revision"})  BY <1>2, ReserveFacts DEF Charges
<1>4. e.updates = d.updates /\ e.agents = d.agents  BY <1>1, <1>2, <1>3 DEF Same, Fields
<1>5. QED  BY <1>4 DEF e

LEMMA MessageUnwritten ==
  ASSUME NEW d, Base(d), NEW r, AddedMessage(d, r).ok
  PROVE  LET put == Insert(d, "messages", MessageRow(r.key, r.source, r.text), MaxMessages)
             res == AddedMessage(d, r)
         IN /\ put.ok /\ res.id = put.id /\ res.db.messages = put.db.messages
            /\ res.db.updates = d.updates /\ res.db.agents = d.agents
<1> DEFINE put == Insert(d, "messages", MessageRow(r.key, r.source, r.text), MaxMessages)
           new == Keyed(d, "messages", r.key) = {}
           res == AddedMessage(d, r)
<1>1. put.ok /\ res = IF new THEN LinkedToFocus(put.db, put.id) ELSE Done(put.db, put.id)
  BY AddedMessageIs
<1>2. put.db = d \/ put.db = Add(d, "messages", MessageRow(r.key, r.source, r.text))  BY <1>1, InsertFacts
<1>3. res.ok  OBVIOUS
<1> HIDE DEF put, res
<1>4. Formed(put.db) /\ Same(d, put.db, {"messages"})
  <2>1. Formed(d)  BY DEF Base
  <2>2. Same(d, d, {"messages"})  BY DEF Same
  <2>3. QED  BY <1>2, <2>1, <2>2, AddFacts DEF Tables
<1>5. (res.db = put.db \/ Same(put.db, res.db, {"revision", "links"})) /\ res.id = put.id
  <2>1. \/ res = Done(put.db, put.id)
        \/ \E c : res = AttachEvidence(put.db, "messages", put.id, c)
    BY <1>1 DEF LinkedToFocus
  <2>2. ASSUME NEW c, res = AttachEvidence(put.db, "messages", put.id, c)
        PROVE  (res.db = put.db \/ Same(put.db, res.db, {"revision", "links"})) /\ res.id = put.id
    <3>1. res.db = put.db \/ Same(put.db, res.db, {"revision", "links"})
      BY <1>3, <1>4, <2>2, AttachFacts DEF LinkKinds
    <3>2. res.id = put.id  BY <1>3, <2>2 DEF AttachEvidence, Done, Conflict
    <3>3. QED  BY <3>1, <3>2
  <2>3. QED  BY <2>1, <2>2 DEF Done
<1>6. res.db.messages = put.db.messages  BY <1>5 DEF Same, Fields
<1>7. \A f \in {"updates", "agents"} : res.db[f] = d[f]  BY <1>4, <1>5 DEF Same, Fields
<1>8. QED  BY <1>1, <1>5, <1>6, <1>7 DEF put, res

LEMMA ReviewedUnwritten ==
  ASSUME NEW d, Base(d), NEW r, ReviewedMessage(d, r).ok
  PROVE  /\ ReviewedMessage(d, r).id = r.message
         /\ ReviewedMessage(d, r).db.updates = d.updates /\ ReviewedMessage(d, r).db.agents = d.agents
<1> DEFINE review == [status |-> r.status, by |-> r.reviewer, key |-> r.key]
           q == [d EXCEPT !.messages[r.message].review = review]
<1>1. ReviewedMessage(d, r).db \in {d, q, Raise(q)} /\ ReviewedMessage(d, r).id = r.message
  BY DEF ReviewedMessage, Conflict, Done
<1>2. DOMAIN d = Fields  BY DEF Base, Formed
<1> HIDE DEF review
<1>3. DOMAIN q = Fields /\ \A f \in {"updates", "agents"} : q[f] = d[f]  BY <1>2 DEF Fields
<1> HIDE DEF q
<1>4. \A f \in {"updates", "agents"} : Raise(q)[f] = q[f]  BY <1>3 DEF Raise, Fields
<1>5. QED  BY <1>1, <1>3, <1>4

LEMMA StatusUnwritten ==
  ASSUME NEW d, Base(d), NEW job \in DOMAIN d.jobs, NEW status
  PROVE  SetStatus(d, job, status).updates = d.updates /\ SetStatus(d, job, status).agents = d.agents
<1>1. Statuses(d, SetStatus(d, job, status), job, status)  BY StatusFacts DEF Base
<1>2. QED  BY <1>1 DEF Statuses, Same, Fields

LEMMA MoreUnwritten ==
  ASSUME NEW d, Base(d), NEW job \in DOMAIN d.jobs, NEW status, NEW c \in {"attempts", "output"}, NEW v
  PROVE  JobWith(d, job, status, c, v).updates = d.updates /\ JobWith(d, job, status, c, v).agents = d.agents
<1> DEFINE m == SetStatus(d, job, status)  e == JobWith(d, job, status, c, v)
<1>1. Statuses(d, m, job, status)  BY StatusFacts DEF Base
<1>2. m.updates = d.updates /\ m.agents = d.agents  BY StatusUnwritten
<1>3. e = [m EXCEPT !.jobs[job][c] = v]  BY DEF JobWith
<1> HIDE DEF e, m
<1>4. IsRecord(m)  BY <1>1 DEF Statuses
<1>5. \A f \in {"updates", "agents"} : e[f] = m[f]  BY <1>3, <1>4 DEF IsRecord, Fields
<1>6. e.updates = d.updates /\ e.agents = d.agents  BY <1>2, <1>5
<1>7. QED  BY <1>6 DEF e

LEMMA IngestUnwritten ==
  ASSUME NEW d, NEW job, Ready(d, job)
  PROVE  Ingest(d, job).updates = d.updates /\ Ingest(d, job).agents = d.agents
<1> DEFINE f == Applied(d, job).db
<1>1. \/ Ingest(d, job) = d
      \/ Applied(d, job).ok /\ Ingest(d, job) = Receive(f, job, "accepted")
      \/ Ingest(d, job) = Receive(d, job, "rejected")
  BY DEF Ingest
<1>2. ASSUME NEW e, Base(e), NEW status
      PROVE  Receive(e, job, status).updates = e.updates /\ Receive(e, job, status).agents = e.agents
  BY <1>2 DEF Receive, Base, Formed, Fields
<1>3. Base(d)  BY DEF Ready
<1>4. CASE Applied(d, job).ok /\ Ingest(d, job) = Receive(f, job, "accepted")
  <2>1. Writes(d, f)  BY <1>4, AppliedWrites
  <2> HIDE DEF f
  <2>2. Base(f) /\ f.updates = d.updates /\ f.agents = d.agents  BY <2>1 DEF Writes, Untouched
  <2>3. QED  BY <1>2, <1>4, <2>2
<1>5. QED  BY <1>1, <1>2, <1>3, <1>4

LEMMA WorkersUnwritten == ASSUME Base(db), Workers PROVE db'.updates = db.updates /\ db'.agents = db.agents
<1>1. PICK job \in DOMAIN db.jobs :
        LeaseJob(job) \/ RetryJob(job) \/ IngestAgain(job) \/ \E output \in Outputs : CompleteJob(job, output)
  BY DEF Workers
<1>3. CASE LeaseJob(job)
  <2> DEFINE v == SetStatus(db, job, "assigned").jobs[job].attempts + 1
  <2>1. db' = JobWith(db, job, "assigned", "attempts", v)  BY <1>3 DEF LeaseJob, JobWith
  <2> HIDE DEF v
  <2>2. QED  BY <2>1, MoreUnwritten
<1>4. CASE RetryJob(job)
  <2>1. PICK status \in {"queued", "failed", "cancelled"} : db' = SetStatus(db, job, status)  BY <1>4 DEF RetryJob
  <2>2. QED  BY <2>1, StatusUnwritten
<1>5. CASE IngestAgain(job)
  <2>1. Ready(db, job) /\ db' = Ingest(db, job)  BY <1>5 DEF IngestAgain, Ready
  <2>2. QED  BY <2>1, IngestUnwritten
<1>6. ASSUME NEW output \in Outputs, CompleteJob(job, output)
      PROVE  db'.updates = db.updates /\ db'.agents = db.agents
  <2> DEFINE m == JobWith(db, job, "done", "output", output)
  <2>0. m = JobWith(db, job, "done", "output", output) /\ m.jobs[job].status = "done"  BY DoneRow
  <2>1. db.jobs[job].status # "done" /\ db' = Ingest(m, job)  BY <1>6 DEF CompleteJob, JobWith
  <2> HIDE DEF m
  <2>2. "output" \in {"attempts", "output"} /\ ("done" = "done" => "output" = "output" /\ output \in Outputs)
    OBVIOUS
  <2>3. Good(db, m)  BY <2>0, <2>1, <2>2, StatusAndMore
  <2>4. job \in DOMAIN m.jobs  BY <2>0, <2>1, <2>2, StatusAndMore
  <2>5. Ready(m, job)  BY <2>0, <2>3, <2>4 DEF Ready, Good, Sound
  <2>6. m.updates = db.updates /\ m.agents = db.agents  BY <2>0, <2>2, MoreUnwritten
  <2>7. QED  BY <2>1, <2>5, <2>6, IngestUnwritten
<1>7. QED  BY <1>1, <1>3, <1>4, <1>5, <1>6

LEMMA StopUnwritten == ASSUME Base(db), Stop PROVE db'.updates = db.updates /\ db'.agents = db.agents
<1>1. DOMAIN db = Fields  BY DEF Base, Formed
<1>2. QED  BY <1>1 DEF Stop, Fields

\* The update a request asks for.
Update(r) == [agent |-> r.agent, key |-> r.key, state |-> r.state, revision |-> r.expected + 1]
\* The state of the agent is written after the one the writer expected.
Written(d, e, r) ==
  /\ \A v \in d.updates : ~ (v.agent = r.agent /\ v.key = r.key)
  /\ d.agents[r.agent].revision = r.expected
  /\ e.updates = d.updates \cup {Update(r)} /\ DOMAIN e.agents = DOMAIN d.agents
  /\ \A a \in DOMAIN d.agents : a # r.agent => e.agents[a] = d.agents[a]
  /\ e.agents[r.agent].state = r.state /\ e.agents[r.agent].revision = r.expected + 1
LEMMA UpdateFacts ==
  ASSUME NEW d, Base(d), NEW r, UpdatedState(d, r).ok
  PROVE  LET q == UpdatedState(d, r) IN
         /\ r.agent \in DOMAIN d.agents /\ q.id = r.expected + 1
         /\ (q.db = d /\ Update(r) \in d.updates) \/ Written(d, q.db, r)
<1> DEFINE revision == r.expected + 1
           update == Update(r)
           known == {u \in d.updates : u.agent = r.agent /\ u.key = r.key}
           e == [d EXCEPT !.agents[r.agent].state = r.state, !.agents[r.agent].revision = revision,
                          !.updates = @ \cup {update}]
           x == d.agents[r.agent]
           y == [x EXCEPT !["state"] = r.state]
           z == [y EXCEPT !["revision"] = revision]
           q == UpdatedState(d, r)
<1>1. /\ r.agent \in DOMAIN d.agents
      /\ IF known # {} THEN update \in known /\ q = Done(d, revision)
         ELSE d.agents[r.agent].revision = r.expected /\ q = Done(e, revision)
  BY DEF UpdatedState, Conflict, Update
<1>2. e.updates = d.updates \cup {update} /\ e.agents = [d.agents EXCEPT ![r.agent] = z]
  <2>1. DOMAIN d = Fields  BY DEF Base, Formed
  <2> HIDE DEF update, revision
  <2>2. e.updates = d.updates \cup {update}  BY <2>1 DEF Fields
  <2>3. e.agents = [[d.agents EXCEPT ![r.agent].state = r.state] EXCEPT ![r.agent].revision = revision]
    BY <2>1 DEF Fields
  <2>4. QED  BY <1>1, <2>2, <2>3
<1> HIDE DEF e, q, update
<1>3. z.state = r.state /\ z.revision = revision
  <2>1. HasColumns("agents", x)  BY <1>1 DEF Base, Rowed, Mutable
  <2>2. "state" \in Columns["agents"] /\ "revision" \in Columns["agents"]  BY DEF Columns
  <2> HIDE DEF x, revision
  <2>3. HasColumns("agents", y) /\ y["state"] = r.state /\ \A b \in Columns["agents"] \ {"state"} : y[b] = x[b]
    BY <2>1, <2>2, ColumnsEdit
  <2> HIDE DEF y
  <2>4. /\ HasColumns("agents", z) /\ z["revision"] = revision
        /\ \A b \in Columns["agents"] \ {"revision"} : z[b] = y[b]
    BY <2>2, <2>3, ColumnsEdit
  <2> HIDE DEF z
  <2>5. QED  BY <2>2, <2>3, <2>4
<1> HIDE DEF z
<1>4. CASE known # {}
  <2>1. q = Done(d, revision) /\ update \in d.updates  BY <1>1, <1>4
  <2>2. q.db = d /\ q.id = r.expected + 1  BY <2>1 DEF Done
  <2>3. QED  BY <1>1, <2>1, <2>2 DEF q, update
<1>5. CASE known = {}
  <2>1. q = Done(e, revision) /\ d.agents[r.agent].revision = r.expected  BY <1>1, <1>5
  <2>2. q.db = e /\ q.id = r.expected + 1  BY <2>1 DEF Done
  <2>3. \A v \in d.updates : ~ (v.agent = r.agent /\ v.key = r.key)  BY <1>5
  <2>4. Written(d, e, r)  BY <1>1, <1>2, <1>3, <2>1, <2>3 DEF Written, update
  <2>5. QED  BY <1>1, <2>2, <2>4 DEF q
<1>6. QED  BY <1>4, <1>5

\* The updates of an agent are numbered up to its revision, each written once and under one key.
Logged(d) ==
  /\ \A u \in d.updates : u.agent \in DOMAIN d.agents /\ u.revision \in 1..d.agents[u.agent].revision
  /\ \A a \in DOMAIN d.agents :
       /\ d.agents[a].revision \in Nat
       /\ \A n \in 1..d.agents[a].revision : \E u \in d.updates : u.agent = a /\ u.revision = n
  /\ \A u, v \in d.updates : u.agent = v.agent /\ (u.key = v.key \/ u.revision = v.revision) => u = v

LEMMA UnwrittenLogged == ASSUME NEW d, Logged(d), NEW e, Unwritten(d, e) PROVE Logged(e)
<1>1. \A u \in e.updates : u.agent \in DOMAIN e.agents /\ u.revision \in 1..e.agents[u.agent].revision
  BY DEF Logged, Unwritten
<1>2. ASSUME NEW a \in DOMAIN e.agents
      PROVE  /\ e.agents[a].revision \in Nat
             /\ \A n \in 1..e.agents[a].revision : \E u \in e.updates : u.agent = a /\ u.revision = n
  <2>1. CASE a \in DOMAIN d.agents
    <3>1. e.agents[a] = d.agents[a] /\ e.updates = d.updates  BY <2>1 DEF Unwritten
    <3>2. QED  BY <2>1, <3>1 DEF Logged
  <2>2. CASE a \notin DOMAIN d.agents
    <3>1. e.agents[a].revision = 0  BY <2>2 DEF Unwritten
    <3>2. \A n : n \notin 1..0  OBVIOUS
    <3>3. QED  BY <3>1, <3>2
  <2>3. QED  BY <2>1, <2>2
<1>3. QED  BY <1>1, <1>2 DEF Logged, Unwritten

LEMMA WrittenLogged ==
  ASSUME NEW d, Logged(d), NEW r, r.expected \in Nat, r.agent \in DOMAIN d.agents, NEW e, Written(d, e, r)
  PROVE  Logged(e)
<1> DEFINE w == Update(r)
<1>1. w.agent = r.agent /\ w.key = r.key /\ w.state = r.state /\ w.revision = r.expected + 1  BY DEF Update
<1>2. /\ \A v \in d.updates : ~ (v.agent = r.agent /\ v.key = r.key)
      /\ d.agents[r.agent].revision = r.expected
      /\ e.updates = d.updates \cup {w} /\ DOMAIN e.agents = DOMAIN d.agents
      /\ \A a \in DOMAIN d.agents : a # r.agent => e.agents[a] = d.agents[a]
      /\ e.agents[r.agent].revision = r.expected + 1
  BY DEF Written
<1> HIDE DEF w
<1>3. \A u \in d.updates : u.agent \in DOMAIN d.agents /\ u.revision \in 1..d.agents[u.agent].revision  BY DEF Logged
<1>4. \A u \in e.updates : u.agent \in DOMAIN e.agents /\ u.revision \in 1..e.agents[u.agent].revision
  <2> TAKE u \in e.updates
  <2>1. CASE u = w  BY <1>1, <1>2, <2>1
  <2>2. CASE u \in d.updates /\ u.agent # r.agent  BY <1>2, <1>3, <2>2
  <2>3. CASE u \in d.updates /\ u.agent = r.agent
    <3>1. u.revision \in 1..r.expected  BY <1>2, <1>3, <2>3
    <3>2. u.revision \in 1..(r.expected + 1)  BY <3>1
    <3>3. QED  BY <1>2, <2>3, <3>2
  <2>4. QED  BY <1>2, <2>1, <2>2, <2>3
<1>5. ASSUME NEW a \in DOMAIN e.agents
      PROVE  /\ e.agents[a].revision \in Nat
             /\ \A n \in 1..e.agents[a].revision : \E u \in e.updates : u.agent = a /\ u.revision = n
  <2>1. /\ d.agents[a].revision \in Nat
        /\ \A n \in 1..d.agents[a].revision : \E u \in d.updates : u.agent = a /\ u.revision = n
    BY <1>2 DEF Logged
  <2>2. CASE a # r.agent  BY <1>2, <2>1, <2>2
  <2>3. CASE a = r.agent
    <3>1. \A n \in 1..(r.expected + 1) : n \in 1..r.expected \/ n = r.expected + 1  OBVIOUS
    <3>2. \A n \in 1..r.expected : \E u \in d.updates : u.agent = a /\ u.revision = n  BY <1>2, <2>1, <2>3
    <3>3. \A n \in 1..(r.expected + 1) : \E u \in e.updates : u.agent = a /\ u.revision = n
      BY <1>1, <1>2, <2>3, <3>1, <3>2
    <3>4. QED  BY <1>2, <2>3, <3>3
  <2>4. QED  BY <2>2, <2>3
<1>6. \A u \in d.updates : u.agent = r.agent => u.key # r.key /\ u.revision # r.expected + 1
  <2> SUFFICES ASSUME NEW u \in d.updates, u.agent = r.agent PROVE u.key # r.key /\ u.revision # r.expected + 1
    OBVIOUS
  <2>1. u.revision \in 1..r.expected  BY <1>2, <1>3
  <2>2. QED  BY <1>2, <2>1
<1>7. \A u, v \in e.updates : u.agent = v.agent /\ (u.key = v.key \/ u.revision = v.revision) => u = v
  <2>1. \A u, v \in d.updates : u.agent = v.agent /\ (u.key = v.key \/ u.revision = v.revision) => u = v
    BY DEF Logged
  <2>2. QED  BY <1>1, <1>2, <1>6, <2>1
<1>8. QED  BY <1>4, <1>5, <1>7 DEF Logged

LInv == GInv /\ Logged(db)

\* A step writes one state after the one its writer had seen, or none.
LEMMA NextWrites ==
  ASSUME Base(db), Next
  PROVE  \/ Unwritten(db, db')
         \/ \E r \in Requests : /\ r.op = "update" /\ r.agent \in DOMAIN db.agents /\ r.expected \in Nat
                                /\ Written(db, db', r)
<1>1. CASE Serve
  <2>1. PICK r \in Requests :
          \/ AddAgent(r) \/ UpdateState(r) \/ AddTask(r) \/ CloseTask(r) \/ EnqueueJob(r) \/ AddMessage(r)
          \/ ReviewMessage(r) \/ ProposeClaim(r) \/ LinkEvidence(r) \/ Relate(r) \/ Review(r) \/ ProposeArtifact(r)
    BY <1>1 DEF Serve
  <2>2. /\ r.op = "update" => r.expected \in Nat
        /\ r.op = "link" => r.kind \in LinkKinds
        /\ r.key[1] = "api"
    BY RequestAssumption DEF LinkKinds
  <2>3. CASE AddAgent(r)  BY <2>3, AgentUnwritten DEF AddAgent, Commit
  <2>4. CASE UpdateState(r)
    <3>1. UpdatedState(db, r).ok /\ db' = UpdatedState(db, r).db /\ r.op = "update"  BY <2>4 DEF UpdateState, Commit
    <3>2. r.agent \in DOMAIN db.agents /\ (db' = db \/ Written(db, db', r))  BY <3>1, UpdateFacts
    <3>3. QED  BY <2>2, <3>1, <3>2, SameUnwritten
  <2>5. CASE AddTask(r)  BY <2>5, TaskUnwritten, SameUnwritten DEF AddTask, Commit
  <2>6. CASE CloseTask(r)  BY <2>6, CloseUnwritten, SameUnwritten DEF CloseTask, Commit
  <2>7. CASE EnqueueJob(r)  BY <2>7, JobUnwritten, SameUnwritten DEF EnqueueJob, Commit
  <2>8. CASE AddMessage(r)
    <3>1. AddedMessage(db, r).ok /\ db' = AddedMessage(db, r).db  BY <2>8 DEF AddMessage, Commit
    <3>2. db'.updates = db.updates /\ db'.agents = db.agents  BY <3>1, MessageUnwritten
    <3>3. QED  BY <3>2, SameUnwritten
  <2>9. CASE ReviewMessage(r)  BY <2>9, ReviewedUnwritten, SameUnwritten DEF ReviewMessage, Commit
  <2>10. CASE ProposeClaim(r)
    <3>1. InsertClaim(db, r.key, r.content, r.source).ok /\ db' = InsertClaim(db, r.key, r.content, r.source).db
      BY <2>10 DEF ProposeClaim, Commit
    <3>2. Writes(db, db')  BY <3>1, InsertClaimWrites
    <3>3. QED  BY <3>2, WritesUnwritten, SameUnwritten
  <2>11. CASE LinkEvidence(r)
    <3>1. /\ AttachEvidence(db, r.kind, r.id, r.claim).ok /\ db' = AttachEvidence(db, r.kind, r.id, r.claim).db
          /\ r.kind \in LinkKinds
      BY <2>2, <2>11 DEF LinkEvidence, Commit
    <3>2. Writes(db, db')  BY <3>1, AttachWrites
    <3>3. QED  BY <3>2, WritesUnwritten, SameUnwritten
  <2>12. CASE Relate(r)
    <3> DEFINE q == ProposeRelationship(db, r.key, r.from, r.to, r.kind, r.source)
    <3>1. q.ok /\ db' = q.db  BY <2>12 DEF Relate, Commit
    <3>2. Writes(db, db')  BY <3>1, RelationWrites
    <3>3. QED  BY <3>2, WritesUnwritten, SameUnwritten
  <2>13. CASE Review(r)
    <3> DEFINE q == ReviewRelationship(db, r.key, r.relationship, r.reviewer, r.status, r.task, r.job)
    <3>1. q.ok /\ db' = q.db  BY <2>13 DEF Review, Commit
    <3>2. Sees(db, OpinionRow(r.key, r.relationship, r.reviewer, r.status, r.task, r.job))
      BY <2>2 DEF Sees, OpinionRow
    <3>3. Writes(db, db')  BY <3>1, <3>2, ReviewWrites
    <3>4. QED  BY <3>3, WritesUnwritten, SameUnwritten
  <2>14. CASE ProposeArtifact(r)
    <3> DEFINE q == InsertArtifact(db, r.key, r.content, r.proof, r.source)
    <3>1. q.ok /\ db' = q.db  BY <2>14 DEF ProposeArtifact, Commit
    <3>2. Writes(db, db')  BY <3>1, ArtifactWrites
    <3>3. QED  BY <3>2, WritesUnwritten, SameUnwritten
  <2>15. QED
    BY <2>1, <2>3, <2>4, <2>5, <2>6, <2>7, <2>8, <2>9, <2>10, <2>11, <2>12, <2>13, <2>14
<1>2. CASE Workers  BY <1>2, WorkersUnwritten, SameUnwritten
<1>3. CASE Stop  BY <1>3, StopUnwritten, SameUnwritten
<1>4. QED  BY <1>1, <1>2, <1>3 DEF Next

LEMMA NextLInv == LInv /\ [Next]_vars => LInv'
<1> SUFFICES ASSUME LInv, [Next]_vars PROVE LInv'  OBVIOUS
<1>1. GInv /\ Base(db) /\ Logged(db) /\ GInv'  BY NextGInv DEF LInv, GInv
<1>2. Logged(db')
  <2>1. CASE Next  BY <1>1, <2>1, NextWrites, UnwrittenLogged, WrittenLogged
  <2>2. CASE UNCHANGED vars  BY <1>1, <2>2 DEF vars
  <2>3. QED  BY <2>1, <2>2
<1>3. Logged(db)'  BY <1>2 DEF Logged
<1>4. QED  BY <1>1, <1>3 DEF LInv

LEMMA InitLInv == Init => LInv
<1> SUFFICES ASSUME Init PROVE LInv  OBVIOUS
<1>1. db.updates = {} /\ db.agents = <<>>  BY DEF Init, Group
<1>2. DOMAIN db.agents = {}  BY <1>1
<1>3. QED  BY <1>1, <1>2, InitGInv DEF LInv, Logged

LEMMA LInvariance == Spec => []LInv
<1>1. QED  BY InitLInv, NextLInv, PTL DEF Spec

-------------------------------------------------------------------------------
(* The log of the working states *)

\* What the refinement mapping makes of the rows d.
RevisionIn(d, a) == IF a \in DOMAIN d.agents THEN d.agents[a].revision ELSE 0
StateIn(d, a, n) ==
  IF \E u \in {u \in d.updates : u.agent = a} : u.revision = n
  THEN (CHOOSE u \in {u \in d.updates : u.agent = a} : u.revision = n).state ELSE "lost"
StatesIn(d, a) == [n \in 1..RevisionIn(d, a) |-> StateIn(d, a, n)]
LogIn(d) == [a \in 1..MaxAgents |-> StatesIn(d, a)]
CurrentIn(d) == [a \in 1..MaxAgents |-> IF a \in DOMAIN d.agents THEN d.agents[a].state ELSE ""]

LEMMA UnwrittenLog ==
  ASSUME NEW d, NEW e, Unwritten(d, e)
  PROVE  LogIn(e) = LogIn(d) /\ CurrentIn(e) = CurrentIn(d)
<1>1. \A a : RevisionIn(e, a) = RevisionIn(d, a)  BY DEF Unwritten, RevisionIn
<1>2. \A a, n : StateIn(e, a, n) = StateIn(d, a, n)  BY DEF Unwritten, StateIn
<1>3. \A a : StatesIn(e, a) = StatesIn(d, a)  BY <1>1, <1>2 DEF StatesIn
<1>4. LogIn(e) = LogIn(d)  BY <1>3 DEF LogIn
<1>5. CurrentIn(e) = CurrentIn(d)  BY DEF Unwritten, CurrentIn
<1>6. QED  BY <1>4, <1>5

LEMMA StateIs ==
  ASSUME NEW d, Logged(d), NEW u \in d.updates
  PROVE  StateIn(d, u.agent, u.revision) = u.state
<1> DEFINE U == {v \in d.updates : v.agent = u.agent}
           w == CHOOSE v \in U : v.revision = u.revision
<1>1. u \in U  OBVIOUS
<1>2. w \in U /\ w.revision = u.revision  BY <1>1
<1> HIDE DEF w
<1>3. w = u  BY <1>2 DEF Logged
<1>4. StateIn(d, u.agent, u.revision) = w.state  BY <1>1 DEF StateIn, w
<1>5. QED  BY <1>3, <1>4

LEMMA WrittenLog ==
  ASSUME NEW d, Logged(d), NEW r, r.expected \in Nat, r.agent \in DOMAIN d.agents, r.agent \in 1..MaxAgents,
         NEW e, Logged(e), Written(d, e, r)
  PROVE  /\ LogIn(e) = [LogIn(d) EXCEPT ![r.agent] = Append(@, r.state)]
         /\ CurrentIn(e) = [CurrentIn(d) EXCEPT ![r.agent] = r.state]
<1> DEFINE w == Update(r)  b == r.agent  k == r.expected
<1>1. w.agent = b /\ w.state = r.state /\ w.revision = k + 1  BY DEF Update
<1>2. /\ d.agents[b].revision = k
      /\ e.updates = d.updates \cup {w} /\ DOMAIN e.agents = DOMAIN d.agents
      /\ \A a \in DOMAIN d.agents : a # b => e.agents[a] = d.agents[a]
      /\ e.agents[b].state = r.state /\ e.agents[b].revision = k + 1
  BY DEF Written
<1> HIDE DEF w
<1>3. \A a : a # b => RevisionIn(e, a) = RevisionIn(d, a)  BY <1>2 DEF RevisionIn
<1>4. RevisionIn(d, b) = k /\ RevisionIn(e, b) = k + 1  BY <1>2 DEF RevisionIn
<1>5. ASSUME NEW a, NEW n \in 1..RevisionIn(d, a) PROVE StateIn(e, a, n) = StateIn(d, a, n)
  <2>1. a \in DOMAIN d.agents
    <3>1. a \notin DOMAIN d.agents => RevisionIn(d, a) = 0  BY DEF RevisionIn
    <3>2. \A i : i \notin 1..0  OBVIOUS
    <3>3. QED  BY <3>1, <3>2
  <2>2. PICK u \in d.updates : u.agent = a /\ u.revision = n  BY <2>1 DEF Logged, RevisionIn
  <2>3. StateIn(d, a, n) = u.state  BY <2>2, StateIs
  <2>4. u \in e.updates  BY <1>2
  <2>5. StateIn(e, a, n) = u.state  BY <2>2, <2>4, StateIs
  <2>6. QED  BY <2>3, <2>5
<1>6. StateIn(e, b, k + 1) = r.state
  <2>1. w \in e.updates  BY <1>2
  <2>2. StateIn(e, w.agent, w.revision) = w.state  BY <2>1, StateIs
  <2>3. QED  BY <1>1, <2>2
<1>7. \A a : a # b => StatesIn(e, a) = StatesIn(d, a)  BY <1>3, <1>5 DEF StatesIn
<1>8. StatesIn(e, b) = Append(StatesIn(d, b), r.state)
  <2> DEFINE s == StatesIn(d, b)  t == StatesIn(e, b)
  <2>1. s = [n \in 1..k |-> StateIn(d, b, n)] /\ t = [n \in 1..(k + 1) |-> StateIn(e, b, n)]
    BY <1>4 DEF StatesIn
  <2> HIDE DEF s, t
  <2>2. DOMAIN s = 1..k /\ \A n \in 1..k : s[n] = StateIn(d, b, n)  BY <2>1
  <2>3. DOMAIN t = 1..(k + 1) /\ \A n \in 1..(k + 1) : t[n] = StateIn(e, b, n)  BY <2>1
  <2>4. s \in Seq({s[i] : i \in DOMAIN s})
    <3> DEFINE S == {s[i] : i \in DOMAIN s}
    <3>1. \A n \in 1..k : s[n] \in S  BY <2>2
    <3> HIDE DEF S
    <3>2. k \in Nat /\ s = [n \in 1..k |-> s[n]]  BY <2>1
    <3>3. s \in [1..k -> S]  BY <3>1, <3>2
    <3>4. Seq(S) = UNION {[1..n -> S] : n \in Nat}  OBVIOUS
    <3>5. s \in Seq(S)  BY <3>2, <3>3, <3>4
    <3>6. QED  BY <3>5 DEF S
  <2>5. IsSeq(s) /\ Len(s) = k
    <3>1. IsSeq(s)  BY <2>4 DEF IsSeq
    <3>2. Len(s) \in Nat /\ DOMAIN s = 1..Len(s)  BY <3>1, SeqFacts
    <3>3. QED  BY <2>2, <3>1, <3>2
  <2>6. /\ IsSeq(Append(s, r.state)) /\ DOMAIN Append(s, r.state) = 1..(k + 1)
        /\ Append(s, r.state)[k + 1] = r.state /\ \A i \in DOMAIN s : Append(s, r.state)[i] = s[i]
    BY <2>5, AppendFacts
  <2>7. \A n \in 1..(k + 1) : n \in 1..k \/ n = k + 1  OBVIOUS
  <2>8. \A n \in 1..k : n \in 1..RevisionIn(d, b)  BY <1>4
  <2>9. \A n \in 1..(k + 1) : t[n] = Append(s, r.state)[n]
    BY <1>5, <1>6, <2>2, <2>3, <2>6, <2>7, <2>8
  <2>10. Append(s, r.state) = [n \in 1..(k + 1) |-> Append(s, r.state)[n]]  BY <2>6 DEF IsSeq
  <2>11. t = [n \in 1..(k + 1) |-> t[n]]  BY <2>1
  <2>12. t = Append(s, r.state)  BY <2>9, <2>10, <2>11
  <2>13. QED  BY <2>12 DEF s, t
<1>9. LogIn(e) = [LogIn(d) EXCEPT ![r.agent] = Append(@, r.state)]  BY <1>7, <1>8 DEF LogIn
<1>10. CurrentIn(e) = [CurrentIn(d) EXCEPT ![r.agent] = r.state]  BY <1>2 DEF CurrentIn
<1>11. QED  BY <1>9, <1>10

LEMMA LogStep ==
  LInv /\ LInv' /\ [Next]_vars =>
    \/ LogIn(db') = LogIn(db) /\ CurrentIn(db') = CurrentIn(db)
    \/ \E r \in {r \in Requests : r.op = "update"} :
         /\ r.agent \in 1..MaxAgents
         /\ LogIn(db') = [LogIn(db) EXCEPT ![r.agent] = Append(@, r.state)]
         /\ CurrentIn(db') = [CurrentIn(db) EXCEPT ![r.agent] = r.state]
<1> SUFFICES ASSUME LInv, LInv', [Next]_vars
             PROVE  \/ LogIn(db') = LogIn(db) /\ CurrentIn(db') = CurrentIn(db)
                    \/ \E r \in {r \in Requests : r.op = "update"} :
                         /\ r.agent \in 1..MaxAgents
                         /\ LogIn(db') = [LogIn(db) EXCEPT ![r.agent] = Append(@, r.state)]
                         /\ CurrentIn(db') = [CurrentIn(db) EXCEPT ![r.agent] = r.state]
  OBVIOUS
<1>1. Base(db) /\ Logged(db) /\ Logged(db')  BY DEF LInv, GInv, Logged
<1>2. CASE UNCHANGED vars
  <2>1. db' = db  BY <1>2 DEF vars
  <2>2. QED  BY <2>1
<1>3. CASE Unwritten(db, db')  BY <1>3, UnwrittenLog
<1>4. ASSUME NEW r \in Requests, r.op = "update", r.agent \in DOMAIN db.agents, r.expected \in Nat, Written(db, db', r)
      PROVE  /\ r.agent \in 1..MaxAgents
             /\ LogIn(db') = [LogIn(db) EXCEPT ![r.agent] = Append(@, r.state)]
             /\ CurrentIn(db') = [CurrentIn(db) EXCEPT ![r.agent] = r.state]
  <2>1. r.agent \in 1..MaxAgents
    <3>1. Len(db.agents) \in Nat /\ DOMAIN db.agents = 1..Len(db.agents)
      BY <1>1, TableFacts DEF Base, Tables
    <3>2. Len(db.agents) <= MaxAgents  BY <1>1 DEF Base, Limited, Counted, Capacity
    <3>3. MaxAgents \in Nat  BY GroupStateAssumption
    <3>4. QED  BY <1>4, <3>1, <3>2, <3>3
  <2>2. QED  BY <1>1, <1>4, <2>1, WrittenLog
<1>5. QED  BY <1>1, <1>2, <1>3, <1>4, NextWrites

LEMMA LogInit == Init => Log!Init
<1> SUFFICES ASSUME Init PROVE Log!Init  OBVIOUS
<1>1. db.agents = <<>>  BY DEF Init, Group
<1>2. DOMAIN db.agents = {}  BY <1>1
<1>3. \A a : Revision(a) = 0  BY <1>2 DEF Revision
<1>4. \A a : [n \in 1..Revision(a) |-> StateAt(a, n)] = <<>>
  <2> TAKE a
  <2>1. [n \in 1..0 |-> StateAt(a, n)] = <<>>  OBVIOUS
  <2>2. QED  BY <1>3, <2>1
<1>5. QED  BY <1>2, <1>4 DEF Log!Init

\* StatesChained: every step of a group writes one state after the one its writer had seen, or none
\* (update_agent_state in group_state.py).
THEOREM StatesAreChained == Spec => StatesChained
<1>1. LInv /\ LInv' /\ [Next]_vars => [Log!Next]_<<[a \in 1..MaxAgents |-> [n \in 1..Revision(a) |-> StateAt(a, n)]],
        [a \in 1..MaxAgents |-> IF a \in DOMAIN db.agents THEN db.agents[a].state ELSE ""]>>
  <2> SUFFICES ASSUME LInv, LInv', [Next]_vars
               PROVE  [Log!Next]_<<[a \in 1..MaxAgents |-> [n \in 1..Revision(a) |-> StateAt(a, n)]],
                        [a \in 1..MaxAgents |-> IF a \in DOMAIN db.agents THEN db.agents[a].state ELSE ""]>>
    OBVIOUS
  <2>1. /\ LogIn(db) = [a \in 1..MaxAgents |-> [n \in 1..Revision(a) |-> StateAt(a, n)]]
        /\ LogIn(db') = [a \in 1..MaxAgents |-> [n \in 1..Revision(a) |-> StateAt(a, n)]]'
        /\ CurrentIn(db) = [a \in 1..MaxAgents |-> IF a \in DOMAIN db.agents THEN db.agents[a].state ELSE ""]
        /\ CurrentIn(db') = [a \in 1..MaxAgents |-> IF a \in DOMAIN db.agents THEN db.agents[a].state ELSE ""]'
    BY DEF LogIn, CurrentIn, StatesIn, StateIn, RevisionIn, Revision, StateAt, Updates
  <2>2. \/ LogIn(db') = LogIn(db) /\ CurrentIn(db') = CurrentIn(db)
        \/ \E r \in {r \in Requests : r.op = "update"} :
             /\ r.agent \in 1..MaxAgents
             /\ LogIn(db') = [LogIn(db) EXCEPT ![r.agent] = Append(@, r.state)]
             /\ CurrentIn(db') = [CurrentIn(db) EXCEPT ![r.agent] = r.state]
    BY LogStep
  <2>3. CASE LogIn(db') = LogIn(db) /\ CurrentIn(db') = CurrentIn(db)  BY <2>1, <2>3
  <2>4. ASSUME NEW r \in {r \in Requests : r.op = "update"}, r.agent \in 1..MaxAgents,
               LogIn(db') = [LogIn(db) EXCEPT ![r.agent] = Append(@, r.state)],
               CurrentIn(db') = [CurrentIn(db) EXCEPT ![r.agent] = r.state]
        PROVE  Log!Next
    <3>1. r.state \in {q.state : q \in {q \in Requests : q.op = "update"}}  BY <2>4
    <3> DEFINE L == [a \in 1..MaxAgents |-> [n \in 1..Revision(a) |-> StateAt(a, n)]]
               C == [a \in 1..MaxAgents |-> IF a \in DOMAIN db.agents THEN db.agents[a].state ELSE ""]
    <3>2. L' = [L EXCEPT ![r.agent] = Append(@, r.state)] /\ C' = [C EXCEPT ![r.agent] = r.state]  BY <2>1, <2>4
    <3>3. \E a \in 1..MaxAgents, state \in {q.state : q \in {q \in Requests : q.op = "update"}} :
            /\ Len(L[a]) = Len(L[a]) /\ L' = [L EXCEPT ![a] = Append(@, state)] /\ C' = [C EXCEPT ![a] = state]
      <4> HIDE DEF L, C
      <4>1. QED  BY <2>4, <3>1, <3>2
    <3>4. QED  BY <3>3 DEF Log!Next, Log!Write
  <2>5. QED  BY <2>2, <2>3, <2>4
<1>2. QED  BY <1>1, LogInit, LInvariance, PTL DEF Spec, StatesChained, Log!Spec

-------------------------------------------------------------------------------
(* Keys *)

\* Where a request under a key is recorded, and as what.
Home ==
  [agent |-> "agents", task |-> "tasks", job |-> "jobs", message |-> "messages", claim |-> "publications",
   relate |-> "relationships", review |-> "reviews", artifact |-> "artifacts"]
ClaimBody(r) == [content |-> r.content, source |-> r.source]
ArtifactBody(r) == [content |-> r.content, proof |-> r.proof, source |-> r.source]
AgentRow(r) == [key |-> r.key, body |-> [role |-> r.role], state |-> "", revision |-> 0]
Recorded(r) ==
  CASE r.op = "agent"    -> [role |-> r.role]
    [] r.op = "task"     -> [creator |-> r.creator, owner |-> r.owner, parent |-> r.parent, budget |-> r.budget]
    [] r.op = "job"      -> [task |-> r.task, agent |-> r.agent, cost |-> r.cost, type |-> r.type, graph |-> r.graph]
    [] r.op = "message"  -> [source |-> r.source, text |-> r.text]
    [] r.op = "claim"    -> ClaimBody(r)
    [] r.op = "relate"   -> RelationRow(r.key, r.from, r.to, r.kind, r.source).body
    [] r.op = "review"   -> OpinionRow(r.key, r.relationship, r.reviewer, r.status, r.task, r.job).body
    [] r.op = "artifact" -> ArtifactBody(r)

\* Row i of d records the request r; its answer was id.
RecordedAt(d, r, id, i) ==
  LET t == Home[r.op] IN
  /\ i \in DOMAIN d[t] /\ d[t][i].key = r.key /\ d[t][i].body = Recorded(r)
  /\ IF r.op = "claim" THEN d.publications[i].claim = id ELSE i = id
Given(d, r, id) ==
  /\ r.op \in DOMAIN Home => \E i : RecordedAt(d, r, id, i)
  /\ r.op = "task" => [task |-> id, claim |-> TaskClaim(r), action |-> r.action] \in d.focus
  /\ r.op = "update" => id = r.expected + 1 /\ Update(r) \in d.updates
  /\ r.op = "close" => id = r.task
  /\ r.op = "opinion" => id = r.message
  /\ r.op = "link" => id = r.id

LEMMA HomeTables == \A op \in DOMAIN Home : Home[op] \in Tables \ {"claims"} /\ Home[op] \in Mutable \cup Records
BY DEF Home, Tables, Mutable, Records

LEMMA GivenKept ==
  ASSUME NEW d, NEW e, Kept(d, e), NEW r, NEW id, Given(d, r, id)
  PROVE  Given(e, r, id)
<1>1. d.updates \subseteq e.updates /\ d.focus \subseteq e.focus  BY DEF Kept, KeptSets
<1>2. ASSUME r.op \in DOMAIN Home, NEW i, RecordedAt(d, r, id, i) PROVE RecordedAt(e, r, id, i)
  <2> DEFINE t == Home[r.op]
  <2>1. i \in DOMAIN d[t] /\ d[t][i].key = r.key /\ d[t][i].body = Recorded(r)  BY <1>2 DEF RecordedAt
  <2>2. t \in Mutable \cup Records  BY <1>2, HomeTables
  <2>3. r.op = "claim" => t = "publications" /\ "publications" \in Records  BY DEF Home, Records
  <2> HIDE DEF t
  <2>4. i \in DOMAIN e[t] /\ e[t][i].key = r.key /\ e[t][i].body = Recorded(r)
    <3>1. CASE t \in Mutable  BY <2>1, <3>1 DEF Kept, KeptRows
    <3>2. CASE t \in Records  BY <2>1, <3>2 DEF Kept, KeptRecords
    <3>3. QED  BY <2>2, <3>1, <3>2
  <2>5. CASE r.op = "claim"
    <3>1. i \in DOMAIN d["publications"] /\ e["publications"][i] = d["publications"][i]
      BY <2>1, <2>3, <2>5 DEF Kept, KeptRecords
    <3>2. d.publications[i].claim = id  BY <1>2, <2>5 DEF RecordedAt
    <3>3. QED  BY <2>4, <2>5, <3>1, <3>2 DEF RecordedAt, t
  <2>6. CASE r.op # "claim"
    <3>1. i = id  BY <1>2, <2>6 DEF RecordedAt
    <3>2. QED  BY <2>4, <2>6, <3>1 DEF RecordedAt, t
  <2>7. QED  BY <2>5, <2>6
<1>3. r.op \in DOMAIN Home => \E i : RecordedAt(e, r, id, i)  BY <1>2 DEF Given
<1>4. QED  BY <1>1, <1>3 DEF Given

LEMMA InsertGiven ==
  ASSUME NEW d, Formed(d), NEW t \in Tables, NEW row, NEW limit, Insert(d, t, row, limit).ok
  PROVE  LET q == Insert(d, t, row, limit) IN
         /\ Formed(q.db) /\ q.id \in DOMAIN q.db[t]
         /\ q.db[t][q.id].key = row.key /\ q.db[t][q.id].body = row.body
<1> DEFINE q == Insert(d, t, row, limit)
<1>1. \/ q.db = d /\ q.id \in Keyed(d, t, row.key) /\ d[t][q.id].body = row.body
      \/ q.db = Add(d, t, row) /\ q.id = Len(d[t]) + 1
  BY InsertFacts
<1> HIDE DEF q
<1>2. Formed(Add(d, t, row)) /\ Grew(d, Add(d, t, row), t, row)  BY AddFacts
<1>3. QED  BY <1>1, <1>2 DEF Grew, Keyed, q

LEMMA EnteredGiven ==
  ASSUME NEW d, NEW q, NEW t, NEW row, NEW limit, Entered(d, q, t, row, limit)
  PROVE  q.id \in DOMAIN q.db[t] /\ q.db[t][q.id].key = row.key /\ q.db[t][q.id].body = row.body
BY DEF Entered, Grew, Keyed

\* Each request is recorded where its answer says.
Answers(r) == \E id : answers' = answers \cup {[request |-> r, id |-> id]} /\ Given(db', r, id)

LEMMA AgentGiven == ASSUME Base(db), NEW r, AddAgent(r) PROVE Answers(r)
<1> DEFINE q == AddedAgent(db, r)
<1>1. r.op = "agent" /\ q.ok /\ db' = q.db /\ answers' = answers \cup {[request |-> r, id |-> q.id]}
  BY DEF AddAgent, Commit
<1>2. q = Insert(db, "agents", AgentRow(r), MaxAgents)  BY DEF AddedAgent, AgentRow
<1>3. AgentRow(r).key = r.key /\ AgentRow(r).body = [role |-> r.role]  BY DEF AgentRow
<1> HIDE DEF q
<1>4. q.id \in DOMAIN db'["agents"] /\ db'["agents"][q.id].key = r.key /\ db'["agents"][q.id].body = [role |-> r.role]
  BY <1>1, <1>2, <1>3, InsertGiven DEF Base, Tables
<1>5. Home[r.op] = "agents" /\ Recorded(r) = [role |-> r.role]  BY <1>1 DEF Home, Recorded
<1>6. RecordedAt(db', r, q.id, q.id)  BY <1>1, <1>4, <1>5 DEF RecordedAt
<1>7. Given(db', r, q.id)  BY <1>1, <1>6 DEF Given
<1>8. QED  BY <1>1, <1>7 DEF Answers

LEMMA UpdateGiven == ASSUME Base(db), NEW r, UpdateState(r) PROVE Answers(r)
<1> DEFINE q == UpdatedState(db, r)
<1>1. r.op = "update" /\ q.ok /\ db' = q.db /\ answers' = answers \cup {[request |-> r, id |-> q.id]}
  BY DEF UpdateState, Commit
<1>2. q.id = r.expected + 1 /\ ((q.db = db /\ Update(r) \in db.updates) \/ Written(db, q.db, r))  BY <1>1, UpdateFacts
<1> HIDE DEF q
<1>3. Update(r) \in db'.updates  BY <1>1, <1>2 DEF Written
<1>4. r.op \notin DOMAIN Home  BY <1>1 DEF Home
<1>5. Given(db', r, q.id)  BY <1>1, <1>2, <1>3, <1>4 DEF Given
<1>6. QED  BY <1>1, <1>5 DEF Answers

LEMMA TaskGiven == ASSUME Base(db), NEW r, AddTask(r) PROVE Answers(r)
<1> DEFINE put == Insert(db, "tasks", TaskRow(db, r), MaxTasks)
           p   == put.db
           m   == IF Keyed(db, "tasks", r.key) = {} THEN Take(p, r.budget) ELSE p
           q   == AttachTask(m, put.id, TaskClaim(r), r.action)
           focus == [task |-> put.id, claim |-> TaskClaim(r), action |-> r.action]
<1>1. r.op = "task" /\ AddedTask(db, r).ok  BY DEF AddTask, Commit
<1>2. put.ok /\ q.ok /\ AddedTask(db, r) = q  BY <1>1, AddedTaskIs
<1>3. db' = q.db /\ answers' = answers \cup {[request |-> r, id |-> q.id]}
  <2> HIDE DEF q
  <2>1. QED  BY <1>2 DEF AddTask, Commit
<1>4. TaskRow(db, r).key = r.key /\ TaskRow(db, r).body = Recorded(r)
  BY <1>1 DEF TaskRow, Recorded
<1>5. /\ Formed(p) /\ put.id \in DOMAIN p.tasks
      /\ p.tasks[put.id].key = r.key /\ p.tasks[put.id].body = Recorded(r)
  <2> DEFINE row == TaskRow(db, r)
  <2>1. row.key = r.key /\ row.body = Recorded(r) /\ Formed(db) /\ "tasks" \in Tables  BY <1>4 DEF Base, Tables
  <2> HIDE DEF row
  <2>2. Insert(db, "tasks", row, MaxTasks).ok  BY <1>2 DEF row
  <2>3. LET o == Insert(db, "tasks", row, MaxTasks) IN
        /\ Formed(o.db) /\ o.id \in DOMAIN o.db["tasks"]
        /\ o.db["tasks"][o.id].key = row.key /\ o.db["tasks"][o.id].body = row.body
    BY <2>1, <2>2, InsertGiven
  <2>4. QED  BY <2>1, <2>3 DEF row
<1> HIDE DEF put
<1>6. IsRecord(m) /\ m.tasks = p.tasks
  <2>1. IsRecord(p)  BY <1>5 DEF Formed, IsRecord
  <2> HIDE DEF p
  <2>2. IsRecord(Take(p, r.budget)) /\ Take(p, r.budget).tasks = p.tasks  BY <2>1 DEF Take, IsRecord, Fields
  <2>3. QED  BY <2>1, <2>2
<1> HIDE DEF m, p
<1>7. (q.db = m /\ focus \in m.focus) \/ q.db = Raise([m EXCEPT !.focus = @ \cup {focus}])
  BY <1>2 DEF AttachTask, Done, Conflict
<1>8. q.id = put.id  BY <1>2 DEF AttachTask, Done, Conflict
<1> HIDE DEF q, focus
<1>9. LET f == Raise([m EXCEPT !.focus = @ \cup {focus}]) IN f.tasks = m.tasks /\ focus \in f.focus
  BY <1>6 DEF Raise, IsRecord, Fields
<1>10. db'.tasks = p.tasks /\ focus \in db'.focus  BY <1>3, <1>6, <1>7, <1>9
<1>11. Home[r.op] = "tasks"  BY <1>1 DEF Home
<1>12. RecordedAt(db', r, q.id, q.id)  BY <1>1, <1>5, <1>8, <1>10, <1>11 DEF RecordedAt
<1>13. Given(db', r, q.id)  BY <1>1, <1>8, <1>10, <1>12 DEF Given, focus
<1>14. QED  BY <1>3, <1>13 DEF Answers

LEMMA CloseGiven == ASSUME Base(db), NEW r, CloseTask(r) PROVE Answers(r)
<1> DEFINE q == ClosedTask(db, r.task, r.status)
<1>1. r.op = "close" /\ q.ok /\ answers' = answers \cup {[request |-> r, id |-> q.id]}  BY DEF CloseTask, Commit
<1>2. q.id = r.task  BY <1>1, CloseUnwritten
<1>3. Given(db', r, q.id)  BY <1>1, <1>2 DEF Given, Home
<1>4. QED  BY <1>1, <1>3 DEF Answers

LEMMA OpinionGiven == ASSUME Base(db), NEW r, ReviewMessage(r) PROVE Answers(r)
<1> DEFINE q == ReviewedMessage(db, r)
<1>1. r.op = "opinion" /\ q.ok /\ answers' = answers \cup {[request |-> r, id |-> q.id]}  BY DEF ReviewMessage, Commit
<1>2. q.id = r.message  BY <1>1, ReviewedUnwritten
<1>3. Given(db', r, q.id)  BY <1>1, <1>2 DEF Given, Home
<1>4. QED  BY <1>1, <1>3 DEF Answers

LEMMA LinkGiven == ASSUME Base(db), NEW r, LinkEvidence(r) PROVE Answers(r)
<1> DEFINE q == AttachEvidence(db, r.kind, r.id, r.claim)
<1>1. r.op = "link" /\ q.ok /\ answers' = answers \cup {[request |-> r, id |-> q.id]}  BY DEF LinkEvidence, Commit
<1>2. q.id = r.id  BY <1>1 DEF AttachEvidence, Done, Conflict
<1>3. Given(db', r, q.id)  BY <1>1, <1>2 DEF Given, Home
<1>4. QED  BY <1>1, <1>3 DEF Answers

LEMMA JobGiven == ASSUME Base(db), NEW r, EnqueueJob(r) PROVE Answers(r)
<1>1. PICK shown : /\ r.op = "job" /\ EnqueuedJob(db, r, shown).ok /\ db' = EnqueuedJob(db, r, shown).db
                   /\ answers' = answers \cup {[request |-> r, id |-> EnqueuedJob(db, r, shown).id]}
  BY DEF EnqueueJob, Commit
<1> DEFINE row == JobRow(r, shown)
           put == Insert(db, "jobs", row, MaxWork + 1)
           m   == put.db
<1>2. put.ok /\ EnqueuedJob(db, r, shown).id = put.id /\ (db' = m \/ db' = Reserve(m, r.task, r.cost))
  BY <1>1, EnqueuedJobIs
<1>3. row.key = r.key /\ row.body = Recorded(r)  BY <1>1 DEF JobRow, Recorded
<1> HIDE DEF row
<1>4. Formed(m) /\ put.id \in DOMAIN m["jobs"] /\ m["jobs"][put.id].key = r.key /\ m["jobs"][put.id].body = Recorded(r)
  BY <1>2, <1>3, InsertGiven DEF Base, Tables
<1> HIDE DEF m
<1>5. Same(m, Reserve(m, r.task, r.cost), {"tasks", "revision"})  BY <1>4, ReserveFacts DEF Charges
<1>6. db'["jobs"] = m["jobs"]  BY <1>2, <1>5 DEF Same, Fields
<1>7. Home[r.op] = "jobs"  BY <1>1 DEF Home
<1>8. RecordedAt(db', r, put.id, put.id)  BY <1>1, <1>4, <1>6, <1>7 DEF RecordedAt
<1>9. Given(db', r, put.id)  BY <1>1, <1>8 DEF Given
<1>10. QED  BY <1>1, <1>2, <1>9 DEF Answers

LEMMA MessageGiven == ASSUME Base(db), NEW r, AddMessage(r) PROVE Answers(r)
<1> DEFINE row == MessageRow(r.key, r.source, r.text)
           put == Insert(db, "messages", row, MaxMessages)
           q   == AddedMessage(db, r)
<1>1. r.op = "message" /\ q.ok /\ db' = q.db /\ answers' = answers \cup {[request |-> r, id |-> q.id]}
  BY DEF AddMessage, Commit
<1>2. put.ok /\ q.id = put.id /\ q.db.messages = put.db.messages  BY <1>1, MessageUnwritten
<1>3. row.key = r.key /\ row.body = Recorded(r)  BY <1>1 DEF MessageRow, Recorded
<1> HIDE DEF row, q
<1>4. /\ put.id \in DOMAIN put.db["messages"] /\ put.db["messages"][put.id].key = r.key
      /\ put.db["messages"][put.id].body = Recorded(r)
  BY <1>2, <1>3, InsertGiven DEF Base, Tables
<1> HIDE DEF put
<1>5. Home[r.op] = "messages" /\ db'["messages"] = put.db["messages"]  BY <1>1, <1>2 DEF Home
<1>6. RecordedAt(db', r, q.id, q.id)  BY <1>1, <1>2, <1>4, <1>5 DEF RecordedAt
<1>7. Given(db', r, q.id)  BY <1>1, <1>6 DEF Given
<1>8. QED  BY <1>1, <1>7 DEF Answers

LEMMA ClaimGiven == ASSUME Base(db), NEW r, ProposeClaim(r) PROVE Answers(r)
<1> DEFINE q == InsertClaim(db, r.key, r.content, r.source)
           row == [key |-> r.key, body |-> [content |-> r.content, source |-> r.source], claim |-> q.id]
<1>1. r.op = "claim" /\ q.ok /\ db' = q.db /\ answers' = answers \cup {[request |-> r, id |-> q.id]}
  BY DEF ProposeClaim, Commit
<1>2. \/ q.db = db /\ \E p \in Keyed(db, "publications", r.key) : db.publications[p].body = row.body /\ q.id = db.publications[p].claim
      \/ Grew(db, q.db, "publications", row)
  <2>1. Formed(db)  BY DEF Base
  <2>2. QED  BY <1>1, <2>1, InsertClaimFacts
<1>3. row.key = r.key /\ row.body = Recorded(r) /\ row.claim = q.id  BY <1>1 DEF Recorded, ClaimBody
<1> HIDE DEF row, q
<1>4. \E i \in DOMAIN db'["publications"] :
        db'["publications"][i].key = r.key /\ db'["publications"][i].body = Recorded(r) /\ db'["publications"][i].claim = q.id
  <2>1. CASE q.db = db /\ \E p \in Keyed(db, "publications", r.key) : db.publications[p].body = row.body /\ q.id = db.publications[p].claim
    BY <1>1, <1>3, <2>1 DEF Keyed
  <2>2. CASE Grew(db, q.db, "publications", row)
    <3>1. Len(db["publications"]) + 1 \in DOMAIN db'["publications"]  BY <1>1, <2>2 DEF Grew
    <3>2. db'["publications"][Len(db["publications"]) + 1] = row  BY <1>1, <2>2 DEF Grew
    <3>3. QED  BY <1>3, <3>1, <3>2
  <2>3. QED  BY <1>2, <2>1, <2>2
<1>5. Home[r.op] = "publications"  BY <1>1 DEF Home
<1>6. \E i : RecordedAt(db', r, q.id, i)  BY <1>1, <1>4, <1>5 DEF RecordedAt
<1>7. Given(db', r, q.id)  BY <1>1, <1>6 DEF Given
<1>8. QED  BY <1>1, <1>7 DEF Answers

LEMMA RelateGiven == ASSUME Base(db), NEW r, Relate(r) PROVE Answers(r)
<1> DEFINE q == ProposeRelationship(db, r.key, r.from, r.to, r.kind, r.source)
           row == RelationRow(r.key, r.from, r.to, r.kind, r.source)
<1>1. r.op = "relate" /\ q.ok /\ db' = q.db /\ answers' = answers \cup {[request |-> r, id |-> q.id]}
  BY DEF Relate, Commit
<1>2. Entered(db, q, "relationships", row, MaxRelationships)  BY <1>1, ProposeFacts DEF Base
<1>3. row.key = r.key /\ row.body = Recorded(r)  BY <1>1 DEF RelationRow, Recorded
<1> HIDE DEF row, q
<1>4. q.id \in DOMAIN q.db["relationships"] /\ q.db["relationships"][q.id].key = row.key /\ q.db["relationships"][q.id].body = row.body
  BY <1>2, EnteredGiven
<1>5. Home[r.op] = "relationships"  BY <1>1 DEF Home
<1>6. RecordedAt(db', r, q.id, q.id)  BY <1>1, <1>3, <1>4, <1>5 DEF RecordedAt
<1>7. Given(db', r, q.id)  BY <1>1, <1>6 DEF Given
<1>8. QED  BY <1>1, <1>7 DEF Answers

LEMMA ReviewGiven == ASSUME Base(db), NEW r, Review(r) PROVE Answers(r)
<1> DEFINE q == ReviewRelationship(db, r.key, r.relationship, r.reviewer, r.status, r.task, r.job)
           row == OpinionRow(r.key, r.relationship, r.reviewer, r.status, r.task, r.job)
<1>1. r.op = "review" /\ q.ok /\ db' = q.db /\ answers' = answers \cup {[request |-> r, id |-> q.id]}
  BY DEF Review, Commit
<1>2. Entered(db, q, "reviews", row, MaxReviews)  BY <1>1, ReviewFacts DEF Base
<1>3. row.key = r.key /\ row.body = Recorded(r)  BY <1>1 DEF OpinionRow, Recorded
<1> HIDE DEF row, q
<1>4. q.id \in DOMAIN q.db["reviews"] /\ q.db["reviews"][q.id].key = row.key /\ q.db["reviews"][q.id].body = row.body
  BY <1>2, EnteredGiven
<1>5. Home[r.op] = "reviews"  BY <1>1 DEF Home
<1>6. RecordedAt(db', r, q.id, q.id)  BY <1>1, <1>3, <1>4, <1>5 DEF RecordedAt
<1>7. Given(db', r, q.id)  BY <1>1, <1>6 DEF Given
<1>8. QED  BY <1>1, <1>7 DEF Answers

LEMMA ArtifactAnswer ==
  ASSUME NEW d, Formed(d), NEW key, NEW content, NEW proof, NEW source, InsertArtifact(d, key, content, proof, source).ok
  PROVE  LET q   == InsertArtifact(d, key, content, proof, source)
             row == [key |-> key, body |-> [content |-> content, proof |-> proof, source |-> source]]
             put == Insert(d, "artifacts", row, MaxArtifacts)
         IN put.ok /\ q.id = put.id /\ q.db["artifacts"] = put.db["artifacts"]
<1> DEFINE row == [key |-> key, body |-> [content |-> content, proof |-> proof, source |-> source]]
           put == Insert(d, "artifacts", row, MaxArtifacts)
           tag == <<"artifact", put.id, "">>
           pub == InsertClaim(put.db, tag, content, source)
           q   == InsertArtifact(d, key, content, proof, source)
<1>1. put.ok  BY DEF InsertArtifact, Conflict, Then
<1>2. q = put \/ q = IF pub.ok THEN AttachEvidence(pub.db, "artifacts", put.id, pub.id) ELSE Conflict
  BY <1>1 DEF InsertArtifact, Conflict, Then
<1>3. q.ok  OBVIOUS
<1>4. Formed(put.db)  BY <1>1, InsertGiven DEF Tables
<1> HIDE DEF q, put
<1>5. CASE q = put  BY <1>1, <1>5 DEF q, put
<1>6. CASE q = IF pub.ok THEN AttachEvidence(pub.db, "artifacts", put.id, pub.id) ELSE Conflict
  <2>1. pub.ok /\ q = AttachEvidence(pub.db, "artifacts", put.id, pub.id)
    <3> HIDE DEF pub
    <3>1. ~ Conflict.ok  BY DEF Conflict
    <3>2. QED  BY <1>3, <1>6, <3>1
  <2> HIDE DEF tag
  <2>2. \/ pub.db = put.db
        \/ Formed(pub.db) /\ Same(put.db, pub.db, {"publications", "revision"})
        \/ Formed(pub.db) /\ Same(put.db, pub.db, {"publications", "claims", "revision"})
    BY <1>4, <2>1, InsertClaimFacts
  <2> HIDE DEF pub
  <2>3. Formed(pub.db) /\ pub.db["artifacts"] = put.db["artifacts"]  BY <1>4, <2>2 DEF Same, Fields
  <2>4. q.db = pub.db \/ Same(pub.db, q.db, {"revision", "links"})
    BY <1>3, <2>1, <2>3, AttachFacts DEF LinkKinds
  <2>5. q.id = put.id  BY <1>3, <2>1 DEF AttachEvidence, Done, Conflict
  <2>6. q.db["artifacts"] = put.db["artifacts"]  BY <2>3, <2>4 DEF Same, Fields
  <2>7. QED  BY <1>1, <2>5, <2>6 DEF q, put
<1>7. QED  BY <1>2, <1>5, <1>6

LEMMA ArtifactGiven == ASSUME Base(db), NEW r, ProposeArtifact(r) PROVE Answers(r)
<1> DEFINE q == InsertArtifact(db, r.key, r.content, r.proof, r.source)
           row == [key |-> r.key, body |-> [content |-> r.content, proof |-> r.proof, source |-> r.source]]
           put == Insert(db, "artifacts", row, MaxArtifacts)
<1>1. r.op = "artifact" /\ q.ok /\ db' = q.db /\ answers' = answers \cup {[request |-> r, id |-> q.id]}
  BY DEF ProposeArtifact, Commit
<1>2. put.ok /\ q.id = put.id /\ q.db["artifacts"] = put.db["artifacts"]  BY <1>1, ArtifactAnswer DEF Base
<1>3. row.key = r.key /\ row.body = Recorded(r)  BY <1>1 DEF ArtifactBody, Recorded
<1> HIDE DEF row, q
<1>4. /\ put.id \in DOMAIN put.db["artifacts"] /\ put.db["artifacts"][put.id].key = r.key
      /\ put.db["artifacts"][put.id].body = Recorded(r)
  BY <1>2, <1>3, InsertGiven DEF Base, Tables
<1> HIDE DEF put
<1>5. Home[r.op] = "artifacts"  BY <1>1 DEF Home
<1>6. RecordedAt(db', r, q.id, q.id)  BY <1>1, <1>2, <1>4, <1>5 DEF RecordedAt
<1>7. Given(db', r, q.id)  BY <1>1, <1>6 DEF Given
<1>8. QED  BY <1>1, <1>7 DEF Answers

\* What an answer said stays so.
AInv == LInv /\ \A a \in answers : a.request \in Requests /\ Given(db, a.request, a.id)

LEMMA ServeAnswers ==
  ASSUME Base(db), Serve
  PROVE  \E r \in Requests : Answers(r)
<1>1. PICK r \in Requests :
        \/ AddAgent(r) \/ UpdateState(r) \/ AddTask(r) \/ CloseTask(r) \/ EnqueueJob(r) \/ AddMessage(r)
        \/ ReviewMessage(r) \/ ProposeClaim(r) \/ LinkEvidence(r) \/ Relate(r) \/ Review(r) \/ ProposeArtifact(r)
  BY DEF Serve
<1>2. Answers(r)
  BY <1>1, AgentGiven, UpdateGiven, TaskGiven, CloseGiven, JobGiven, MessageGiven, OpinionGiven, ClaimGiven, LinkGiven,
     RelateGiven, ReviewGiven, ArtifactGiven
<1>3. QED  BY <1>2

LEMMA NextAInv == AInv /\ [Next]_vars => AInv'
<1> SUFFICES ASSUME AInv, [Next]_vars PROVE AInv'  OBVIOUS
<1>1. LInv /\ LInv' /\ Base(db)  BY NextLInv DEF AInv, LInv, GInv
<1>2. Formed(db)  BY <1>1 DEF Base
<1>3. Kept(db, db')
  <2>1. CASE Next  BY <1>1, <2>1, NextGood DEF Good, Sound
  <2>2. CASE UNCHANGED vars
    <3>1. db' = db  BY <2>2 DEF vars
    <3>2. Kept(db, db)  BY <1>2, KeptSelf
    <3>3. QED  BY <3>1, <3>2
  <2>3. QED  BY <2>1, <2>2
<1>4. \A a \in answers : a.request \in Requests /\ Given(db', a.request, a.id)  BY <1>3, GivenKept DEF AInv
<1>5. answers' = answers \/ \E r \in Requests : Answers(r)
  <2>1. CASE Serve  BY <1>1, <2>1, ServeAnswers
  <2>2. CASE Workers  BY <2>2 DEF Workers, LeaseJob, RetryJob, IngestAgain, CompleteJob
  <2>3. CASE Stop  BY <2>3 DEF Stop
  <2>4. QED  BY <2>1, <2>2, <2>3 DEF Next, vars
<1>6. \A a \in answers' : a.request \in Requests /\ Given(db', a.request, a.id)
  <2>1. CASE answers' = answers  BY <1>4, <2>1
  <2>2. ASSUME NEW r \in Requests, NEW id, answers' = answers \cup {[request |-> r, id |-> id]}, Given(db', r, id)
        PROVE  \A a \in answers' : a.request \in Requests /\ Given(db', a.request, a.id)
    <3> DEFINE b == [request |-> r, id |-> id]
    <3>1. b.request = r /\ b.id = id  OBVIOUS
    <3>2. answers' = answers \cup {b}  BY <2>2
    <3> HIDE DEF b
    <3>3. QED  BY <1>4, <2>2, <3>1, <3>2
  <2>3. QED  BY <1>5, <2>1, <2>2 DEF Answers
<1>7. (\A a \in answers : a.request \in Requests /\ Given(db, a.request, a.id))'
  BY <1>6 DEF Given, RecordedAt
<1>8. QED  BY <1>1, <1>7 DEF AInv

LEMMA AInvariance == Spec => []AInv
<1>1. Init => AInv  BY InitLInv DEF Init, AInv
<1>2. QED  BY <1>1, NextAInv, PTL DEF Spec

LEMMA MeantFacts ==
  ASSUME NEW r \in Requests
  PROVE  /\ Meant(r).op = r.op /\ Meant(r).key = r.key /\ (r.op # "task" => Meant(r) = r)
         /\ r.op = "task" => Meant(r) = [r EXCEPT !.claim = TaskClaim(r)]
<1>1. CASE r.op # "task"  BY <1>1 DEF Meant
<1>2. CASE r.op = "task"
  <2>1. r = [f \in {"creator", "owner", "parent", "budget", "claim", "action", "op", "key"} |-> r[f]]
    <3> DEFINE F == {"creator", "owner", "parent", "budget", "claim", "action", "op", "key"}
    <3>1. Asking[r.op] \cup {"op", "key"} = F  BY <1>2 DEF Asking
    <3>2. r = [f \in Asking[r.op] \cup {"op", "key"} |-> r[f]]  BY RequestAssumption
    <3> HIDE DEF F
    <3>3. r = [f \in F |-> r[f]]  BY <3>1, <3>2
    <3>4. QED  BY <3>3 DEF F
  <2>2. r.claim # None => r = [r EXCEPT !.claim = r.claim]  BY <2>1
  <2>3. Meant(r) = [r EXCEPT !.claim = TaskClaim(r)]  BY <1>2, <2>2 DEF Meant, TaskClaim
  <2>4. [r EXCEPT !.claim = TaskClaim(r)].op = r.op /\ [r EXCEPT !.claim = TaskClaim(r)].key = r.key  BY <2>1
  <2>5. QED  BY <1>2, <2>3, <2>4
<1>3. QED  BY <1>1, <1>2

\* Two requests whose parts are the same are one.
LEMMA SameParts ==
  ASSUME NEW q \in Requests, NEW r \in Requests, q.op = r.op, q.key = r.key, \A f \in Asking[r.op] : q[f] = r[f]
  PROVE  q = r
<1> DEFINE F == Asking[r.op] \cup {"op", "key"}
<1>1. q = [f \in F |-> q[f]] /\ r = [f \in F |-> r[f]]  BY RequestAssumption
<1>2. \A f \in F : q[f] = r[f]  OBVIOUS
<1> HIDE DEF F
<1>3. [f \in F |-> q[f]] = [f \in F |-> r[f]]  BY <1>2
<1>4. QED  BY <1>1, <1>3

LEMMA SameRequest ==
  ASSUME NEW q \in Requests, NEW r \in Requests, q.op = r.op, q.key = r.key, r.op \in DOMAIN Home,
         Recorded(q) = Recorded(r), r.op = "task" => TaskClaim(q) = TaskClaim(r) /\ q.action = r.action
  PROVE  Meant(q) = Meant(r)
<1>1. r.op \in {"agent", "task", "job", "message", "claim", "relate", "review", "artifact"}  BY DEF Home
<1>2. CASE r.op = "task"
  <2> DEFINE F == {"creator", "owner", "parent", "budget", "claim", "action", "op", "key"}
             p == [q EXCEPT !.claim = TaskClaim(q)]
             s == [r EXCEPT !.claim = TaskClaim(r)]
  <2>1. q = [f \in F |-> q[f]] /\ r = [f \in F |-> r[f]]
    <3>1. Asking[r.op] \cup {"op", "key"} = F  BY <1>2 DEF Asking
    <3>2. /\ q = [f \in Asking[r.op] \cup {"op", "key"} |-> q[f]]
          /\ r = [f \in Asking[r.op] \cup {"op", "key"} |-> r[f]]
      BY RequestAssumption
    <3> HIDE DEF F
    <3>3. QED  BY <3>1, <3>2
  <2>2. q.creator = r.creator /\ q.owner = r.owner /\ q.parent = r.parent /\ q.budget = r.budget
    BY <1>2 DEF Recorded
  <2>3. DOMAIN p = F /\ DOMAIN s = F /\ p = [f \in F |-> p[f]] /\ s = [f \in F |-> s[f]]  BY <2>1
  <2>4. \A f \in F : p[f] = s[f]  BY <1>2, <2>1, <2>2
  <2> HIDE DEF F, p, s
  <2>5. p = s  BY <2>3, <2>4
  <2>6. QED  BY <1>2, <2>5, MeantFacts DEF p, s
<1>3. CASE r.op # "task"
  <2>1. r.op = "agent" => \A f \in Asking[r.op] : q[f] = r[f]  BY DEF Recorded, Asking
  <2>2. r.op = "job" => \A f \in Asking[r.op] : q[f] = r[f]  BY DEF Recorded, Asking
  <2>3. r.op = "message" => \A f \in Asking[r.op] : q[f] = r[f]  BY DEF Recorded, Asking
  <2>4. r.op = "claim" => \A f \in Asking[r.op] : q[f] = r[f]  BY DEF Recorded, Asking, ClaimBody
  <2>5. r.op = "relate" => \A f \in Asking[r.op] : q[f] = r[f]  BY DEF Recorded, Asking, RelationRow
  <2>6. r.op = "review" => \A f \in Asking[r.op] : q[f] = r[f]  BY DEF Recorded, Asking, OpinionRow
  <2>7. r.op = "artifact" => \A f \in Asking[r.op] : q[f] = r[f]  BY DEF Recorded, Asking, ArtifactBody
  <2>8. \A f \in Asking[r.op] : q[f] = r[f]  BY <1>1, <1>3, <2>1, <2>2, <2>3, <2>4, <2>5, <2>6, <2>7
  <2>9. QED  BY <1>3, <2>8, SameParts
<1>4. QED  BY <1>2, <1>3

\* Requests under one key are recorded in one row.
LEMMA SameRow ==
  ASSUME NEW d, KeyOnce(d), NEW q \in Requests, NEW r \in Requests, q.op = r.op, q.key = r.key, r.op \in DOMAIN Home,
         NEW m, NEW n, Given(d, q, m), Given(d, r, n)
  PROVE  m = n /\ Recorded(q) = Recorded(r)
<1> DEFINE t == Home[r.op]
<1>1. PICK i : RecordedAt(d, q, m, i)  BY DEF Given
<1>2. PICK j : RecordedAt(d, r, n, j)  BY DEF Given
<1>3. t \in Tables \ {"claims"}  BY HomeTables
<1>4. ~ FromBatch(r.key)  BY RequestAssumption DEF FromBatch
<1>5. r.op = "claim" => t = "publications"  BY DEF Home
<1> HIDE DEF t
<1>6. /\ i \in DOMAIN d[t] /\ d[t][i].key = r.key /\ d[t][i].body = Recorded(q)
      /\ IF r.op = "claim" THEN d.publications[i].claim = m ELSE i = m
  BY <1>1 DEF RecordedAt, t
<1>7. /\ j \in DOMAIN d[t] /\ d[t][j].key = r.key /\ d[t][j].body = Recorded(r)
      /\ IF r.op = "claim" THEN d.publications[j].claim = n ELSE j = n
  BY <1>2 DEF RecordedAt, t
<1>8. i = j  BY <1>3, <1>4, <1>6, <1>7 DEF KeyOnce
<1>9. QED  BY <1>6, <1>7, <1>8

LEMMA InvKeys == AInv => KeyNamesOneThing
<1> SUFFICES ASSUME AInv, NEW a \in answers, NEW b \in answers
             PROVE  LET q == a.request  r == b.request IN
                    /\ Meant(q) = Meant(r) => a.id = b.id
                    /\ q.op = r.op /\ q.key = r.key /\ (q.op = "update" => q.agent = r.agent)
                       => Meant(q) = Meant(r) \/ q.op \in {"close", "link", "opinion"}
  BY DEF KeyNamesOneThing
<1> DEFINE q == a.request  r == b.request  m == a.id  n == b.id
<1>1. q \in Requests /\ r \in Requests /\ Given(db, q, m) /\ Given(db, r, n)  BY DEF AInv
<1>2. KeyOnce(db) /\ Focused(db) /\ Logged(db)  BY DEF AInv, LInv, GInv, Base
<1>3. r.op \in DOMAIN Home \cup {"update", "close", "opinion", "link"}  BY <1>1, RequestAssumption DEF Asking, Home
<1> HIDE DEF q, r, m, n
<1>4. ASSUME Meant(q) = Meant(r) PROVE m = n
  <2>1. q.op = r.op /\ q.key = r.key /\ (r.op # "task" => q = r)  BY <1>1, <1>4, MeantFacts
  <2>2. CASE r.op \in DOMAIN Home  BY <1>1, <1>2, <2>1, <2>2, SameRow
  <2>3. CASE r.op \in {"update", "close", "opinion", "link"}  BY <1>1, <2>1, <2>3 DEF Given
  <2>4. QED  BY <1>3, <2>2, <2>3
<1>5. ASSUME q.op = r.op, q.key = r.key, q.op = "update" => q.agent = r.agent
      PROVE  Meant(q) = Meant(r) \/ q.op \in {"close", "link", "opinion"}
  <2>1. CASE r.op \in DOMAIN Home
    <3>1. m = n /\ Recorded(q) = Recorded(r)  BY <1>1, <1>2, <1>5, <2>1, SameRow
    <3>2. ASSUME r.op = "task" PROVE TaskClaim(q) = TaskClaim(r) /\ q.action = r.action
      <4> DEFINE f == [task |-> m, claim |-> TaskClaim(q), action |-> q.action]
                 g == [task |-> n, claim |-> TaskClaim(r), action |-> r.action]
      <4>1. f \in db.focus /\ g \in db.focus  BY <1>1, <1>5, <3>2 DEF Given
      <4>2. f = g  BY <1>2, <3>1, <4>1 DEF Focused
      <4>3. f.claim = TaskClaim(q) /\ f.action = q.action /\ g.claim = TaskClaim(r) /\ g.action = r.action  OBVIOUS
      <4> HIDE DEF f, g
      <4>4. QED  BY <4>2, <4>3
    <3>3. QED  BY <1>1, <1>5, <2>1, <3>1, <3>2, SameRequest
  <2>2. CASE r.op = "update"
    <3>1. Update(q) \in db.updates /\ Update(r) \in db.updates  BY <1>1, <1>5, <2>2 DEF Given
    <3>2. Update(q).agent = Update(r).agent /\ Update(q).key = Update(r).key  BY <1>5, <2>2 DEF Update
    <3>3. Update(q) = Update(r)  BY <1>2, <3>1, <3>2 DEF Logged
    <3>4. q.state = r.state /\ q.expected + 1 = r.expected + 1  BY <3>3 DEF Update
    <3>5. q.expected \in Nat /\ r.expected \in Nat  BY <1>1, <1>5, <2>2, RequestAssumption
    <3>6. \A f \in Asking[r.op] : q[f] = r[f]  BY <1>5, <2>2, <3>4, <3>5 DEF Asking
    <3>7. QED  BY <1>1, <1>5, <3>6, SameParts
  <2>3. CASE r.op \in {"close", "opinion", "link"}  BY <1>5, <2>3
  <2>4. QED  BY <1>3, <2>1, <2>2, <2>3
<1>6. QED  BY <1>4, <1>5 DEF q, r, m, n

\* Whoever repeats a request under its key is given the same row, in whatever state the group is by
\* then, and no other request was ever answered under that key: the unique keys of the tables and the
\* comparison of the recorded body with the one at hand (_insert, update_agent_state, GroupGraph).
THEOREM KeysNameOneThing == Spec => []KeyNamesOneThing
BY AInvariance, InvKeys, PTL

-------------------------------------------------------------------------------
(* Batches *)

KeyTables == Tables \ {"claims"}
\* No batch left the rows that e has and d has not.
Untagged(d, e) == \A t \in KeyTables : \A i \in DOMAIN e[t] : i \in DOMAIN d[t] \/ ~ FromBatch(e[t][i].key)
\* The rows of d stay, with their keys.
Stays(d, e) == \A t \in KeyTables : \A i \in DOMAIN d[t] : i \in DOMAIN e[t] /\ e[t][i].key = d[t][i].key
\* Of the rows that e has and d has not, a batch left one, under this key.
Tagged(d, e, key) ==
  \E t \in KeyTables : \E i \in DOMAIN e[t] :
    /\ i \notin DOMAIN d[t] /\ e[t][i].key = key
    /\ \A u \in KeyTables : \A k \in DOMAIN e[u] : k \in DOMAIN d[u] \/ <<u, k>> = <<t, i>> \/ ~ FromBatch(e[u][k].key)

LEMMA KeyTablesAre == KeyTables \subseteq Mutable \cup Records /\ KeyTables \subseteq Tables
BY DEF KeyTables, Tables, Mutable, Records

LEMMA KeptStays == ASSUME NEW d, NEW e, Kept(d, e) PROVE Stays(d, e)
BY KeyTablesAre DEF Kept, KeptRows, KeptRecords, Stays

LEMMA SameUntagged ==
  ASSUME NEW d, NEW e, \A t \in KeyTables : DOMAIN e[t] = DOMAIN d[t]
  PROVE  Untagged(d, e)
BY DEF Untagged

LEMMA UntaggedAgain ==
  ASSUME NEW a, NEW b, NEW c, Untagged(a, b), Untagged(b, c), Stays(b, c)
  PROVE  Untagged(a, c)
BY DEF Untagged, Stays

LEMMA TaggedThen ==
  ASSUME NEW a, NEW b, NEW c, NEW key, Stays(a, b), Stays(b, c), Tagged(a, b, key), Untagged(b, c)
  PROVE  Tagged(a, c, key)
<1>1. PICK t \in KeyTables : \E i \in DOMAIN b[t] :
        /\ i \notin DOMAIN a[t] /\ b[t][i].key = key
        /\ \A u \in KeyTables : \A k \in DOMAIN b[u] : k \in DOMAIN a[u] \/ <<u, k>> = <<t, i>> \/ ~ FromBatch(b[u][k].key)
  BY DEF Tagged
<1>2. PICK i \in DOMAIN b[t] :
        /\ i \notin DOMAIN a[t] /\ b[t][i].key = key
        /\ \A u \in KeyTables : \A k \in DOMAIN b[u] : k \in DOMAIN a[u] \/ <<u, k>> = <<t, i>> \/ ~ FromBatch(b[u][k].key)
  BY <1>1
<1>3. i \in DOMAIN c[t] /\ c[t][i].key = key  BY <1>2 DEF Stays
<1>4. ASSUME NEW u \in KeyTables, NEW k \in DOMAIN c[u]
      PROVE  k \in DOMAIN a[u] \/ <<u, k>> = <<t, i>> \/ ~ FromBatch(c[u][k].key)
  <2>1. CASE k \in DOMAIN b[u]
    <3>1. k \in DOMAIN a[u] \/ <<u, k>> = <<t, i>> \/ ~ FromBatch(b[u][k].key)  BY <1>2, <2>1
    <3>2. c[u][k].key = b[u][k].key  BY <2>1 DEF Stays
    <3>3. QED  BY <3>1, <3>2
  <2>2. CASE k \notin DOMAIN b[u]  BY <2>2 DEF Untagged
  <2>3. QED  BY <2>1, <2>2
<1>5. QED  BY <1>2, <1>3, <1>4 DEF Tagged

\* One table has grown by a row.
LEMMA GrewTagged ==
  ASSUME NEW d, NEW e, NEW t \in KeyTables, NEW row, Grew(d, e, t, row), \A u \in KeyTables \ {t} : e[u] = d[u]
  PROVE  /\ Stays(d, e) /\ Tagged(d, e, row.key)
         /\ ~ FromBatch(row.key) => Untagged(d, e)
<1> DEFINE i == Len(d[t]) + 1
<1>1. i \in DOMAIN e[t] /\ i \notin DOMAIN d[t] /\ e[t][i] = row /\ DOMAIN e[t] = DOMAIN d[t] \cup {i}
  BY DEF Grew
<1>2. \A k \in DOMAIN d[t] : k \in DOMAIN e[t] /\ e[t][k] = d[t][k]  BY DEF Grew
<1> HIDE DEF i
<1>3. Stays(d, e)  BY <1>2 DEF Stays
<1>4. \A u \in KeyTables : \A k \in DOMAIN e[u] : k \in DOMAIN d[u] \/ <<u, k>> = <<t, i>>  BY <1>1
<1>5. Tagged(d, e, row.key)  BY <1>1, <1>4 DEF Tagged
<1>6. ~ FromBatch(row.key) => Untagged(d, e)  BY <1>1 DEF Untagged
<1>7. QED  BY <1>3, <1>5, <1>6

\* A row under this key is entered in table t, if it is not there.
Leaves(d, e, t, key) ==
  /\ e.receipts = d.receipts /\ Stays(d, e)
  /\ Keyed(d, t, key) = {} => Tagged(d, e, key)
  /\ ~ FromBatch(key) => Untagged(d, e)

LEMMA EnteredTagged ==
  ASSUME NEW d, NEW q, NEW t \in KeyTables, NEW row, NEW limit, Entered(d, q, t, row, limit)
  PROVE  Leaves(d, q.db, t, row.key)
<1>1. CASE q.db = d /\ q.id \in Keyed(d, t, row.key)  BY <1>1, SameUntagged DEF Stays, Leaves
<1>2. CASE Grew(d, q.db, t, row) /\ Same(d, q.db, {t, "revision"})
  <2>1. \A u \in KeyTables \ {t} : q.db[u] = d[u]  BY <1>2 DEF Same, KeyTables, Tables, Fields
  <2>2. t # "receipts"  BY DEF KeyTables, Tables
  <2>3. q.db.receipts = d.receipts  BY <1>2, <2>2 DEF Same, Fields
  <2>4. QED  BY <1>2, <2>1, <2>3, GrewTagged DEF Leaves
<1>3. QED  BY <1>1, <1>2 DEF Entered

LEMMA InsertTagged ==
  ASSUME NEW d, Formed(d), NEW t \in KeyTables, NEW row, NEW limit, Insert(d, t, row, limit).ok
  PROVE  LET q == Insert(d, t, row, limit) IN Formed(q.db) /\ Leaves(d, q.db, t, row.key)
<1> DEFINE q == Insert(d, t, row, limit)
<1>1. (q.db = d /\ q.id \in Keyed(d, t, row.key)) \/ q.db = Add(d, t, row)  BY InsertFacts
<1> HIDE DEF q
<1>2. t \in Tables  BY DEF KeyTables
<1>3. CASE q.db = d /\ q.id \in Keyed(d, t, row.key)  BY <1>3, SameUntagged DEF Stays, Leaves, q
<1>4. CASE q.db = Add(d, t, row)
  <2>1. Grew(d, q.db, t, row) /\ Same(d, q.db, {t}) /\ Formed(q.db)  BY <1>2, <1>4, AddFacts
  <2>2. \A u \in KeyTables \ {t} : q.db[u] = d[u]  BY <2>1 DEF Same, KeyTables, Tables, Fields
  <2>3. t # "receipts"  BY <1>2 DEF Tables
  <2>4. q.db.receipts = d.receipts  BY <2>1, <2>3 DEF Same, Fields
  <2>5. QED  BY <2>1, <2>2, <2>4, GrewTagged DEF Leaves, q
<1>5. QED  BY <1>1, <1>3, <1>4

\* What is written without a row.
LEMMA UnrowedLeaves ==
  ASSUME NEW d, NEW e, NEW f, NEW t, NEW key, Leaves(d, e, t, key),
         f = e \/ (f.receipts = e.receipts /\ \A u \in KeyTables : f[u] = e[u])
  PROVE  Leaves(d, f, t, key)
<1>1. Stays(d, f)  BY DEF Leaves, Stays
<1>2. ASSUME Tagged(d, e, key) PROVE Tagged(d, f, key)  BY <1>2 DEF Tagged
<1>3. ASSUME Untagged(d, e) PROVE Untagged(d, f)  BY <1>3 DEF Untagged
<1>4. QED  BY <1>1, <1>2, <1>3 DEF Leaves

LEMMA AttachUnrowed ==
  ASSUME NEW d, Formed(d), NEW k \in LinkKinds, NEW i, NEW c, AttachEvidence(d, k, i, c).ok
  PROVE  LET e == AttachEvidence(d, k, i, c).db IN
         e = d \/ (e.receipts = d.receipts /\ \A u \in KeyTables : e[u] = d[u])
<1> DEFINE e == AttachEvidence(d, k, i, c).db
<1>1. e = d \/ Same(d, e, {"revision", "links"})  BY AttachFacts
<1> HIDE DEF e
<1>2. QED  BY <1>1 DEF Same, KeyTables, Tables, Fields, e

LEMMA ClaimLeaves ==
  ASSUME NEW d, Formed(d), NEW key, NEW content, NEW source, InsertClaim(d, key, content, source).ok
  PROVE  Leaves(d, InsertClaim(d, key, content, source).db, "publications", key)
<1> DEFINE r == InsertClaim(d, key, content, source)  e == r.db
           row == [key |-> key, body |-> [content |-> content, source |-> source], claim |-> r.id]
<1>1. \/ e = d /\ Keyed(d, "publications", key) # {}
      \/ /\ Grew(d, e, "publications", row)
         /\ Same(d, e, {"publications", "revision"}) \/ Same(d, e, {"publications", "claims", "revision"})
  BY InsertClaimFacts
<1>2. row.key = key  OBVIOUS
<1> HIDE DEF e, row
<1>3. CASE e = d /\ Keyed(d, "publications", key) # {}  BY <1>3, SameUntagged DEF Stays, Leaves, e
<1>4. CASE /\ Grew(d, e, "publications", row)
           /\ Same(d, e, {"publications", "revision"}) \/ Same(d, e, {"publications", "claims", "revision"})
  <2>1. (\A u \in KeyTables \ {"publications"} : e[u] = d[u]) /\ e.receipts = d.receipts
    BY <1>4 DEF Same, KeyTables, Tables, Fields
  <2>2. QED  BY <1>2, <1>4, <2>1, GrewTagged DEF Leaves, KeyTables, Tables, e
<1>5. QED  BY <1>1, <1>3, <1>4

LEMMA RelationLeaves ==
  ASSUME NEW d, Formed(d), NEW key, NEW from, NEW to, NEW kind, NEW source,
         ProposeRelationship(d, key, from, to, kind, source).ok
  PROVE  Leaves(d, ProposeRelationship(d, key, from, to, kind, source).db, "relationships", key)
<1>1. RelationRow(key, from, to, kind, source).key = key  BY DEF RelationRow
<1>2. QED  BY <1>1, ProposeFacts, EnteredTagged DEF KeyTables, Tables

LEMMA ReviewLeaves ==
  ASSUME NEW d, Formed(d), NEW key, NEW relationship, NEW reviewer, NEW status, NEW task, NEW job,
         ReviewRelationship(d, key, relationship, reviewer, status, task, job).ok
  PROVE  Leaves(d, ReviewRelationship(d, key, relationship, reviewer, status, task, job).db, "reviews", key)
<1>1. OpinionRow(key, relationship, reviewer, status, task, job).key = key  BY DEF OpinionRow
<1>2. QED  BY <1>1, ReviewFacts, EnteredTagged DEF KeyTables, Tables

LEMMA FoundLeaves ==
  ASSUME NEW d, Formed(d), NEW key, NEW claim, NEW source, NEW text, Found(d, key, claim, source, text).ok
  PROVE  Leaves(d, Found(d, key, claim, source, text).db, "messages", key)
<1> DEFINE row == MessageRow(key, source, text)
           m == Add(d, "messages", row)
<1>1. Found(d, key, claim, source, text) = AttachEvidence(m, "messages", Len(m.messages), claim)
  BY DEF Found, Conflict, MessageRow
<1>2. row.key = key  BY DEF MessageRow
<1> HIDE DEF row
<1>3. Formed(m) /\ Grew(d, m, "messages", row) /\ Same(d, m, {"messages"})  BY AddFacts DEF Tables
<1> HIDE DEF m
<1>4. (\A u \in KeyTables \ {"messages"} : m[u] = d[u]) /\ m.receipts = d.receipts
  BY <1>3 DEF Same, KeyTables, Tables, Fields
<1>5. Leaves(d, m, "messages", key)  BY <1>2, <1>3, <1>4, GrewTagged DEF Leaves, KeyTables, Tables
<1> DEFINE e == AttachEvidence(m, "messages", Len(m.messages), claim).db
<1>6. e = m \/ (e.receipts = m.receipts /\ \A u \in KeyTables : e[u] = m[u])
  BY <1>1, <1>3, AttachUnrowed DEF LinkKinds
<1> HIDE DEF e
<1>7. Leaves(d, e, "messages", key)  BY <1>5, <1>6, UnrowedLeaves
<1>8. QED  BY <1>1, <1>7 DEF e

LEMMA AskedLeaves ==
  ASSUME NEW d, Formed(d), NEW key, NEW claim, NEW action, Asked(d, key, claim, action).ok
  PROVE  Leaves(d, Asked(d, key, claim, action).db, "asks", key)
<1> DEFINE row == [key |-> key, body |-> [claim |-> claim, action |-> action]]
           m == Add(d, "asks", row)  e == Raise(m)
<1>1. Asked(d, key, claim, action).db = e  BY DEF Asked, Conflict, Done
<1>2. row.key = key  OBVIOUS
<1> HIDE DEF row
<1>3. Formed(m) /\ Grew(d, m, "asks", row) /\ Same(d, m, {"asks"})  BY AddFacts DEF Tables
<1> HIDE DEF m
<1>4. (\A u \in KeyTables \ {"asks"} : m[u] = d[u]) /\ m.receipts = d.receipts
  BY <1>3 DEF Same, KeyTables, Tables, Fields
<1>5. Leaves(d, m, "asks", key)  BY <1>2, <1>3, <1>4, GrewTagged DEF Leaves, KeyTables, Tables
<1>6. Same(m, e, {"revision"})  BY <1>3, RaiseFacts
<1> HIDE DEF e
<1>7. e.receipts = m.receipts /\ \A u \in KeyTables : e[u] = m[u]  BY <1>6 DEF Same, KeyTables, Tables, Fields
<1>8. QED  BY <1>1, <1>5, <1>7, UnrowedLeaves

LEMMA LeavesThen ==
  ASSUME NEW d, NEW e, NEW f, NEW t, NEW key, Leaves(d, e, t, key), Stays(e, f), Untagged(e, f), f.receipts = e.receipts
  PROVE  Leaves(d, f, t, key)
<1>1. Stays(d, f)  BY DEF Leaves, Stays
<1>2. QED  BY <1>1, TaggedThen, UntaggedAgain DEF Leaves

\* An artifact's publication is not of a batch.
LEMMA ArtifactLeaves ==
  ASSUME NEW d, Formed(d), NEW key, NEW content, NEW proof, NEW source, InsertArtifact(d, key, content, proof, source).ok
  PROVE  Leaves(d, InsertArtifact(d, key, content, proof, source).db, "artifacts", key)
<1> DEFINE row == [key |-> key, body |-> [content |-> content, proof |-> proof, source |-> source]]
           put == Insert(d, "artifacts", row, MaxArtifacts)
           tag == <<"artifact", put.id, "">>
           pub == InsertClaim(put.db, tag, content, source)
           q   == InsertArtifact(d, key, content, proof, source)
<1>1. put.ok  BY DEF InsertArtifact, Conflict, Then
<1>2. q = put \/ q = IF pub.ok THEN AttachEvidence(pub.db, "artifacts", put.id, pub.id) ELSE Conflict
  BY <1>1 DEF InsertArtifact, Conflict, Then
<1>3. q.ok  OBVIOUS
<1>4. row.key = key /\ ~ FromBatch(tag)  BY DEF FromBatch
<1> HIDE DEF row, tag
<1>5. Formed(put.db) /\ Leaves(d, put.db, "artifacts", key)  BY <1>1, <1>4, InsertTagged DEF KeyTables, Tables
<1> HIDE DEF q, put
<1>6. CASE q = put  BY <1>5, <1>6 DEF q
<1>7. CASE q = IF pub.ok THEN AttachEvidence(pub.db, "artifacts", put.id, pub.id) ELSE Conflict
  <2>1. pub.ok /\ q = AttachEvidence(pub.db, "artifacts", put.id, pub.id)
    <3> HIDE DEF pub
    <3>1. ~ Conflict.ok  BY DEF Conflict
    <3>2. QED  BY <1>3, <1>7, <3>1
  <2>2. Leaves(put.db, pub.db, "publications", tag)  BY <1>5, <2>1, ClaimLeaves
  <2>3. Formed(pub.db)
    <3>1. pub.db = put.db \/ Formed(pub.db)  BY <1>5, <2>1, InsertClaimFacts
    <3>2. QED  BY <1>5, <3>1
  <2> HIDE DEF pub
  <2>4. Leaves(d, pub.db, "artifacts", key)  BY <1>4, <1>5, <2>2, LeavesThen DEF Leaves
  <2>5. q.db = pub.db \/ (q.db.receipts = pub.db.receipts /\ \A u \in KeyTables : q.db[u] = pub.db[u])
    BY <1>3, <2>1, <2>3, AttachUnrowed DEF LinkKinds
  <2>6. Leaves(d, q.db, "artifacts", key)  BY <2>4, <2>5, UnrowedLeaves
  <2>7. QED  BY <2>6 DEF q
<1>8. QED  BY <1>2, <1>6, <1>7

\* What an item of a batch writes.
ItemTable ==
  [claim |-> "publications", relationship |-> "relationships", review |-> "reviews", finding |-> "messages",
   artifact |-> "artifacts", ask |-> "asks"]
LEMMA ApplyLeaves ==
  ASSUME NEW d, Formed(d), NEW job, NEW item, IsItem(item), NEW local, Apply(d, job, item, local).ok
  PROVE  Leaves(d, Apply(d, job, item, local).db, ItemTable[item.kind], Mine(job, item.key)) /\ ItemTable[item.kind] \in KeyTables
<1> DEFINE body   == d.jobs[job].body
           source == [agent |-> body.agent, task |-> body.task, job |-> job]
           key    == Mine(job, item.key)
           r      == Apply(d, job, item, local)
           about  == Resolve(local, "claim", item.claim)
<1>1. item.kind \in {"claim", "relationship", "review", "finding", "artifact", "ask"}  BY Kinds
<1>2. ItemTable[item.kind] \in KeyTables  BY <1>1 DEF ItemTable, KeyTables, Tables
<1>3. r.ok  OBVIOUS
<1>4. CASE item.kind = "claim"
  <2>1. r = InsertClaim(d, key, item.content, source)  BY <1>4 DEF Apply
  <2> HIDE DEF r, key, source
  <2>2. Leaves(d, r.db, "publications", key)  BY <1>3, <2>1, ClaimLeaves
  <2>3. QED  BY <1>2, <1>4, <2>2 DEF r, key, ItemTable
<1>5. CASE item.kind = "relationship"
  <2> DEFINE from == Resolve(local, "claim", item.from)  to == Resolve(local, "claim", item.to)
  <2>1. r = ProposeRelationship(d, key, from, to, item.type, source)  BY <1>5 DEF Apply
  <2> HIDE DEF r, key, source, from, to
  <2>2. Leaves(d, r.db, "relationships", key)  BY <1>3, <2>1, RelationLeaves
  <2>3. QED  BY <1>2, <1>5, <2>2 DEF r, key, ItemTable
<1>6. CASE item.kind = "review"
  <2> DEFINE edge == Resolve(local, "relationship", item.relationship)
             q == ReviewRelationship(d, key, edge, body.agent, item.status, body.task, job)
  <2>1. r = IF edge \notin Shown(d, job) THEN Conflict ELSE q  BY <1>6 DEF Apply
  <2> HIDE DEF r
  <2>2. r = q  BY <1>3, <2>1 DEF Conflict
  <2> HIDE DEF key, edge, body
  <2>3. Leaves(d, r.db, "reviews", key)  BY <1>3, <2>2, ReviewLeaves
  <2>4. QED  BY <1>2, <1>6, <2>3 DEF r, key, ItemTable
<1>7. CASE item.kind = "finding"
  <2>1. r = Found(d, key, about, source, item.text)  BY <1>7 DEF Apply
  <2> HIDE DEF r, key, source, about
  <2>2. Leaves(d, r.db, "messages", key)  BY <1>3, <2>1, FoundLeaves
  <2>3. QED  BY <1>2, <1>7, <2>2 DEF r, key, ItemTable
<1>8. CASE item.kind = "artifact"
  <2> DEFINE q == InsertArtifact(d, key, item.content, item.proof, source)
  <2>1. r = Conflict \/ r = q  BY <1>8 DEF Apply
  <2> HIDE DEF r, key, source
  <2>2. r = q  BY <1>3, <2>1 DEF Conflict
  <2>3. Leaves(d, r.db, "artifacts", key)  BY <1>3, <2>2, ArtifactLeaves
  <2>4. QED  BY <1>2, <1>8, <2>3 DEF r, key, ItemTable
<1>9. CASE item.kind = "ask"
  <2>1. r = Asked(d, key, about, item.action)  BY <1>9 DEF Apply
  <2> HIDE DEF r, key, about
  <2>2. Leaves(d, r.db, "asks", key)  BY <1>3, <2>1, AskedLeaves
  <2>3. QED  BY <1>2, <1>9, <2>2 DEF r, key, ItemTable
<1>10. QED  BY <1>1, <1>4, <1>5, <1>6, <1>7, <1>8, <1>9

\* No batch left anything, and none was received.
Quiet(d, e) == Untagged(d, e) /\ e.receipts = d.receipts

LEMMA LeavesQuiet == ASSUME NEW d, NEW e, NEW t, NEW key, Leaves(d, e, t, key), key[1] = "api" PROVE Quiet(d, e)
BY DEF Leaves, Quiet, FromBatch

LEMMA PlaceQuiet ==
  ASSUME NEW d, NEW e, NEW t, Same(d, e, {t, "work", "stopped", "updates", "focus", "links", "revision"}),
         t \in Tables, DOMAIN e[t] = DOMAIN d[t]
  PROVE  Quiet(d, e)
<1>1. \A u \in KeyTables \ {t} : e[u] = d[u]  BY DEF Same, KeyTables, Tables, Fields
<1>2. t # "receipts"  BY DEF Tables
<1>3. e.receipts = d.receipts  BY <1>2 DEF Same, Fields
<1>4. QED  BY <1>1, <1>3, SameUntagged DEF Quiet

LEMMA SelfQuiet == \A d : Quiet(d, d)
BY SameUntagged DEF Quiet

LEMMA AgentQuiet ==
  ASSUME NEW d, Base(d), NEW r, r.key[1] = "api", AddedAgent(d, r).ok PROVE Quiet(d, AddedAgent(d, r).db)
<1>1. AddedAgent(d, r) = Insert(d, "agents", AgentRow(r), MaxAgents) /\ AgentRow(r).key = r.key
  BY DEF AddedAgent, AgentRow
<1>2. Leaves(d, AddedAgent(d, r).db, "agents", r.key)  BY <1>1, InsertTagged DEF Base, KeyTables, Tables
<1>3. QED  BY <1>2, LeavesQuiet

LEMMA UpdateQuiet == ASSUME NEW d, Base(d), NEW r, UpdatedState(d, r).ok PROVE Quiet(d, UpdatedState(d, r).db)
<1> DEFINE revision == r.expected + 1
           update == [agent |-> r.agent, key |-> r.key, state |-> r.state, revision |-> revision]
           e == [d EXCEPT !.agents[r.agent].state = r.state, !.agents[r.agent].revision = revision,
                          !.updates = @ \cup {update}]
<1>1. UpdatedState(d, r).db = d \/ UpdatedState(d, r).db = e  BY DEF UpdatedState, Conflict, Done
<1>2. DOMAIN d = Fields  BY DEF Base, Formed
<1> HIDE DEF update, revision
<1>3. (\A f \in Fields \ {"agents", "updates"} : e[f] = d[f]) /\ DOMAIN e["agents"] = DOMAIN d["agents"]
  BY <1>2 DEF Fields
<1> HIDE DEF e
<1>4. Quiet(d, e)  BY <1>3, PlaceQuiet DEF Same, Tables
<1>5. QED  BY <1>1, <1>4, SelfQuiet

LEMMA CloseQuiet ==
  ASSUME NEW d, Base(d), NEW task, NEW status, ClosedTask(d, task, status).ok
  PROVE  Quiet(d, ClosedTask(d, task, status).db)
<1> DEFINE e == Raise([d EXCEPT !.tasks[task].status = status])
<1>1. ClosedTask(d, task, status).db = d \/ ClosedTask(d, task, status).db = e  BY DEF ClosedTask, Conflict, Done
<1>2. Same(d, e, {"tasks", "revision"}) /\ DOMAIN e["tasks"] = DOMAIN d["tasks"]
  BY DEF Base, Formed, Fields, Same, Raise
<1> HIDE DEF e
<1>3. Quiet(d, e)  BY <1>2, PlaceQuiet DEF Same, Tables
<1>4. QED  BY <1>1, <1>3, SelfQuiet

LEMMA ReviewedQuiet == ASSUME NEW d, Base(d), NEW r, ReviewedMessage(d, r).ok PROVE Quiet(d, ReviewedMessage(d, r).db)
<1> DEFINE review == [status |-> r.status, by |-> r.reviewer, key |-> r.key]
           q == [d EXCEPT !.messages[r.message].review = review]
<1>1. ReviewedMessage(d, r).db \in {d, q, Raise(q)}  BY DEF ReviewedMessage, Conflict, Done
<1>2. DOMAIN d = Fields  BY DEF Base, Formed
<1> HIDE DEF review
<1>3. /\ DOMAIN q = Fields /\ DOMAIN q["messages"] = DOMAIN d["messages"]
      /\ \A f \in Fields \ {"messages"} : q[f] = d[f]
  BY <1>2 DEF Fields
<1> HIDE DEF q
<1>4. /\ \A f \in Fields \ {"messages", "revision"} : Raise(q)[f] = d[f]
      /\ DOMAIN Raise(q)["messages"] = DOMAIN d["messages"]
  BY <1>3 DEF Raise, Fields
<1>5. Quiet(d, q)
  <2>1. Same(d, q, {"messages", "work", "stopped", "updates", "focus", "links", "revision"})  BY <1>3 DEF Same
  <2>2. "messages" \in Tables  BY DEF Tables
  <2>3. QED  BY <1>3, <2>1, <2>2, PlaceQuiet
<1>a. Quiet(d, Raise(q))
  <2> DEFINE e == Raise(q)
  <2>1. (\A f \in Fields \ {"messages", "revision"} : e[f] = d[f]) /\ DOMAIN e["messages"] = DOMAIN d["messages"]
    BY <1>4
  <2> HIDE DEF e
  <2>2. Same(d, e, {"messages", "work", "stopped", "updates", "focus", "links", "revision"})  BY <2>1 DEF Same
  <2>3. "messages" \in Tables  BY DEF Tables
  <2>4. Quiet(d, e)  BY <2>1, <2>2, <2>3, PlaceQuiet
  <2>5. QED  BY <2>4 DEF e
<1>6. QED  BY <1>1, <1>5, <1>a, SelfQuiet

LEMMA MessageQuiet ==
  ASSUME NEW d, Base(d), NEW r, r.key[1] = "api", AddedMessage(d, r).ok PROVE Quiet(d, AddedMessage(d, r).db)
<1> DEFINE row == MessageRow(r.key, r.source, r.text)
           put == Insert(d, "messages", row, MaxMessages)
           new == Keyed(d, "messages", r.key) = {}
           res == AddedMessage(d, r)
<1>1. put.ok /\ res = IF new THEN LinkedToFocus(put.db, put.id) ELSE Done(put.db, put.id)
  BY AddedMessageIs
<1>2. row.key = r.key  BY DEF MessageRow
<1>3. res.ok  OBVIOUS
<1> HIDE DEF row
<1>4. Formed(put.db) /\ Leaves(d, put.db, "messages", r.key)
  BY <1>1, <1>2, InsertTagged DEF Base, KeyTables, Tables
<1> HIDE DEF put, res
<1>5. res.db = put.db \/ (res.db.receipts = put.db.receipts /\ \A u \in KeyTables : res.db[u] = put.db[u])
  <2>1. \/ res = Done(put.db, put.id)
        \/ \E c : res = AttachEvidence(put.db, "messages", put.id, c)
    BY <1>1 DEF LinkedToFocus
  <2>2. ASSUME NEW c, res = AttachEvidence(put.db, "messages", put.id, c)
        PROVE  res.db = put.db \/ (res.db.receipts = put.db.receipts /\ \A u \in KeyTables : res.db[u] = put.db[u])
    BY <1>3, <1>4, <2>2, AttachUnrowed DEF LinkKinds
  <2>3. QED  BY <2>1, <2>2 DEF Done
<1>6. Leaves(d, res.db, "messages", r.key)  BY <1>4, <1>5, UnrowedLeaves
<1>7. QED  BY <1>6, LeavesQuiet DEF res

LEMMA JobQuiet ==
  ASSUME NEW d, Base(d), NEW r, NEW shown, r.key[1] = "api", EnqueuedJob(d, r, shown).ok
  PROVE  Quiet(d, EnqueuedJob(d, r, shown).db)
<1> DEFINE put == Insert(d, "jobs", JobRow(r, shown), MaxWork + 1)
           m == put.db
           e == EnqueuedJob(d, r, shown).db
<1>1. put.ok /\ (e = m \/ e = Reserve(m, r.task, r.cost))  BY EnqueuedJobIs
<1>2. JobRow(r, shown).key = r.key  BY DEF JobRow
<1>3. Formed(m) /\ Leaves(d, m, "jobs", r.key)  BY <1>1, <1>2, InsertTagged DEF Base, KeyTables, Tables
<1> HIDE DEF m, e
<1>4. Quiet(d, m)  BY <1>3, LeavesQuiet
<1> DEFINE f == Reserve(m, r.task, r.cost)
<1>5. Charges(m, f, r.task, r.cost)  BY <1>3, ReserveFacts
<1> HIDE DEF f
<1>6. \A u \in KeyTables : DOMAIN f[u] = DOMAIN m[u]
  <2>1. f.tasks = [m.tasks EXCEPT ![r.task] = Charged(m.tasks[r.task], r.cost)]  BY <1>5 DEF Charges
  <2>2. DOMAIN f.tasks = DOMAIN m.tasks  BY <2>1
  <2>3. \A u \in KeyTables \ {"tasks"} : f[u] = m[u]  BY <1>5 DEF Charges, Same, KeyTables, Tables, Fields
  <2>4. QED  BY <2>2, <2>3
<1>7. f.receipts = m.receipts  BY <1>5 DEF Charges, Same, Fields
<1>8. \A u \in KeyTables : \A i \in DOMAIN f[u] : ~ FromBatch(m[u][i].key) => ~ FromBatch(f[u][i].key)
  <2> SUFFICES ASSUME NEW u \in KeyTables, NEW i \in DOMAIN f[u] PROVE f[u][i].key = m[u][i].key
    OBVIOUS
  <2>1. CASE u # "tasks"  BY <1>5, <2>1 DEF Charges, Same, KeyTables, Tables, Fields
  <2>2. CASE u = "tasks"
    <3>1. f.tasks = [m.tasks EXCEPT ![r.task] = Charged(m.tasks[r.task], r.cost)]  BY <1>5 DEF Charges
    <3>2. Charged(m.tasks[r.task], r.cost).key = m.tasks[r.task].key  BY DEF Charged
    <3>3. i \in DOMAIN m.tasks  BY <1>6, <2>2
    <3>4. f.tasks[i].key = m.tasks[i].key  BY <3>1, <3>2, <3>3
    <3>5. QED  BY <2>2, <3>4
  <2>3. QED  BY <2>1, <2>2
<1>9. Quiet(d, f)  BY <1>4, <1>6, <1>7, <1>8 DEF Quiet, Untagged
<1>10. QED  BY <1>1, <1>4, <1>9 DEF e, f

LEMMA TaskQuiet ==
  ASSUME NEW d, Base(d), NEW r, r.key[1] = "api", AddedTask(d, r).ok
  PROVE  Quiet(d, AddedTask(d, r).db)
<1> DEFINE put == Insert(d, "tasks", TaskRow(d, r), MaxTasks)
           new == Keyed(d, "tasks", r.key) = {}
           p   == put.db
           m   == IF new THEN Take(p, r.budget) ELSE p
           q   == AttachTask(m, put.id, TaskClaim(r), r.action)
           focus == [task |-> put.id, claim |-> TaskClaim(r), action |-> r.action]
<1>1. put.ok /\ q.ok /\ AddedTask(d, r) = q  BY AddedTaskIs
<1>2. TaskRow(d, r).key = r.key  BY DEF TaskRow
<1>3. Formed(p) /\ Leaves(d, p, "tasks", r.key)  BY <1>1, <1>2, InsertTagged DEF Base, KeyTables, Tables
<1> HIDE DEF put
<1>4. IsRecord(m) /\ m.receipts = p.receipts /\ \A u \in KeyTables : m[u] = p[u]
  <2> HIDE DEF p
  <2>1. IsRecord(p)  BY <1>3 DEF Formed, IsRecord
  <2>2. /\ IsRecord(Take(p, r.budget)) /\ Take(p, r.budget).receipts = p.receipts
        /\ \A u \in KeyTables : Take(p, r.budget)[u] = p[u]
    BY <2>1 DEF Take, IsRecord, Fields, KeyTables, Tables
  <2>3. QED  BY <2>1, <2>2
<1> HIDE DEF m, p
<1>5. q.db = m \/ q.db = Raise([m EXCEPT !.focus = @ \cup {focus}])
  BY <1>1 DEF AttachTask, Done, Conflict
<1> HIDE DEF q, focus
<1> DEFINE e == Raise([m EXCEPT !.focus = @ \cup {focus}])
<1>6. e.receipts = m.receipts /\ \A u \in KeyTables : e[u] = m[u]
  BY <1>4 DEF Raise, IsRecord, Fields, KeyTables, Tables
<1> HIDE DEF e
<1>7. q.db.receipts = p.receipts /\ \A u \in KeyTables : q.db[u] = p[u]  BY <1>4, <1>5, <1>6 DEF e
<1>8. Leaves(d, q.db, "tasks", r.key)  BY <1>3, <1>7, UnrowedLeaves
<1>9. QED  BY <1>1, <1>8, LeavesQuiet

LEMMA ServeQuiet == ASSUME Base(db), Serve PROVE Quiet(db, db')
<1>1. PICK r \in Requests :
        \/ AddAgent(r) \/ UpdateState(r) \/ AddTask(r) \/ CloseTask(r) \/ EnqueueJob(r) \/ AddMessage(r)
        \/ ReviewMessage(r) \/ ProposeClaim(r) \/ LinkEvidence(r) \/ Relate(r) \/ Review(r) \/ ProposeArtifact(r)
  BY DEF Serve
<1>2. r.key[1] = "api" /\ (r.op = "link" => r.kind \in LinkKinds)  BY RequestAssumption DEF LinkKinds
<1>3. Formed(db)  BY DEF Base
<1>4. CASE AddAgent(r)  BY <1>2, <1>4, AgentQuiet DEF AddAgent, Commit
<1>5. CASE UpdateState(r)  BY <1>5, UpdateQuiet DEF UpdateState, Commit
<1>6. CASE AddTask(r)  BY <1>2, <1>6, TaskQuiet DEF AddTask, Commit
<1>7. CASE CloseTask(r)  BY <1>7, CloseQuiet DEF CloseTask, Commit
<1>8. CASE EnqueueJob(r)  BY <1>2, <1>8, JobQuiet DEF EnqueueJob, Commit
<1>9. CASE AddMessage(r)  BY <1>2, <1>9, MessageQuiet DEF AddMessage, Commit
<1>10. CASE ReviewMessage(r)  BY <1>10, ReviewedQuiet DEF ReviewMessage, Commit
<1>11. CASE ProposeClaim(r)
  <2> DEFINE q == InsertClaim(db, r.key, r.content, r.source)
  <2>1. q.ok /\ db' = q.db  BY <1>11 DEF ProposeClaim, Commit
  <2>2. Leaves(db, q.db, "publications", r.key)  BY <1>3, <2>1, ClaimLeaves
  <2>3. QED  BY <1>2, <2>1, <2>2, LeavesQuiet
<1>12. CASE LinkEvidence(r)
  <2> DEFINE q == AttachEvidence(db, r.kind, r.id, r.claim)
  <2>1. q.ok /\ db' = q.db /\ r.kind \in LinkKinds  BY <1>2, <1>12 DEF LinkEvidence, Commit
  <2>2. db' = db \/ (db'.receipts = db.receipts /\ \A u \in KeyTables : db'[u] = db[u])
    BY <1>3, <2>1, AttachUnrowed
  <2>3. QED  BY <2>2, SameUntagged DEF Quiet
<1>13. CASE Relate(r)
  <2> DEFINE q == ProposeRelationship(db, r.key, r.from, r.to, r.kind, r.source)
  <2>1. q.ok /\ db' = q.db  BY <1>13 DEF Relate, Commit
  <2>2. Leaves(db, q.db, "relationships", r.key)  BY <1>3, <2>1, RelationLeaves
  <2>3. QED  BY <1>2, <2>1, <2>2, LeavesQuiet
<1>14. CASE Review(r)
  <2> DEFINE q == ReviewRelationship(db, r.key, r.relationship, r.reviewer, r.status, r.task, r.job)
  <2>1. q.ok /\ db' = q.db  BY <1>14 DEF Review, Commit
  <2>2. Leaves(db, q.db, "reviews", r.key)  BY <1>3, <2>1, ReviewLeaves
  <2>3. QED  BY <1>2, <2>1, <2>2, LeavesQuiet
<1>15. CASE ProposeArtifact(r)
  <2> DEFINE q == InsertArtifact(db, r.key, r.content, r.proof, r.source)
  <2>1. q.ok /\ db' = q.db  BY <1>15 DEF ProposeArtifact, Commit
  <2>2. Leaves(db, q.db, "artifacts", r.key)  BY <1>3, <2>1, ArtifactLeaves
  <2>3. QED  BY <1>2, <2>1, <2>2, LeavesQuiet
<1>16. QED
  BY <1>1, <1>4, <1>5, <1>6, <1>7, <1>8, <1>9, <1>10, <1>11, <1>12, <1>13, <1>14, <1>15

LEMMA StatusQuiet ==
  ASSUME NEW d, Base(d), NEW job \in DOMAIN d.jobs, NEW status
  PROVE  Quiet(d, SetStatus(d, job, status))
<1> DEFINE e == SetStatus(d, job, status)
<1>1. Statuses(d, e, job, status)  BY StatusFacts DEF Base
<1> HIDE DEF e
<1>2. Same(d, e, {"jobs", "revision"}) /\ DOMAIN e["jobs"] = DOMAIN d["jobs"]  BY <1>1 DEF Statuses
<1>3. Quiet(d, e)  BY <1>2, PlaceQuiet DEF Same, Tables
<1>4. QED  BY <1>3 DEF e

LEMMA MoreQuiet ==
  ASSUME NEW d, Base(d), NEW job \in DOMAIN d.jobs, NEW status, NEW c \in {"attempts", "output"}, NEW v
  PROVE  Quiet(d, JobWith(d, job, status, c, v))
<1> DEFINE m == SetStatus(d, job, status)  e == JobWith(d, job, status, c, v)
<1>1. Statuses(d, m, job, status)  BY StatusFacts DEF Base
<1>2. e = [m EXCEPT !.jobs[job][c] = v]  BY DEF JobWith
<1> HIDE DEF m, e
<1>3. IsRecord(m) /\ Same(d, m, {"jobs", "revision"}) /\ DOMAIN m.jobs = DOMAIN d.jobs  BY <1>1 DEF Statuses
<1>4. (\A f \in Fields \ {"jobs"} : e[f] = m[f]) /\ DOMAIN e["jobs"] = DOMAIN m.jobs
  BY <1>2, <1>3 DEF IsRecord, Fields
<1>5. Same(d, e, {"jobs", "revision"}) /\ DOMAIN e["jobs"] = DOMAIN d["jobs"]  BY <1>3, <1>4 DEF Same
<1>6. Quiet(d, e)  BY <1>5, PlaceQuiet DEF Same, Tables
<1>7. QED  BY <1>6 DEF e

LEMMA StopQuiet == ASSUME Base(db), Stop PROVE Quiet(db, db')
<1> DEFINE queued == {j \in DOMAIN db.jobs : db.jobs[j].status = "queued"}
           rows   == [j \in DOMAIN db.jobs |-> IF j \in queued THEN [db.jobs[j] EXCEPT !.status = "cancelled"] ELSE db.jobs[j]]
<1>1. DOMAIN db = Fields  BY DEF Base, Formed
<1>2. db' = [db EXCEPT !.stopped = TRUE, !.jobs = rows, !.revision = @ + Cardinality(queued)]  BY DEF Stop
<1>3. DOMAIN rows = DOMAIN db.jobs  OBVIOUS
<1> HIDE DEF rows, queued
<1>4. (\A f \in Fields \ {"stopped", "jobs", "revision"} : db'[f] = db[f]) /\ DOMAIN db'["jobs"] = DOMAIN db["jobs"]
  BY <1>1, <1>2, <1>3 DEF Fields
<1>5. QED  BY <1>4, PlaceQuiet DEF Same, Tables

\* The rows that the batch of a job has left, and their keys.
Rows(d) == UNION {{<<t, i>> : i \in DOMAIN d[t]} : t \in KeyTables}
KeyAt(d, x) == d[x[1]][x[2]].key
Remains(d, job) == {x \in Rows(d) : FromBatch(KeyAt(d, x)) /\ KeyAt(d, x)[2] = job}

LEMMA RowsAre == ASSUME NEW d, NEW x PROVE x \in Rows(d) <=> \E t \in KeyTables : \E i \in DOMAIN d[t] : x = <<t, i>>
BY DEF Rows

LEMMA StaysRows ==
  ASSUME NEW d, NEW e, Stays(d, e), NEW x \in Rows(d)
  PROVE  x \in Rows(e) /\ KeyAt(e, x) = KeyAt(d, x)
<1>1. PICK t \in KeyTables : \E i \in DOMAIN d[t] : x = <<t, i>>  BY RowsAre
<1>2. PICK i \in DOMAIN d[t] : x = <<t, i>>  BY <1>1
<1>3. i \in DOMAIN e[t] /\ e[t][i].key = d[t][i].key /\ x[1] = t /\ x[2] = i  BY <1>2 DEF Stays
<1>4. QED  BY <1>2, <1>3, RowsAre DEF KeyAt

LEMMA UntaggedRemains ==
  ASSUME NEW d, NEW e, Stays(d, e), Untagged(d, e), NEW job
  PROVE  Remains(e, job) = Remains(d, job)
<1>1. \A x \in Rows(d) : x \in Rows(e) /\ KeyAt(e, x) = KeyAt(d, x)  BY StaysRows
<1>2. ASSUME NEW x \in Rows(e), FromBatch(KeyAt(e, x)) PROVE x \in Rows(d)
  <2>1. PICK t \in KeyTables : \E i \in DOMAIN e[t] : x = <<t, i>>  BY RowsAre
  <2>2. PICK i \in DOMAIN e[t] : x = <<t, i>>  BY <2>1
  <2>3. KeyAt(e, x) = e[t][i].key  BY <2>2 DEF KeyAt
  <2>4. i \in DOMAIN d[t]  BY <1>2, <2>3 DEF Untagged
  <2>5. QED  BY <2>2, <2>4, RowsAre
<1>3. QED  BY <1>1, <1>2 DEF Remains

LEMMA TaggedRemains ==
  ASSUME NEW d, NEW e, Stays(d, e), NEW job, NEW name, Tagged(d, e, Mine(job, name))
  PROVE  /\ \A j : j # job => Remains(e, j) = Remains(d, j)
         /\ \E y : /\ y \notin Remains(d, job) /\ Remains(e, job) = Remains(d, job) \cup {y}
                   /\ KeyAt(e, y) = Mine(job, name)
<1> DEFINE key == Mine(job, name)
<1>1. PICK t \in KeyTables : \E i \in DOMAIN e[t] :
        /\ i \notin DOMAIN d[t] /\ e[t][i].key = key
        /\ \A u \in KeyTables : \A k \in DOMAIN e[u] : k \in DOMAIN d[u] \/ <<u, k>> = <<t, i>> \/ ~ FromBatch(e[u][k].key)
  BY DEF Tagged
<1>2. PICK i \in DOMAIN e[t] :
        /\ i \notin DOMAIN d[t] /\ e[t][i].key = key
        /\ \A u \in KeyTables : \A k \in DOMAIN e[u] : k \in DOMAIN d[u] \/ <<u, k>> = <<t, i>> \/ ~ FromBatch(e[u][k].key)
  BY <1>1
<1> DEFINE y == <<t, i>>
<1>3. FromBatch(key) /\ key[2] = job  BY DEF FromBatch, Mine
<1>4. KeyAt(e, y) = key /\ y \in Rows(e)  BY <1>2, RowsAre DEF KeyAt
<1>5. y \notin Rows(d)
  <2>1. \A u \in KeyTables : \A k \in DOMAIN d[u] : y = <<u, k>> => u = t /\ k = i  OBVIOUS
  <2> HIDE DEF y
  <2>2. QED  BY <1>2, <2>1, RowsAre
<1>6. \A x \in Rows(d) : x \in Rows(e) /\ KeyAt(e, x) = KeyAt(d, x)  BY StaysRows
<1>7. ASSUME NEW x \in Rows(e), FromBatch(KeyAt(e, x)) PROVE x \in Rows(d) \/ x = y
  <2>1. PICK u \in KeyTables : \E k \in DOMAIN e[u] : x = <<u, k>>  BY RowsAre
  <2>2. PICK k \in DOMAIN e[u] : x = <<u, k>>  BY <2>1
  <2>3. KeyAt(e, x) = e[u][k].key  BY <2>2 DEF KeyAt
  <2>4. k \in DOMAIN d[u] \/ x = y  BY <1>2, <1>7, <2>2, <2>3
  <2>5. QED  BY <2>2, <2>4, RowsAre
<1> HIDE DEF y, key
<1>8. \A j : j # job => Remains(e, j) = Remains(d, j)  BY <1>3, <1>4, <1>6, <1>7 DEF Remains
<1>9. y \notin Remains(d, job) /\ Remains(e, job) = Remains(d, job) \cup {y}
  BY <1>3, <1>4, <1>5, <1>6, <1>7 DEF Remains
<1>10. QED  BY <1>4, <1>8, <1>9 DEF key

\* What the receipts say: one for a completed job, and the batch is there as a whole or has left nothing.
Accepted(d, job) == \E r \in d.receipts : r.job = job /\ r.status = "accepted"
Whole(d, job) ==
  LET items == d.jobs[job].output.items IN
  /\ IsFiniteSet(Remains(d, job)) /\ Cardinality(Remains(d, job)) = Len(items)
  /\ \A i \in DOMAIN items : \E x \in Remains(d, job) : KeyAt(d, x) = Mine(job, items[i].key)
Received(d) ==
  /\ \A r \in d.receipts : r.job \in DOMAIN d.jobs /\ d.jobs[r.job].status = "done"
  /\ \A r, s \in d.receipts : r.job = s.job => r = s
  /\ \A job : IF Accepted(d, job) THEN Whole(d, job) ELSE Remains(d, job) = {}

\* Steps that leave nothing of a batch keep it so.
LEMMA QuietReceived ==
  ASSUME NEW d, Received(d), NEW e, Quiet(d, e), Kept(d, e)
  PROVE  Received(e)
<1>1. Stays(d, e) /\ e.receipts = d.receipts /\ Untagged(d, e)  BY KeptStays DEF Quiet
<1>2. \A job : Remains(e, job) = Remains(d, job)  BY <1>1, UntaggedRemains
<1>3. \A j \in DOMAIN d.jobs : j \in DOMAIN e.jobs /\ KeptJob(d.jobs[j], e.jobs[j])
  BY DEF Kept, KeptRows, KeptStates, Mutable
<1>4. \A job : \A x \in Remains(d, job) : KeyAt(e, x) = KeyAt(d, x)  BY <1>1, StaysRows DEF Remains
<1>5. \A job : Accepted(e, job) = Accepted(d, job)  BY <1>1 DEF Accepted
<1>6. ASSUME NEW job, Accepted(d, job), Whole(d, job) PROVE Whole(e, job)
  <2>1. job \in DOMAIN d.jobs /\ d.jobs[job].status = "done"  BY <1>6 DEF Accepted, Received
  <2>2. e.jobs[job].output = d.jobs[job].output  BY <1>3, <2>1 DEF KeptJob
  <2>3. QED  BY <1>2, <1>4, <1>6, <2>2 DEF Whole
<1>7. \A job : IF Accepted(e, job) THEN Whole(e, job) ELSE Remains(e, job) = {}
  BY <1>2, <1>5, <1>6 DEF Received
<1>8. \A r \in e.receipts : r.job \in DOMAIN e.jobs /\ e.jobs[r.job].status = "done"
  BY <1>1, <1>3 DEF Received, KeptJob
<1>9. \A r, s \in e.receipts : r.job = s.job => r = s  BY <1>1 DEF Received
<1>10. QED  BY <1>7, <1>8, <1>9 DEF Received

\* The rows of the first n items of a batch are there, one for each, and no others of its job.
Traced(d, e, job, n) ==
  /\ IsFiniteSet(Remains(e, job)) /\ Cardinality(Remains(e, job)) = n
  /\ \A x \in Remains(e, job) : \E k \in 1..n : KeyAt(e, x) = Mine(job, Batch(d, job)[k].key)
  /\ \A k \in 1..n : \E x \in Remains(e, job) : KeyAt(e, x) = Mine(job, Batch(d, job)[k].key)
  /\ \A j : j # job => Remains(e, j) = Remains(d, j)

LEMMA TracedNone == ASSUME NEW d, NEW job, Remains(d, job) = {} PROVE Traced(d, d, job, 0)
<1>1. \A k \in 1..0 : FALSE  OBVIOUS
<1>2. IsFiniteSet(Remains(d, job)) /\ Cardinality(Remains(d, job)) = 0  BY FS_EmptySet
<1>3. QED  BY <1>1, <1>2 DEF Traced

LEMMA TracedMore ==
  ASSUME NEW d, NEW job, NEW e, NEW f, NEW n \in Nat, Traced(d, e, job, n), Stays(e, f),
         Tagged(e, f, Mine(job, Batch(d, job)[n + 1].key))
  PROVE  Traced(d, f, job, n + 1)
<1> DEFINE key(k) == Mine(job, Batch(d, job)[k].key)
<1>1. /\ \A j : j # job => Remains(f, j) = Remains(e, j)
      /\ \E y : /\ y \notin Remains(e, job) /\ Remains(f, job) = Remains(e, job) \cup {y}
                /\ KeyAt(f, y) = key(n + 1)
  BY TaggedRemains
<1>2. PICK y : /\ y \notin Remains(e, job) /\ Remains(f, job) = Remains(e, job) \cup {y}
               /\ KeyAt(f, y) = key(n + 1)
  BY <1>1
<1>3. \A x \in Remains(e, job) : KeyAt(f, x) = KeyAt(e, x)  BY StaysRows DEF Remains
<1>4. /\ IsFiniteSet(Remains(e, job)) /\ Cardinality(Remains(e, job)) = n
      /\ \A x \in Remains(e, job) : \E k \in 1..n : KeyAt(e, x) = key(k)
      /\ \A k \in 1..n : \E x \in Remains(e, job) : KeyAt(e, x) = key(k)
      /\ \A j : j # job => Remains(e, j) = Remains(d, j)
  BY DEF Traced
<1>5. IsFiniteSet(Remains(f, job)) /\ Cardinality(Remains(f, job)) = n + 1  BY <1>2, <1>4, FS_AddElement
<1> HIDE DEF key
<1>6. n + 1 \in 1..(n + 1) /\ \A k \in 1..n : k \in 1..(n + 1)  OBVIOUS
<1>7. \A k \in 1..(n + 1) : k \in 1..n \/ k = n + 1  OBVIOUS
<1>8. \A x \in Remains(f, job) : \E k \in 1..(n + 1) : KeyAt(f, x) = key(k)  BY <1>2, <1>3, <1>4, <1>6
<1>9. \A k \in 1..(n + 1) : \E x \in Remains(f, job) : KeyAt(f, x) = key(k)  BY <1>2, <1>3, <1>4, <1>7
<1>10. \A j : j # job => Remains(f, j) = Remains(d, j)  BY <1>1, <1>4
<1>11. QED  BY <1>5, <1>8, <1>9, <1>10 DEF Traced, key

\* The items of a well-formed batch have keys of their own, in its order too.
LEMMA BatchKeys ==
  ASSUME NEW d, NEW job, Ready(d, job), WellFormed(d.jobs[job].output)
  PROVE  LET items == d.jobs[job].output.items  batch == Batch(d, job) IN
         /\ \A n, k \in 1..Len(batch) : batch[n].key = batch[k].key => n = k
         /\ \A i \in DOMAIN items : \E n \in 1..Len(batch) : batch[n] = items[i]
<1> DEFINE items == d.jobs[job].output.items  batch == Batch(d, job)
<1>1. /\ IsSeq(items) /\ (\A i \in DOMAIN items : IsItem(items[i]))
      /\ DOMAIN items = 1..Len(items) /\ DOMAIN batch = DOMAIN items /\ Len(batch) = Len(items)
  BY BatchFacts
<1>2. batch = InOrder(items)  BY DEF Batch
<1>3. \A i, j \in DOMAIN items : i # j => items[i].key # items[j].key  BY DEF WellFormed
<1> HIDE DEF items, batch
<1>4. \A n \in DOMAIN items : \E j \in DOMAIN items : Place(items, j) = n /\ batch[n] = items[j]
  BY <1>1, <1>2, InOrderFacts
<1>5. \A j \in DOMAIN items : batch[Place(items, j)] = items[j]  BY <1>1, <1>2, InOrderFacts
<1>6. \A j \in DOMAIN items : Place(items, j) \in DOMAIN items  BY <1>1, Places
<1>7. DOMAIN items = 1..Len(batch)  BY <1>1
<1>8. ASSUME NEW n \in DOMAIN items, NEW k \in DOMAIN items, batch[n].key = batch[k].key PROVE n = k
  <2>1. PICK i \in DOMAIN items : Place(items, i) = n /\ batch[n] = items[i]  BY <1>4
  <2>2. PICK j \in DOMAIN items : Place(items, j) = k /\ batch[k] = items[j]  BY <1>4
  <2>3. i = j  BY <1>3, <1>8, <2>1, <2>2
  <2>4. QED  BY <2>1, <2>2, <2>3
<1>9. \A i \in DOMAIN items : \E n \in DOMAIN items : batch[n] = items[i]  BY <1>5, <1>6
<1>10. QED  BY <1>7, <1>8, <1>9 DEF items, batch

\* An item of which nothing is there yet leaves its row.
LEMMA ItemTagged ==
  ASSUME NEW d, Formed(d), NEW job, NEW item, IsItem(item), NEW local, Apply(d, job, item, local).ok,
         \A x \in Remains(d, job) : KeyAt(d, x) # Mine(job, item.key)
  PROVE  LET e == Apply(d, job, item, local).db IN Stays(d, e) /\ Tagged(d, e, Mine(job, item.key))
<1> DEFINE e == Apply(d, job, item, local).db  t == ItemTable[item.kind]  key == Mine(job, item.key)
<1>1. Leaves(d, e, t, key) /\ t \in KeyTables  BY ApplyLeaves
<1>2. FromBatch(key) /\ key[2] = job  BY DEF FromBatch, Mine
<1> HIDE DEF e, t, key
<1>3. Keyed(d, t, key) = {}
  <2> SUFFICES ASSUME NEW i \in Keyed(d, t, key) PROVE FALSE  OBVIOUS
  <2>1. i \in DOMAIN d[t] /\ d[t][i].key = key  BY DEF Keyed
  <2>2. <<t, i>> \in Rows(d) /\ KeyAt(d, <<t, i>>) = key  BY <1>1, <2>1, RowsAre DEF KeyAt
  <2>3. <<t, i>> \in Remains(d, job)  BY <1>2, <2>2 DEF Remains
  <2>4. QED  BY <2>2, <2>3 DEF key
<1>4. QED  BY <1>1, <1>3 DEF Leaves, e, key

LEMMA CourseTraced ==
  ASSUME NEW d, NEW job, Ready(d, job), WellFormed(d.jobs[job].output), Remains(d, job) = {}
  PROVE  \A n \in 0..Len(Batch(d, job)) :
           Course(d, job)[n].result.ok => Traced(d, Course(d, job)[n].result.db, job, n)
<1> DEFINE N == Len(Batch(d, job))
           after == Course(d, job)
           batch == Batch(d, job)
           S == {n \in 0..N : after[n].result.ok /\ ~ Traced(d, after[n].result.db, job, n)}
<1>1. N \in Nat /\ \A n \in 1..N : IsItem(batch[n])
  <2> DEFINE items == d.jobs[job].output.items
  <2>1. Len(items) \in Nat /\ Len(batch) = Len(items) /\ \A n \in 1..Len(batch) : IsItem(batch[n])  BY BatchFacts
  <2>2. QED  BY <2>1
<1>2. /\ after[0] = First(d, job)
      /\ \A n \in 1..N : n - 1 \in 0..N /\ after[n] = Proceed(job, after[n - 1], batch[n])
  BY <1>1, CourseFacts
<1>3. \A n \in 0..N : after[n].result.ok => Writes(d, after[n].result.db)  BY CourseWrites
<1>4. \A n, k \in 1..N : batch[n].key = batch[k].key => n = k  BY BatchKeys
<1> HIDE DEF N, after, batch
<1>5. SUFFICES ASSUME S # {} PROVE FALSE  BY DEF N, after
<1>6. S \subseteq Int /\ IsFiniteSet(S)
  <2>1. IsFiniteSet(0..N)  BY <1>1, FS_Interval
  <2>2. S \in SUBSET (0..N) /\ S \subseteq Int  BY <1>1
  <2> HIDE DEF S
  <2>3. IsFiniteSet(S)  BY <2>1, <2>2, FS_Subset
  <2>4. QED  BY <2>2, <2>3
<1> DEFINE m == Min(S)
<1>7. m \in S /\ \A x \in S : m <= x
  <2> HIDE DEF S
  <2>1. QED  BY <1>5, <1>6, MinFacts
<1> HIDE DEF m
<1>8. m \in 0..N /\ after[m].result.ok /\ ~ Traced(d, after[m].result.db, job, m)  BY <1>7
<1>9. m # 0
  <2>1. First(d, job).result.db = d  BY DEF First, Done
  <2>2. Traced(d, d, job, 0)  BY TracedNone
  <2>3. QED  BY <1>2, <1>8, <2>1, <2>2
<1>10. m \in 1..N /\ m - 1 \in 0..N /\ ~ m <= m - 1 /\ m - 1 \in Nat /\ (m - 1) + 1 = m  BY <1>1, <1>8, <1>9
<1>11. after[m] = Proceed(job, after[m - 1], batch[m])  BY <1>2, <1>10
<1> DEFINE s == after[m - 1]
           a == Apply(s.result.db, job, batch[m], s.local)
<1>12. m - 1 \notin S  BY <1>7, <1>10
<1>13. s.result.ok /\ after[m].result = a
  <2>1. s.result.ok  BY <1>8, <1>11 DEF Proceed
  <2>2. QED  BY <1>11, <2>1 DEF Proceed
<1>14. Traced(d, s.result.db, job, m - 1) /\ Writes(d, s.result.db)  BY <1>3, <1>10, <1>12, <1>13
<1> HIDE DEF s, S
<1>15. Formed(s.result.db)  BY <1>14 DEF Writes, Base
<1>16. a.ok  BY <1>8, <1>13
<1>17. \A x \in Remains(s.result.db, job) : KeyAt(s.result.db, x) # Mine(job, batch[m].key)
  <2> SUFFICES ASSUME NEW x \in Remains(s.result.db, job), KeyAt(s.result.db, x) = Mine(job, batch[m].key) PROVE FALSE
    OBVIOUS
  <2>1. PICK k \in 1..(m - 1) : KeyAt(s.result.db, x) = Mine(job, batch[k].key)  BY <1>14 DEF Traced, batch
  <2>2. batch[k].key = batch[m].key  BY <2>1 DEF Mine
  <2>3. k \in 1..N /\ k # m  BY <1>1, <1>10
  <2>4. QED  BY <1>4, <1>10, <2>2, <2>3
<1>18. IsItem(batch[m])  BY <1>1, <1>10
<1>19. Stays(s.result.db, a.db) /\ Tagged(s.result.db, a.db, Mine(job, batch[m].key))
  BY <1>15, <1>16, <1>17, <1>18, ItemTagged
<1> HIDE DEF a
<1>20. Tagged(s.result.db, a.db, Mine(job, Batch(d, job)[(m - 1) + 1].key))  BY <1>10, <1>19 DEF batch
<1>21. Traced(d, a.db, job, (m - 1) + 1)  BY <1>10, <1>14, <1>19, <1>20, TracedMore
<1>22. QED  BY <1>8, <1>10, <1>13, <1>21

\* A batch that was applied is there as a whole.
LEMMA AppliedTraced ==
  ASSUME NEW d, NEW job, Ready(d, job), WellFormed(d.jobs[job].output), Remains(d, job) = {}, Applied(d, job).ok
  PROVE  LET f == Applied(d, job).db IN Whole(f, job) /\ \A j : j # job => Remains(f, j) = Remains(d, j)
<1> DEFINE N == Len(Batch(d, job))  items == d.jobs[job].output.items  f == Applied(d, job).db
<1>1. Len(items) \in Nat /\ N = Len(items)  BY BatchFacts
<1>2. Applied(d, job) = Course(d, job)[N].result /\ N \in 0..N  BY <1>1, CourseFacts
<1>3. Traced(d, f, job, N)  BY <1>2, CourseTraced
<1>4. \A i \in DOMAIN items : \E n \in 1..N : Batch(d, job)[n] = items[i]  BY BatchKeys
<1>5. f.jobs = d.jobs  BY AppliedWrites DEF Writes, Untouched
<1> HIDE DEF f, N
<1>6. \A i \in DOMAIN items : \E x \in Remains(f, job) : KeyAt(f, x) = Mine(job, items[i].key)  BY <1>3, <1>4 DEF Traced
<1>7. IsFiniteSet(Remains(f, job)) /\ Cardinality(Remains(f, job)) = Len(items)  BY <1>1, <1>3 DEF Traced
<1>8. Whole(f, job)  BY <1>5, <1>6, <1>7 DEF Whole
<1>9. QED  BY <1>3, <1>8 DEF Traced, f

LEMMA ReceiptRemains ==
  ASSUME NEW d, Base(d), NEW job, NEW status
  PROVE  LET e == Receive(d, job, status) IN
         /\ \A j : Remains(e, j) = Remains(d, j)
         /\ \A j : \A x \in Remains(d, j) : KeyAt(e, x) = KeyAt(d, x)
         /\ e.jobs = d.jobs /\ e.receipts = d.receipts \cup {[job |-> job, status |-> status]}
<1> DEFINE e == Receive(d, job, status)
<1>1. Same(d, e, {"receipts"}) /\ e.receipts = d.receipts \cup {[job |-> job, status |-> status]}  BY ReceiveGood
<1> HIDE DEF e
<1>2. (\A t \in KeyTables : e[t] = d[t]) /\ e.jobs = d.jobs  BY <1>1 DEF Same, KeyTables, Tables, Fields
<1>3. Stays(d, e) /\ Untagged(d, e)  BY <1>2, SameUntagged DEF Stays
<1>4. \A j : Remains(e, j) = Remains(d, j)  BY <1>3, UntaggedRemains
<1>5. \A j : \A x \in Remains(d, j) : KeyAt(e, x) = KeyAt(d, x)  BY <1>3, StaysRows DEF Remains
<1>6. QED  BY <1>1, <1>2, <1>4, <1>5 DEF e

\* A receipt is added for a job that has none: what it says must be so.
LEMMA ReceivedMore ==
  ASSUME NEW d, Received(d), NEW job \in DOMAIN d.jobs, d.jobs[job].status = "done", Receipts(d, job) = {},
         NEW f, Base(f), f.jobs = d.jobs, f.receipts = d.receipts, NEW status,
         \A j : j # job => Remains(f, j) = Remains(d, j) /\ (Whole(d, j) => Whole(f, j)),
         IF status = "accepted" THEN Whole(f, job) ELSE Remains(f, job) = {}
  PROVE  Received(Receive(f, job, status))
<1> DEFINE e == Receive(f, job, status)  new == [job |-> job, status |-> status]
<1>1. /\ \A j : Remains(e, j) = Remains(f, j)
      /\ \A j : \A x \in Remains(f, j) : KeyAt(e, x) = KeyAt(f, x)
      /\ e.jobs = d.jobs /\ e.receipts = d.receipts \cup {new}
  BY ReceiptRemains
<1>2. new.job = job /\ new.status = status  OBVIOUS
<1> HIDE DEF e, new
<1>3. \A r \in d.receipts : r.job # job  BY DEF Receipts
<1>4. \A j : Whole(f, j) => Whole(e, j)  BY <1>1 DEF Whole
<1>5. \A j : j # job => Accepted(e, j) = Accepted(d, j)  BY <1>1, <1>2 DEF Accepted
<1>6. Accepted(e, job) = (status = "accepted")  BY <1>1, <1>2, <1>3 DEF Accepted
<1>7. \A j : IF Accepted(e, j) THEN Whole(e, j) ELSE Remains(e, j) = {}
  <2> TAKE j
  <2>1. CASE j = job  BY <1>1, <1>4, <1>6, <2>1
  <2>2. CASE j # job
    <3>1. IF Accepted(d, j) THEN Whole(d, j) ELSE Remains(d, j) = {}  BY DEF Received
    <3>2. Remains(e, j) = Remains(d, j) /\ (Whole(d, j) => Whole(e, j))  BY <1>1, <1>4, <2>2
    <3>3. QED  BY <1>5, <2>2, <3>1, <3>2
  <2>3. QED  BY <2>1, <2>2
<1>8. \A r \in e.receipts : r.job \in DOMAIN e.jobs /\ e.jobs[r.job].status = "done"  BY <1>1, <1>2 DEF Received
<1>9. \A r, s \in e.receipts : r.job = s.job => r = s  BY <1>1, <1>2, <1>3 DEF Received
<1>10. QED  BY <1>7, <1>8, <1>9 DEF Received, e

LEMMA IngestReceived ==
  ASSUME NEW d, NEW job, Ready(d, job), Received(d)
  PROVE  Received(Ingest(d, job))
<1> DEFINE f == Applied(d, job).db
<1>1. \/ Ingest(d, job) = d
      \/ /\ Receipts(d, job) = {} /\ WellFormed(d.jobs[job].output) /\ Applied(d, job).ok
         /\ Ingest(d, job) = Receive(f, job, "accepted")
      \/ Receipts(d, job) = {} /\ Ingest(d, job) = Receive(d, job, "rejected")
  BY DEF Ingest
<1>2. Base(d) /\ job \in DOMAIN d.jobs /\ d.jobs[job].status = "done"  BY DEF Ready
<1>3. Receipts(d, job) = {} => Remains(d, job) = {}
  <2>1. Receipts(d, job) = {} => ~ Accepted(d, job)  BY DEF Receipts, Accepted
  <2>2. QED  BY <2>1 DEF Received
<1>4. CASE Ingest(d, job) = d  BY <1>4
<1>5. CASE /\ Receipts(d, job) = {} /\ WellFormed(d.jobs[job].output) /\ Applied(d, job).ok
           /\ Ingest(d, job) = Receive(f, job, "accepted")
  <2>1. Writes(d, f)  BY <1>5, AppliedWrites
  <2>2. Whole(f, job) /\ \A j : j # job => Remains(f, j) = Remains(d, j)  BY <1>3, <1>5, AppliedTraced
  <2> HIDE DEF f
  <2>3. Base(f) /\ f.jobs = d.jobs /\ f.receipts = d.receipts /\ Stays(d, f)  BY <2>1, KeptStays DEF Writes, Untouched
  <2>4. \A j : \A x \in Remains(d, j) : KeyAt(f, x) = KeyAt(d, x)  BY <2>3, StaysRows DEF Remains
  <2>5. \A j : j # job => Remains(f, j) = Remains(d, j) /\ (Whole(d, j) => Whole(f, j))  BY <2>2, <2>3, <2>4 DEF Whole
  <2>6. IF "accepted" = "accepted" THEN Whole(f, job) ELSE Remains(f, job) = {}  BY <2>2
  <2>7. Received(Receive(f, job, "accepted"))  BY <1>2, <1>5, <2>3, <2>5, <2>6, ReceivedMore
  <2>8. QED  BY <1>5, <2>7
<1>6. CASE Receipts(d, job) = {} /\ Ingest(d, job) = Receive(d, job, "rejected")
  <2>1. IF "rejected" = "accepted" THEN Whole(d, job) ELSE Remains(d, job) = {}  BY <1>3, <1>6
  <2>2. \A j : j # job => Remains(d, j) = Remains(d, j) /\ (Whole(d, j) => Whole(d, j))  OBVIOUS
  <2>3. Received(Receive(d, job, "rejected"))  BY <1>2, <1>6, <2>1, <2>2, ReceivedMore
  <2>4. QED  BY <1>6, <2>3
<1>7. QED  BY <1>1, <1>4, <1>5, <1>6

LEMMA WorkersReceived == ASSUME Base(db), Received(db), Kept(db, db'), Workers PROVE Received(db')
<1>1. PICK job \in DOMAIN db.jobs :
        LeaseJob(job) \/ RetryJob(job) \/ IngestAgain(job) \/ \E output \in Outputs : CompleteJob(job, output)
  BY DEF Workers
<1>2. CASE LeaseJob(job)
  <2> DEFINE v == SetStatus(db, job, "assigned").jobs[job].attempts + 1
  <2>1. db' = JobWith(db, job, "assigned", "attempts", v)  BY <1>2 DEF LeaseJob, JobWith
  <2> HIDE DEF v
  <2>2. Quiet(db, db')  BY <2>1, MoreQuiet
  <2>3. QED  BY <2>2, QuietReceived
<1>3. CASE RetryJob(job)
  <2>1. PICK status \in {"queued", "failed", "cancelled"} : db' = SetStatus(db, job, status)  BY <1>3 DEF RetryJob
  <2>2. Quiet(db, db')  BY <2>1, StatusQuiet
  <2>3. QED  BY <2>2, QuietReceived
<1>4. CASE IngestAgain(job)
  <2>1. Ready(db, job) /\ db' = Ingest(db, job)  BY <1>4 DEF IngestAgain, Ready
  <2>2. QED  BY <2>1, IngestReceived
<1>5. ASSUME NEW output \in Outputs, CompleteJob(job, output) PROVE Received(db')
  <2> DEFINE m == JobWith(db, job, "done", "output", output)
  <2>0. m = JobWith(db, job, "done", "output", output) /\ m.jobs[job].status = "done"  BY DoneRow
  <2>1. db.jobs[job].status # "done" /\ db' = Ingest(m, job)  BY <1>5 DEF CompleteJob, JobWith
  <2> HIDE DEF m
  <2>2. "output" \in {"attempts", "output"} /\ ("done" = "done" => "output" = "output" /\ output \in Outputs)
    OBVIOUS
  <2>3. Good(db, m)  BY <2>0, <2>1, <2>2, StatusAndMore
  <2>4. job \in DOMAIN m.jobs  BY <2>0, <2>1, <2>2, StatusAndMore
  <2>5. Ready(m, job)  BY <2>0, <2>3, <2>4 DEF Ready, Good, Sound
  <2>6. Quiet(db, m) /\ Kept(db, m)  BY <2>0, <2>2, <2>3, MoreQuiet DEF Good, Sound
  <2>7. Received(m)  BY <2>6, QuietReceived
  <2>8. QED  BY <2>1, <2>5, <2>7, IngestReceived
<1>6. QED  BY <1>1, <1>2, <1>3, <1>4, <1>5

LEMMA InitReceived == Init => Received(db)
<1> SUFFICES ASSUME Init PROVE Received(db)  OBVIOUS
<1>1. db = Group  BY DEF Init
<1>2. /\ db.agents = <<>> /\ db.tasks = <<>> /\ db.jobs = <<>> /\ db.messages = <<>> /\ db.artifacts = <<>>
      /\ db.relationships = <<>> /\ db.reviews = <<>> /\ db.asks = <<>> /\ db.receipts = {}
      /\ db.publications = <<[key |-> RootKey, body |-> [content |-> Target, source |-> Coordinator], claim |-> 1]>>
  BY <1>1 DEF Group
<1>3. \A t \in KeyTables \ {"publications"} : db[t] = <<>>  BY <1>2 DEF KeyTables, Tables
<1>4. \A i \in DOMAIN db.publications : db.publications[i].key = RootKey  BY <1>2
<1>5. ~ FromBatch(RootKey)  BY DEF FromBatch, RootKey
<1>6. \A x \in Rows(db) : ~ FromBatch(KeyAt(db, x))
  <2> TAKE x \in Rows(db)
  <2>1. PICK t \in KeyTables : \E i \in DOMAIN db[t] : x = <<t, i>>  BY RowsAre
  <2>2. PICK i \in DOMAIN db[t] : x = <<t, i>>  BY <2>1
  <2>3. t = "publications"
    <3>1. \A k \in DOMAIN << >> : FALSE  OBVIOUS
    <3>2. QED  BY <1>3, <2>2, <3>1
  <2>4. KeyAt(db, x) = RootKey  BY <1>4, <2>2, <2>3 DEF KeyAt
  <2>5. QED  BY <1>5, <2>4
<1>7. \A job : Remains(db, job) = {}  BY <1>6 DEF Remains
<1>8. \A job : ~ Accepted(db, job)  BY <1>2 DEF Accepted
<1>9. QED  BY <1>2, <1>7, <1>8 DEF Received

\* What the receipts say is so.
BInv == GInv /\ Received(db)

LEMMA NextBInv == BInv /\ [Next]_vars => BInv'
<1> SUFFICES ASSUME BInv, [Next]_vars PROVE BInv'  OBVIOUS
<1>1. GInv /\ GInv' /\ Base(db) /\ Received(db)  BY NextGInv DEF BInv, GInv
<1>2. Received(db')
  <2>1. CASE UNCHANGED vars
    <3>1. db' = db  BY <2>1 DEF vars
    <3>2. QED  BY <1>1, <3>1
  <2>2. CASE Next
    <3>1. Kept(db, db')  BY <1>1, <2>2, NextGood DEF Good, Sound
    <3>2. CASE Serve  BY <1>1, <3>1, <3>2, ServeQuiet, QuietReceived
    <3>3. CASE Workers  BY <1>1, <3>1, <3>3, WorkersReceived
    <3>4. CASE Stop  BY <1>1, <3>1, <3>4, StopQuiet, QuietReceived
    <3>5. QED  BY <2>2, <3>2, <3>3, <3>4 DEF Next
  <2>3. QED  BY <2>1, <2>2
<1>3. Received(db)'
  BY <1>2 DEF Received, Accepted, Whole, Remains, Rows, KeyAt
<1>4. QED  BY <1>1, <1>3 DEF BInv

LEMMA BInvariance == Spec => []BInv
<1>1. Init => BInv  BY InitGInv, InitReceived DEF BInv
<1>2. QED  BY <1>1, NextBInv, PTL DEF Spec

LEMMA InvBatch == BInv => BatchWhole
<1> SUFFICES ASSUME BInv, NEW j \in DOMAIN db.jobs
             PROVE  LET items == db.jobs[j].output.items IN
                    /\ Cardinality(Receipts(db, j)) <= 1
                    /\ IF \E r \in Receipts(db, j) : r.status = "accepted"
                       THEN /\ Cardinality(Left(j)) = Len(items)
                            /\ \A i \in DOMAIN items : \E left \in Left(j) : db[left[1]][left[2]].key = Mine(j, items[i].key)
                       ELSE Left(j) = {}
  BY DEF BatchWhole
<1> DEFINE items == db.jobs[j].output.items
<1>1. Received(db)  BY DEF BInv
<1>2. Left(j) = Remains(db, j)
  <2>1. Entries(KeyTables) = Rows(db)  BY DEF Entries, Rows
  <2>2. Left(j) = {e \in Entries(KeyTables) : FromBatch(KeyAt(db, e)) /\ KeyAt(db, e)[2] = j}
    BY DEF Left, KeyTables, FromBatch, KeyAt
  <2>3. QED  BY <2>1, <2>2 DEF Remains
<1>3. (\E r \in Receipts(db, j) : r.status = "accepted") <=> Accepted(db, j)  BY DEF Receipts, Accepted
<1>4. IF Accepted(db, j) THEN Whole(db, j) ELSE Remains(db, j) = {}  BY <1>1 DEF Received
<1>5. Cardinality(Receipts(db, j)) <= 1
  <2>1. CASE Receipts(db, j) = {}
    <3>1. Cardinality(Receipts(db, j)) = 0  BY <2>1, FS_EmptySet
    <3>2. QED  BY <3>1
  <2>2. CASE Receipts(db, j) # {}
    <3>1. PICK r \in Receipts(db, j) : TRUE  BY <2>2
    <3>2. \A s \in Receipts(db, j) : s = r  BY <1>1, <3>1 DEF Received, Receipts
    <3>3. Cardinality(Receipts(db, j)) = 1  BY <3>1, <3>2, OneOf
    <3>4. QED  BY <3>3
  <2>3. QED  BY <2>1, <2>2
<1>6. ASSUME Accepted(db, j)
      PROVE  /\ Cardinality(Left(j)) = Len(items)
             /\ \A i \in DOMAIN items : \E left \in Left(j) : db[left[1]][left[2]].key = Mine(j, items[i].key)
  <2>1. Whole(db, j)  BY <1>4, <1>6
  <2>2. Cardinality(Remains(db, j)) = Len(items)  BY <2>1 DEF Whole
  <2>3. \A i \in DOMAIN items : \E x \in Remains(db, j) : db[x[1]][x[2]].key = Mine(j, items[i].key)
    BY <2>1 DEF Whole, KeyAt
  <2>4. QED  BY <1>2, <2>2, <2>3
<1>7. QED  BY <1>2, <1>3, <1>4, <1>5, <1>6

\* The batch of a job is in the graph as a whole and once, if it was accepted, and has left no trace if
\* it was not, however many items it has, whichever of them fails and however often it is delivered
\* (_ingest_group_graph_response: one transaction, one receipt, keys made of the job and the item).
THEOREM BatchesAreWhole == Spec => []BatchWhole
BY BInvariance, InvBatch, PTL

===============================================================================
