----------------------------- MODULE FrontierProofs -----------------------------
(***************************************************************************)
(* Theorems about Frontier, for every configuration of a group, every set  *)
(* of claims and whatever the answers, the reviews and the checks bring.   *)
(***************************************************************************)
EXTENDS Frontier, FiniteLemmas, SequenceTheorems

-------------------------------------------------------------------------------
(* The inductive invariant *)

Ruling == {"none", "verified", "rejected", "timeout", "verifier_error"}
Tag == {"proposal", "review", "artifact", "job", "target"}
Row == [claim : Claim, action : Action, why : Why, on : SUBSET (Tag \X Nat), about : Nat,
        context : SUBSET Nat, retry : Nat, depth : 0..MaxDepth, cost : Nat, revision : Nat, leases : 1..2,
        status : Open \cup Closed, processed : BOOLEAN, verdict : Ruling, said : BOOLEAN]
Art == [claim : Aux, status : {"pending", "verified", "rejected", "failed", "incompatible"}, job : Nat]
Asking == [action : {"none", "critique", "investigate", "prove"}, id : Nat, priority : 0..3]

Shape ==
  /\ limits \in Limits /\ phase \in {"frontier", "stopped"}
  /\ overdue \in BOOLEAN /\ erred \in BOOLEAN /\ fresh \in BOOLEAN
  /\ history \in Seq(Row) /\ Len(history) <= limits.tasks
  /\ work \in Nat /\ artifacts \in Seq(Art)
  /\ opinion \in [Aux -> {"none", "suggested", "promising", "challenged", "abandoned"}]
  /\ review \in [Aux -> Nat] /\ proposal \in [Claim -> Asking]
  /\ ops \in Nat /\ targetOps \in Nat /\ targetOps <= ops /\ ops <= limits.operations
  /\ hiccups \in 0..MaxHiccups /\ revision \in Nat

\* A decision is about the target exactly if it plans or synthesizes, and only syntheses are judged.
Rowed ==
  /\ \A n \in DOMAIN history :
       /\ history[n].claim = Root <=> history[n].action \in {"plan", "synthesize"}
       /\ history[n].status = "verifying" \/ history[n].verdict # "none" => history[n].action = "synthesize"
       /\ history[n].context \subseteq DOMAIN artifacts
       /\ history[n].revision <= revision
  /\ \A k \in DOMAIN artifacts : artifacts[k].job \in DOMAIN history

\* Only the last decision is open, and what it did not bring is unchecked only after a rebinding.
Sequential ==
  /\ \A n \in 1..(Len(history) - 1) : history[n].status \in Closed /\ history[n].processed
  /\ \A k \in DOMAIN artifacts : artifacts[k].status = "pending" =>
       artifacts[k].job = Len(history) \/ history[Len(history)].revision < revision

Spending == [n \in DOMAIN history |-> history[n].cost]
Balanced == work + SumOver(Spending, DOMAIN history) = limits.work

-------------------------------------------------------------------------------
(* The parameters *)

LEMMA LimitFacts ==
  ASSUME Shape
  PROVE  /\ limits \in Limit /\ limits.tasks \in 1..32 /\ limits.work \in Nat
         /\ limits.planning \in 1..8 /\ limits.operations \in 1..24
         /\ limits.retries \in 0..1 /\ limits.corrections \in 0..1
         /\ limits.direct \in 0..1 /\ limits.reserve \in 0..1
         /\ Slots \in 1..2
BY FrontierAssumption DEF Shape, Limit, Slots

LEMMA ClaimFacts ==
  /\ Aux \subseteq Nat /\ Root \in Nat /\ Root \notin Aux /\ Claim \subseteq Nat /\ IsFiniteSet(Claim)
  /\ IsFiniteSet(Aux)
<1>1. Aux \subseteq Nat /\ Root \in Nat /\ Root \notin Aux /\ IsFiniteSet(Aux)  BY FrontierAssumption
<1>2. IsFiniteSet(Aux \cup {Root})  BY <1>1, FS_AddElement
<1>3. QED  BY <1>1, <1>2 DEF Claim

\* The dearest model of a role, and the cheapest.
LEMMA CostFacts ==
  ASSUME NEW action \in Action
  PROVE  LET costs == Costs[Role(action)] IN
         /\ costs \subseteq 1..8 /\ Max(costs) \in costs /\ Min(costs) \in costs
         /\ \A k \in costs : k <= Max(costs) /\ Min(costs) <= k
<1> DEFINE costs == Costs[Role(action)]
<1>1. costs # {} /\ costs \subseteq 1..8  BY FrontierAssumption
<1>2. costs \in SUBSET Nat /\ \A k \in costs : k <= 8  BY <1>1
<1>3. IsFiniteSet(costs) /\ costs \subseteq Int  BY <1>2, FS_BoundedSetOfNaturals
<1> HIDE DEF costs
<1>4. Max(costs) \in costs /\ Min(costs) \in costs
      /\ \A k \in costs : Max(costs) >= k /\ Min(costs) <= k
  BY <1>1, <1>3, MaxFacts, MinFacts
<1>5. \A k \in costs : k <= Max(costs)
  BY <1>1, <1>4
<1>6. QED  BY <1>1, <1>4, <1>5 DEF costs

-------------------------------------------------------------------------------
(* Steps that decide nothing keep every decision *)

KeepRow(d, e) ==
  /\ e.claim = d.claim /\ e.action = d.action /\ e.why = d.why /\ e.on = d.on /\ e.about = d.about
  /\ e.context = d.context /\ e.retry = d.retry /\ e.depth = d.depth /\ e.cost = d.cost
  /\ e.leases = d.leases /\ e.revision = d.revision
  /\ d.status \in Closed => e.status = d.status /\ e.verdict = d.verdict
  /\ d.processed => e.processed
  /\ e.status = "verifying" => d.status = "verifying" \/ d.action = "synthesize"
  /\ e.verdict # d.verdict => d.status = "verifying"

Keeps(H) ==
  /\ H \in Seq(Row) /\ Len(H) = Len(history)
  /\ \A n \in DOMAIN history : KeepRow(history[n], H[n])

LEMMA KeepsHistory == ASSUME Shape PROVE Keeps(history)
BY DEF Shape, Keeps, KeepRow

\* One row gets another status; processed, verdict and said may change with it.
LEMMA KeepsOne ==
  ASSUME Shape, NEW n \in DOMAIN history, history[n].status \in Open,
         NEW e \in Row, NEW H, H = [history EXCEPT ![n] = e],
         e = [history[n] EXCEPT !.status = e.status, !.processed = e.processed, !.verdict = e.verdict,
                                !.said = e.said],
         history[n].processed => e.processed,
         e.status = "verifying" => history[n].status = "verifying" \/ history[n].action = "synthesize",
         e.verdict # history[n].verdict => history[n].status = "verifying"
  PROVE  Keeps(H)
<1>1. history \in Seq(Row) /\ DOMAIN history = 1..Len(history)  BY DEF Shape
<1>2. H \in Seq(Row) /\ Len(H) = Len(history)  BY <1>1
<1>3. H[n] = e /\ \A m \in DOMAIN history : m # n => H[m] = history[m]  BY <1>1
<1>4. history[n] \in Row  BY <1>1
<1>5. history[n].status \notin Closed  BY DEF Open, Closed
<1>6. KeepRow(history[n], e)
  <2> DEFINE d == history[n]
             s == e.status  p == e.processed  v == e.verdict  a == e.said
  <2>1. e = [d EXCEPT !.status = s, !.processed = p, !.verdict = v, !.said = a]  OBVIOUS
  <2>2. d \in Row  BY <1>4
  <2> HIDE DEF d, s, p, v, a
  <2>3. /\ e.claim = d.claim /\ e.action = d.action /\ e.why = d.why /\ e.on = d.on /\ e.about = d.about
        /\ e.context = d.context /\ e.retry = d.retry /\ e.depth = d.depth /\ e.cost = d.cost
        /\ e.leases = d.leases /\ e.revision = d.revision
    BY <2>1, <2>2 DEF Row
  <2>4. QED  BY <1>5, <2>3 DEF KeepRow, d
<1>7. \A m \in DOMAIN history : KeepRow(history[m], H[m])
  BY <1>3, <1>6 DEF KeepRow
<1>8. QED  BY <1>2, <1>7 DEF Keeps

LEMMA KeepsStop ==
  ASSUME Shape, NEW rows, Keeps(rows), NEW why, Stop(why, rows)
  PROVE  /\ Keeps(history') /\ phase' = "stopped" /\ reason' = why
         /\ \A n \in DOMAIN history : rows[n].status \in Closed => history'[n].status \in Closed
<1>1. history' = [n \in DOMAIN rows |-> Cancelled(rows[n])] /\ phase' = "stopped" /\ reason' = why
  BY DEF Stop
<1>2. rows \in Seq(Row) /\ Len(rows) = Len(history) /\ DOMAIN rows = 1..Len(rows)
      /\ DOMAIN history = 1..Len(history)
  BY DEF Keeps, Shape
<1>3. \A d \in Row : /\ Cancelled(d) \in Row /\ Cancelled(d).status \in {d.status, "cancelled"}
                     /\ d.status # "queued" => Cancelled(d) = d
                     /\ Cancelled(d).claim = d.claim /\ Cancelled(d).action = d.action
                     /\ Cancelled(d).why = d.why /\ Cancelled(d).on = d.on /\ Cancelled(d).about = d.about
                     /\ Cancelled(d).context = d.context /\ Cancelled(d).retry = d.retry
                     /\ Cancelled(d).depth = d.depth /\ Cancelled(d).cost = d.cost
                     /\ Cancelled(d).leases = d.leases /\ Cancelled(d).processed = d.processed
                     /\ Cancelled(d).verdict = d.verdict /\ Cancelled(d).revision = d.revision
  BY DEF Cancelled, Row, Closed
<1>4. history' \in Seq(Row) /\ Len(history') = Len(history)
      /\ \A n \in DOMAIN history : history'[n] = Cancelled(rows[n]) /\ rows[n] \in Row
  <2>1. \A n \in 1..Len(rows) : rows[n] \in Row /\ Cancelled(rows[n]) \in Row  BY <1>2, <1>3
  <2>2. history' = [n \in 1..Len(rows) |-> Cancelled(rows[n])]  BY <1>1, <1>2
  <2>3. Len(rows) \in Nat  BY <1>2
  <2>4. QED  BY <1>2, <2>1, <2>2, <2>3
<1>5. \A n \in DOMAIN history : KeepRow(history[n], rows[n])  BY DEF Keeps
<1>6. ASSUME NEW n \in DOMAIN history
      PROVE  /\ KeepRow(history[n], history'[n])
             /\ rows[n].status \in Closed => history'[n].status \in Closed
  <2> DEFINE d == history[n]  r == rows[n]  e == history'[n]
  <2>1. e = Cancelled(r) /\ r \in Row /\ KeepRow(d, r)  BY <1>4, <1>5
  <2> HIDE DEF d, r, e
  <2>2. KeepRow(d, e) /\ (r.status \in Closed => e.status \in Closed)
    <3>1. r.status \in Closed => e = r  BY <1>3, <2>1 DEF Closed
    <3>2. e.status \in {r.status, "cancelled"} /\ e.verdict = r.verdict /\ e.processed = r.processed
      BY <1>3, <2>1
    <3>3. e.status = "verifying" => r.status = "verifying"  BY <3>2
    <3>4. QED  BY <1>3, <2>1, <3>1, <3>2, <3>3 DEF KeepRow
  <2>3. QED  BY <2>2 DEF d, r, e
<1>7. QED  BY <1>1, <1>4, <1>6 DEF Keeps

LEMMA KeepsSettled ==
  ASSUME Shape
  PROVE  /\ Keeps(Settled)
         /\ \A n \in DOMAIN history : Settled[n].status = history[n].status
         /\ (\A n \in DOMAIN history : history[n].status \in Closed) =>
              \A n \in DOMAIN history : Settled[n].processed
<1>1. history \in Seq(Row) /\ DOMAIN history = 1..Len(history)  BY DEF Shape
<1>2. \A d \in Row : LET e == [d EXCEPT !.processed = TRUE] IN
                     /\ e \in Row /\ KeepRow(d, e) /\ e.status = d.status /\ e.processed
  BY DEF Row, KeepRow
<1>3. \A n \in DOMAIN history : history[n] \in Row /\ KeepRow(history[n], history[n])  BY <1>1 DEF KeepRow
<1>4. \A n \in DOMAIN history : Settled[n] \in {history[n], [history[n] EXCEPT !.processed = TRUE]}
  BY DEF Settled
<1>5. DOMAIN Settled = DOMAIN history  BY DEF Settled
<1>6. Settled \in Seq(Row) /\ Len(Settled) = Len(history)
  <2>1. \A n \in 1..Len(history) : Settled[n] \in Row  BY <1>1, <1>2, <1>3, <1>4
  <2>2. Settled = [n \in 1..Len(history) |-> Settled[n]]  BY <1>1 DEF Settled
  <2>3. Len(history) \in Nat  BY <1>1
  <2> HIDE DEF Settled
  <2>4. QED  BY <2>1, <2>2, <2>3
<1>7. \A n \in DOMAIN history : KeepRow(history[n], Settled[n]) /\ Settled[n].status = history[n].status
  BY <1>2, <1>3, <1>4
<1>8. ASSUME \A n \in DOMAIN history : history[n].status \in Closed, NEW n \in DOMAIN history
      PROVE  Settled[n].processed
  <2>1. Settled[n] = [history[n] EXCEPT !.processed = TRUE]
    BY <1>1, <1>8 DEF Settled
  <2>2. QED  BY <1>2, <1>3, <2>1
<1>9. QED  BY <1>6, <1>7, <1>8 DEF Keeps

-------------------------------------------------------------------------------
(* Candidates *)

Cand == [claim : Claim, action : Action, rank : Int, order : 0..1, why : Why,
         on : SUBSET (Tag \X Nat), about : Nat, above : Nat]

LEMMA CandidateFacts ==
  ASSUME NEW c \in Claim, NEW action \in Action, NEW rank \in Int, NEW order \in 0..1,
         NEW why \in Why, NEW on \in SUBSET (Tag \X Nat)
  PROVE  LET x == Candidate(c, action, rank, order, why, on) IN
         /\ x \in Cand /\ x.claim = c /\ x.action = action /\ x.rank = rank /\ x.order = order
         /\ x.why = why /\ x.on = on /\ x.about = 0 /\ x.above = 0
BY DEF Candidate, Cand

LEMMA JobsFinite ==
  ASSUME Shape
  PROVE  /\ history \in Seq(Row) /\ DOMAIN history = 1..Len(history) /\ Len(history) \in Nat
         /\ \A S : S \subseteq DOMAIN history => IsFiniteSet(S) /\ S \subseteq Nat /\ S \subseteq Int
         /\ artifacts \in Seq(Art) /\ DOMAIN artifacts = 1..Len(artifacts)
         /\ \A S : S \subseteq DOMAIN artifacts => IsFiniteSet(S) /\ S \subseteq Nat /\ S \subseteq Int
<1>1. history \in Seq(Row) /\ DOMAIN history = 1..Len(history) /\ Len(history) \in Nat  BY DEF Shape
<1>2. artifacts \in Seq(Art) /\ DOMAIN artifacts = 1..Len(artifacts) /\ Len(artifacts) \in Nat
  BY DEF Shape
<1>3. IsFiniteSet(1..Len(history))  BY <1>1, FS_Interval
<1>4. IsFiniteSet(1..Len(artifacts))  BY <1>2, FS_Interval
<1>5. \A S : S \subseteq DOMAIN history => IsFiniteSet(S)  BY <1>1, <1>3, FS_Subset
<1>6. \A S : S \subseteq DOMAIN artifacts => IsFiniteSet(S)  BY <1>2, <1>4, FS_Subset
<1>7. QED  BY <1>1, <1>2, <1>5, <1>6

\* The latest of some decisions, and the latest bad artifact of a claim.
LEMMA LatestFacts ==
  ASSUME Shape, NEW S, S \subseteq DOMAIN history, S # {}
  PROVE  Max(S) \in S /\ \A n \in S : Max(S) >= n
BY JobsFinite, MaxFacts

LEMMA LastBadFacts ==
  ASSUME Shape, NEW c, ArtifactsOf(c, Bad) # {}
  PROVE  /\ LastBad(c) \in DOMAIN artifacts /\ LastBad(c) \in Nat
         /\ artifacts[LastBad(c)].claim = c /\ artifacts[LastBad(c)].job \in Nat
<1>1. ArtifactsOf(c, Bad) \subseteq DOMAIN artifacts  BY DEF ArtifactsOf
<1>2. LastBad(c) \in ArtifactsOf(c, Bad)  BY <1>1, JobsFinite, MaxFacts DEF LastBad
<1>3. LastBad(c) \in DOMAIN artifacts /\ artifacts[LastBad(c)].claim = c  BY <1>2 DEF ArtifactsOf
<1>4. artifacts[LastBad(c)] \in Art  BY <1>3, JobsFinite
<1>5. QED  BY <1>3, <1>4, JobsFinite DEF Art

Usual(x, c) == x \in Cand /\ x.claim = c /\ x.above = 0 /\ x.why \in {"review", "help", "rejected", "default"}

LEMMA HelpFacts ==
  ASSUME Shape, NEW c \in Aux, NEW x \in Help(c)
  PROVE  Usual(x, c) /\ x.action = "critique" /\ x.order = 1 /\ Help(c) = {x}
<1>1. proposal[c].id \in Nat  BY DEF Shape, Claim, Asking
<1>2. {<<"proposal", proposal[c].id>>} \in SUBSET (Tag \X Nat)  BY <1>1 DEF Tag
<1>3. Help(c) = {Candidate(c, "critique", 1, 1, "help", {<<"proposal", proposal[c].id>>})}
  BY DEF Help
<1>4. c \in Claim /\ "critique" \in Action /\ "help" \in Why  BY DEF Claim, Action, Why
<1>5. QED  BY <1>2, <1>3, <1>4, CandidateFacts DEF Usual

LEMMA ChallengedFacts ==
  ASSUME Shape, NEW c \in Aux, NEW x \in Challenged(c)
  PROVE  /\ Usual(x, c) /\ x.action = "critique"
         /\ x.order = 1 => x \in Help(c)
         /\ x.order = 0 => x = Candidate(c, "critique", 1, 0, "review", {<<"review", review[c]>>})
<1>1. {<<"review", review[c]>>} \in SUBSET (Tag \X Nat)  BY DEF Shape, Tag
<1>2. c \in Claim /\ "critique" \in Action /\ "review" \in Why  BY DEF Claim, Action, Why
<1>3. CASE x \in Help(c)  BY <1>3, HelpFacts
<1>4. CASE x = Candidate(c, "critique", 1, 0, "review", {<<"review", review[c]>>})
  BY <1>1, <1>2, <1>4, CandidateFacts DEF Usual
<1>5. QED  BY <1>3, <1>4 DEF Challenged

LEMMA CritiqueFacts ==
  ASSUME Shape, NEW c \in Aux, ArtifactsOf(c, Bad) # {}
  PROVE  Usual(Critique(c), c) /\ Critique(c).action = "critique" /\ Critique(c).order = 0
<1>1. c \in Claim /\ "critique" \in Action /\ "rejected" \in Why  BY DEF Claim, Action, Why
<1> DEFINE y == Candidate(c, "critique", 1, 0, "rejected", {})
<1>2. /\ y \in Cand /\ y.claim = c /\ y.action = "critique" /\ y.order = 0
      /\ y.why = "rejected" /\ y.above = 0
  BY <1>1, CandidateFacts
<1>3. Critique(c) = [y EXCEPT !.about = LastBad(c)]  BY DEF Critique
<1>4. LastBad(c) \in Nat  BY LastBadFacts
<1> HIDE DEF y
<1>5. QED  BY <1>2, <1>3, <1>4 DEF Usual, Cand

Repairing(x, c) ==
  /\ x \in Cand /\ x.claim = c /\ x.action = "investigate" /\ x.order = 0 /\ x.why = "auxiliary-repair"
  /\ limits.direct # 1 /\ Findings(c) # {} /\ Cardinality(Findings(c)) <= limits.retries
  /\ x.above = Max(Findings(c))

LEMMA RepairsFacts ==
  ASSUME Shape, NEW c \in Aux, ArtifactsOf(c, Bad) # {}, limits.direct # 1, NEW x \in Repairs(c)
  PROVE  Repairing(x, c) /\ Repairs(c) = {x}
<1>1. c \in Claim /\ "investigate" \in Action /\ "auxiliary-repair" \in Why  BY DEF Claim, Action, Why
<1> DEFINE y == Candidate(c, "investigate", 2, 0, "auxiliary-repair", {})
           z == [y EXCEPT !.about = LastBad(c), !.above = Max(Findings(c))]
<1>2. /\ y \in Cand /\ y.claim = c /\ y.action = "investigate" /\ y.order = 0
      /\ y.why = "auxiliary-repair"
  BY <1>1, CandidateFacts
<1>3. /\ Repairs(c) = {z} /\ Findings(c) # {} /\ Cardinality(Findings(c)) <= limits.retries
  BY DEF Repairs
<1>4. LastBad(c) \in Nat  BY LastBadFacts
<1>5. Max(Findings(c)) \in Nat
  <2>1. Findings(c) \subseteq DOMAIN history  BY DEF Findings, Jobs
  <2>2. QED  BY <1>3, <2>1, LatestFacts, JobsFinite
<1> HIDE DEF y
<1>6. /\ z \in Cand /\ z.claim = c /\ z.action = "investigate" /\ z.order = 0
      /\ z.why = "auxiliary-repair" /\ z.above = Max(Findings(c))
  BY <1>2, <1>4, <1>5 DEF Cand
<1> HIDE DEF z
<1>7. QED  BY <1>3, <1>6 DEF Repairing

Mending(x, c) ==
  /\ x \in Cand /\ x.claim = c /\ x.action = "investigate" /\ x.order = 0
  /\ x.why = "auxiliary-correction" /\ limits.direct = 1 /\ ~ Corrected(c)
  /\ x.about \in DOMAIN artifacts /\ artifacts[x.about].claim = c
  /\ artifacts[x.about].status = "rejected" /\ x.above = artifacts[x.about].job

LEMMA DirectFacts ==
  ASSUME Shape, NEW c \in Aux, ArtifactsOf(c, Bad) # {}, limits.direct = 1, NEW x \in Direct(c)
  PROVE  ((Usual(x, c) /\ x.action = "critique") \/ Mending(x, c)) /\ Direct(c) = {x}
<1>1. c \in Claim /\ "investigate" \in Action /\ "critique" \in Action
      /\ "auxiliary-correction" \in Why /\ "help" \in Why
  BY DEF Claim, Action, Why
<1>2. LastBad(c) \in Nat /\ LastBad(c) \in DOMAIN artifacts /\ artifacts[LastBad(c)].claim = c
      /\ artifacts[LastBad(c)].job \in Nat
  BY LastBadFacts
<1>3. CASE proposal[c].action = "critique"
  <2> DEFINE y == Candidate(c, "critique", 1, 0, "help", {<<"proposal", proposal[c].id>>})
             z == [y EXCEPT !.about = LastBad(c)]
  <2>1. proposal[c].id \in Nat  BY DEF Shape, Claim, Asking
  <2>2. {<<"proposal", proposal[c].id>>} \in SUBSET (Tag \X Nat)  BY <2>1 DEF Tag
  <2>3. /\ y \in Cand /\ y.claim = c /\ y.action = "critique" /\ y.why = "help" /\ y.above = 0
    BY <1>1, <2>2, CandidateFacts
  <2>4. Direct(c) = {z}  BY <1>3 DEF Direct
  <2> HIDE DEF y
  <2>5. Usual(z, c) /\ z.action = "critique"  BY <1>2, <2>3 DEF Usual, Cand
  <2> HIDE DEF z
  <2>6. QED  BY <2>4, <2>5
<1>4. CASE proposal[c].action # "critique" /\ ~ Corrected(c) /\ limits.retries > 0
           /\ artifacts[LastBad(c)].status = "rejected"
  <2> DEFINE y == Candidate(c, "investigate", -1, 0, "auxiliary-correction", {})
             z == [y EXCEPT !.about = LastBad(c), !.above = artifacts[LastBad(c)].job]
  <2>3. /\ y \in Cand /\ y.claim = c /\ y.action = "investigate" /\ y.order = 0
        /\ y.why = "auxiliary-correction"
    BY <1>1, CandidateFacts
  <2>4. Direct(c) = {z}  BY <1>4 DEF Direct
  <2> HIDE DEF y
  <2>5. /\ z \in Cand /\ z.claim = c /\ z.action = "investigate" /\ z.order = 0
        /\ z.why = "auxiliary-correction" /\ z.about = LastBad(c) /\ z.above = artifacts[LastBad(c)].job
    BY <1>2, <2>3 DEF Cand
  <2> HIDE DEF z
  <2>6. Mending(z, c)  BY <1>2, <1>4, <2>5 DEF Mending
  <2>7. QED  BY <2>4, <2>6
<1>5. CASE proposal[c].action # "critique" /\ ~ (~ Corrected(c) /\ limits.retries > 0
           /\ artifacts[LastBad(c)].status = "rejected")
  <2>1. Direct(c) = {Critique(c)}  BY <1>5 DEF Direct
  <2>2. QED  BY <2>1, CritiqueFacts
<1>6. QED  BY <1>3, <1>4, <1>5

LEMMA UnresolvedFacts ==
  ASSUME NEW c \in Aux, NEW x \in Unresolved(c)
  PROVE  Usual(x, c) /\ x.action \in {"prove", "investigate"} /\ Unresolved(c) = {x}
<1>1. c \in Claim /\ "investigate" \in Action /\ "prove" \in Action /\ "default" \in Why
  BY DEF Claim, Action, Why
<1>2. \/ Unresolved(c) = {Candidate(c, "prove", 2, 0, "default", {})}
      \/ Unresolved(c) = {Candidate(c, "investigate", 3, 0, "default", {})}
  BY DEF Unresolved
<1>3. QED  BY <1>1, <1>2, CandidateFacts DEF Usual

\* What the frontier may do about one claim, and that it is told apart by its action and order.
LEMMA AuxiliaryFacts ==
  ASSUME Shape, NEW c \in Aux, NEW x \in Auxiliary(c)
  PROVE  /\ x \in Cand /\ x.claim = c /\ x.action \in {"critique", "investigate", "prove"}
         /\ Usual(x, c) \/ Repairing(x, c) \/ Mending(x, c)
         /\ \A y \in Auxiliary(c) : y.action = x.action /\ y.order = x.order => y = x
<1>1. CASE opinion[c] = "abandoned"  BY <1>1 DEF Auxiliary
<1>2. CASE opinion[c] = "challenged"
  <2>1. Auxiliary(c) = Challenged(c)  BY <1>2 DEF Auxiliary
  <2>2. \A y \in Auxiliary(c) : /\ Usual(y, c) /\ y.action = "critique"
                                /\ y.order = 1 => Help(c) = {y}
                                /\ y.order = 0 => y = Candidate(c, "critique", 1, 0, "review", {<<"review", review[c]>>})
    BY <2>1, ChallengedFacts, HelpFacts
  <2>3. x.order \in {0, 1}  BY <2>2 DEF Usual, Cand
  <2>4. QED  BY <2>2, <2>3 DEF Usual
<1>3. CASE opinion[c] \in {"suggested", "promising"} /\ Checked(c)
  BY <1>3 DEF Auxiliary
<1>4. CASE opinion[c] \in {"suggested", "promising"} /\ ~ Checked(c) /\ ArtifactsOf(c, Bad) # {}
  <2>1. CASE limits.direct = 1
    <3>1. Auxiliary(c) = Direct(c)  BY <1>4, <2>1 DEF Auxiliary
    <3>2. QED  BY <1>4, <2>1, <3>1, DirectFacts DEF Usual, Mending
  <2>2. CASE limits.direct # 1
    <3>1. Auxiliary(c) = {Critique(c)} \cup Repairs(c) \cup Help(c)  BY <1>4, <2>2 DEF Auxiliary
    <3>2. /\ Usual(Critique(c), c) /\ Critique(c).action = "critique" /\ Critique(c).order = 0
      BY <1>4, CritiqueFacts
    <3>3. \A y \in Repairs(c) : Repairing(y, c) /\ Repairs(c) = {y}  BY <1>4, <2>2, RepairsFacts
    <3>4. \A y \in Help(c) : Usual(y, c) /\ y.action = "critique" /\ y.order = 1 /\ Help(c) = {y}
      BY HelpFacts
    <3>5. \A y \in Auxiliary(c) : y.action = x.action /\ y.order = x.order => y = x
      BY <3>1, <3>2, <3>3, <3>4 DEF Repairing
    <3>6. QED  BY <3>1, <3>2, <3>3, <3>4, <3>5 DEF Usual, Repairing
  <2>3. QED  BY <2>1, <2>2
<1>5. CASE ~ (opinion[c] = "abandoned") /\ ~ (opinion[c] = "challenged")
           /\ ~ (opinion[c] \in {"suggested", "promising"} /\ Checked(c))
           /\ ~ (opinion[c] \in {"suggested", "promising"} /\ ~ Checked(c) /\ ArtifactsOf(c, Bad) # {})
  <2>1. Auxiliary(c) = Unresolved(c) \cup Help(c)  BY <1>5 DEF Auxiliary
  <2>2. \A y \in Unresolved(c) : Usual(y, c) /\ y.action \in {"prove", "investigate"} /\ Unresolved(c) = {y}
    BY UnresolvedFacts
  <2>3. \A y \in Help(c) : Usual(y, c) /\ y.action = "critique" /\ y.order = 1 /\ Help(c) = {y}
    BY HelpFacts
  <2>4. \A y \in Auxiliary(c) : y.action = x.action /\ y.order = x.order => y = x
    BY <2>1, <2>2, <2>3
  <2>5. QED  BY <2>1, <2>2, <2>3, <2>4 DEF Usual
<1>6. QED  BY <1>1, <1>2, <1>3, <1>4, <1>5

-------------------------------------------------------------------------------
(* The candidates together *)

Plans == {n \in DOMAIN history : history[n].action = "plan"}
Syntheses == {n \in DOMAIN history : history[n].action = "synthesize"}

Planned(x) ==
  /\ x \in Cand /\ x.claim = Root /\ x.action = "plan" /\ x.order = 0 /\ x.above = 0
  /\ x.why \in {"initial", "events"} /\ Cardinality(Plans) < 3
Targeted(x) ==
  /\ x \in Cand /\ x.claim = Root /\ x.action = "synthesize" /\ x.order = 0 /\ x.above = 0
  /\ x.why = "default"
Retargeted(x) ==
  /\ x \in Cand /\ x.claim = Root /\ x.action = "synthesize" /\ x.order = 1
  /\ x.why = "target-correction" /\ ~ TargetCorrected
  /\ x.about \in DOMAIN history /\ history[x.about].verdict = "rejected" /\ x.above = x.about

LEMMA RootWords ==
  /\ Root \in Claim /\ "plan" \in Action /\ "synthesize" \in Action /\ "initial" \in Why
  /\ "default" \in Why /\ "events" \in Why /\ "target-correction" \in Why
BY DEF Claim, Action, Why

LEMMA InitialFacts ==
  ASSUME history = <<>>, NEW x \in Initial
  PROVE  Planned(x) /\ Initial = {x}
<1>1. Initial = {Candidate(Root, "plan", -1, 0, "initial", {})}  BY DEF Initial
<1>2. x = Candidate(Root, "plan", -1, 0, "initial", {})  BY <1>1
<1>3. Plans = {}  BY DEF Plans
<1>4. Cardinality(Plans) = 0  BY <1>3, FS_EmptySet
<1>5. -1 \in Int /\ 0 \in 0..1 /\ {} \in SUBSET (Tag \X Nat)  OBVIOUS
<1>6. /\ x \in Cand /\ x.claim = Root /\ x.action = "plan" /\ x.order = 0 /\ x.above = 0 /\ x.why = "initial"
  BY <1>2, <1>5, RootWords, CandidateFacts
<1>7. QED  BY <1>1, <1>2, <1>4, <1>6 DEF Planned

LEMMA TargetFacts ==
  ASSUME NEW x \in Target
  PROVE  Targeted(x) /\ Target = {x} /\ x.on = {} /\ x.about = 0
<1>1. PICK r \in Int : Target = {Candidate(Root, "synthesize", r, 0, "default", {})}
  BY DEF Target
<1>2. QED  BY <1>1, RootWords, CandidateFacts DEF Targeted

LEMMA TargetCorrectionFacts ==
  ASSUME Shape, NEW x \in TargetCorrection
  PROVE  Retargeted(x) /\ TargetCorrection = {x}
<1> DEFINE S == Rejected({"rejected"})
           y == Candidate(Root, "synthesize", -1, 1, "target-correction", {})
           z == [y EXCEPT !.about = Max(S), !.above = Max(S)]
<1>1. TargetCorrection = {z} /\ ~ TargetCorrected /\ S # {}  BY DEF TargetCorrection
<1>2. S \subseteq DOMAIN history /\ \A n \in S : history[n].verdict = "rejected"
  BY DEF Rejected, Jobs
<1>3. Max(S) \in S  BY <1>1, <1>2, LatestFacts
<1>4. /\ y \in Cand /\ y.claim = Root /\ y.action = "synthesize" /\ y.order = 1
      /\ y.why = "target-correction"
  BY RootWords, CandidateFacts
<1>5. Max(S) \in Nat  BY <1>2, <1>3, JobsFinite
<1> HIDE DEF y, S
<1>6. /\ z \in Cand /\ z.claim = Root /\ z.action = "synthesize" /\ z.order = 1
      /\ z.why = "target-correction" /\ z.about = Max(S) /\ z.above = Max(S)
  BY <1>4, <1>5 DEF Cand
<1> HIDE DEF z
<1>7. Retargeted(z)  BY <1>1, <1>2, <1>3, <1>6 DEF Retargeted
<1>8. QED  BY <1>1, <1>7

LEMMA EventFacts == ASSUME Shape PROVE Events \in SUBSET (Tag \X Nat)
<1>1. \A k \in DOMAIN artifacts : <<"artifact", k>> \in Tag \X Nat  BY JobsFinite DEF Tag
<1>2. \A c \in Known : <<"review", review[c]>> \in Tag \X Nat  BY DEF Shape, Known, Tag
<1>3. \A n \in DOMAIN history : <<"job", n>> \in Tag \X Nat /\ <<"target", n>> \in Tag \X Nat
  BY JobsFinite DEF Tag
<1>4. Jobs(LAMBDA d : d.status = "failed") \subseteq DOMAIN history  BY DEF Jobs
<1>5. Rejected({"rejected", "timeout"}) \subseteq DOMAIN history  BY DEF Rejected, Jobs
<1>6. \A t \in Events : t \in Tag \X Nat  BY <1>1, <1>2, <1>3, <1>4, <1>5 DEF Events
<1>7. QED  BY <1>6

LEMMA ReplanFacts ==
  ASSUME Shape, NEW x \in Replan
  PROVE  Planned(x) /\ Replan = {x}
<1>1. Replan = {Candidate(Root, "plan", 5, 0, "events", Events)}
      /\ Cardinality(Jobs(LAMBDA d : d.action = "plan")) < 3
  BY DEF Replan
<1>2. Jobs(LAMBDA d : d.action = "plan") = Plans  BY DEF Jobs, Plans
<1>3. Cardinality(Plans) < 3  BY <1>1, <1>2
<1>4. QED  BY <1>1, <1>3, RootWords, EventFacts, CandidateFacts DEF Planned

\* What a candidate may be.
LEMMA CandidatesFacts ==
  ASSUME Shape, NEW x \in Candidates
  PROVE  /\ x \in Cand
         /\ x.claim = Root <=> x.action \in {"plan", "synthesize"}
         /\ x.action \in Plannish => Planning < limits.planning
         /\ \/ Planned(x) \/ Targeted(x) \/ Retargeted(x)
            \/ x.claim \in Aux /\ (Usual(x, x.claim) \/ Repairing(x, x.claim) \/ Mending(x, x.claim))
         /\ \A y \in Candidates : y.claim = x.claim /\ y.action = x.action /\ y.order = x.order => y = x
<1>1. x \in Proposed /\ (x.action \in Plannish => Planning < limits.planning)
      /\ \A y \in Candidates : y \in Proposed
  BY DEF Candidates
<1>2. Root \notin Aux /\ Known \subseteq Aux  BY ClaimFacts DEF Known
<1>3. CASE history = <<>>
  <2>1. Proposed = Initial  BY <1>3 DEF Proposed
  <2>2. \A y \in Proposed : Planned(y) /\ Initial = {y}  BY <1>3, <2>1, InitialFacts
  <2>3. Planned(x) /\ \A y \in Candidates : y = x  BY <1>1, <2>1, <2>2
  <2>4. QED  BY <1>1, <2>3 DEF Planned
<1>4. CASE history # <<>>
  <2>1. Proposed = (UNION {Auxiliary(c) : c \in Known}) \cup Target \cup TargetCorrection \cup Replan
    BY <1>4 DEF Proposed
  <2>2. \A y \in Proposed : \/ y \in Auxiliary(y.claim) /\ y.claim \in Aux
                            \/ y \in Target \/ y \in TargetCorrection \/ y \in Replan
    <3>1. \A c \in Known : \A y \in Auxiliary(c) : y.claim = c /\ c \in Aux
      BY <1>2, AuxiliaryFacts
    <3>2. \A y \in UNION {Auxiliary(c) : c \in Known} : y \in Auxiliary(y.claim) /\ y.claim \in Aux
      <4>1. SUFFICES ASSUME NEW c \in Known, NEW y \in Auxiliary(c)
                     PROVE  y \in Auxiliary(y.claim) /\ y.claim \in Aux
        OBVIOUS
      <4>2. y.claim = c /\ c \in Aux  BY <3>1
      <4>3. QED  BY <4>2
    <3> DEFINE U == UNION {Auxiliary(c) : c \in Known}
    <3>3. Proposed = U \cup Target \cup TargetCorrection \cup Replan
          /\ \A y \in U : y \in Auxiliary(y.claim) /\ y.claim \in Aux
      BY <2>1, <3>2
    <3> HIDE DEF U
    <3>4. QED  BY <3>3
  <2>3. \A y \in Target : Targeted(y) /\ Target = {y}  BY TargetFacts
  <2>4. \A y \in TargetCorrection : Retargeted(y) /\ TargetCorrection = {y}  BY TargetCorrectionFacts
  <2>5. \A y \in Replan : Planned(y) /\ Replan = {y}  BY ReplanFacts
  <2>6. CASE x \in Auxiliary(x.claim) /\ x.claim \in Aux
    <3>1. /\ x \in Cand /\ x.action \in {"critique", "investigate", "prove"}
          /\ Usual(x, x.claim) \/ Repairing(x, x.claim) \/ Mending(x, x.claim)
          /\ \A y \in Auxiliary(x.claim) : y.action = x.action /\ y.order = x.order => y = x
      BY <2>6, AuxiliaryFacts
    <3>2. \A y \in Candidates : y.claim = x.claim => y \in Auxiliary(x.claim)
      BY <1>1, <1>2, <2>2, <2>3, <2>4, <2>5, <2>6 DEF Planned, Targeted, Retargeted
    <3>3. QED  BY <1>1, <1>2, <2>6, <3>1, <3>2
  <2>7. CASE x \in Target
    <3>1. Targeted(x)  BY <2>3, <2>7
    <3>2. \A y \in Candidates : y.claim = x.claim /\ y.action = x.action /\ y.order = x.order => y = x
      BY <1>1, <1>2, <2>2, <2>3, <2>4, <2>5, <2>7 DEF Planned, Targeted, Retargeted
    <3>3. QED  BY <1>1, <3>1, <3>2 DEF Targeted
  <2>8. CASE x \in TargetCorrection
    <3>1. Retargeted(x)  BY <2>4, <2>8
    <3>2. \A y \in Candidates : y.claim = x.claim /\ y.action = x.action /\ y.order = x.order => y = x
      BY <1>1, <1>2, <2>2, <2>3, <2>4, <2>5, <2>8 DEF Planned, Targeted, Retargeted
    <3>3. QED  BY <1>1, <3>1, <3>2 DEF Retargeted
  <2>9. CASE x \in Replan
    <3>1. Planned(x)  BY <2>5, <2>9
    <3>2. \A y \in Candidates : y.claim = x.claim /\ y.action = x.action /\ y.order = x.order => y = x
      BY <1>1, <1>2, <2>2, <2>3, <2>4, <2>5, <2>9 DEF Planned, Targeted, Retargeted
    <3>3. QED  BY <1>1, <3>1, <3>2 DEF Planned
  <2>10. QED  BY <1>1, <2>2, <2>6, <2>7, <2>8, <2>9
<1>5. QED  BY <1>3, <1>4

LEMMA CandidatesFinite ==
  ASSUME Shape
  PROVE  IsFiniteSet(Candidates)
<1> DEFINE T == (Claim \X (1..5)) \X (0..1)
           f == [x \in Candidates |-> <<<<x.claim, Alphabet[x.action]>>, x.order>>]
<1>1. IsFiniteSet(T)
  <2>1. IsFiniteSet(1..5) /\ IsFiniteSet(0..1)
    <3>1. 0 \in Int /\ 1 \in Int /\ 5 \in Int  OBVIOUS
    <3>2. QED  BY <3>1, FS_Interval
  <2>2. IsFiniteSet(Claim \X (1..5))  BY <2>1, ClaimFacts, FS_Product
  <2>3. QED  BY <2>1, <2>2, FS_Product
<1>2. \A a, b \in Action : Alphabet[a] \in 1..5 /\ (Alphabet[a] = Alphabet[b] => a = b)
  BY DEF Action, Alphabet
<1>3. \A x \in Candidates : x \in Cand  BY CandidatesFacts
<1>4. \A x, y \in Candidates : y.claim = x.claim /\ y.action = x.action /\ y.order = x.order => y = x
  BY CandidatesFacts
<1>5. \A x \in Candidates : x.claim \in Claim /\ x.action \in Action /\ x.order \in 0..1
  BY <1>3 DEF Cand
<1>6. f \in [Candidates -> T]  BY <1>2, <1>5
<1>7. \A x, y \in Candidates : f[x] = f[y] => x = y
  BY <1>2, <1>4, <1>5
<1> HIDE DEF f, T
<1>8. f \in Injection(Candidates, T)  BY <1>6, <1>7 DEF Injection, IsInjective
<1>9. QED  BY <1>1, <1>8, FS_Injection

\* The order in which candidates are looked at is total.
Lex(r, s) ==
  \/ r[1] < s[1]
  \/ r[1] = s[1] /\ r[2] < s[2]
  \/ r[1] = s[1] /\ r[2] = s[2] /\ r[3] < s[3]
  \/ r[1] = s[1] /\ r[2] = s[2] /\ r[3] = s[3] /\ r[4] < s[4]
  \/ r[1] = s[1] /\ r[2] = s[2] /\ r[3] = s[3] /\ r[4] = s[4] /\ r[5] < s[5]

LEMMA BeforeIsLex ==
  ASSUME NEW a, NEW b
  PROVE  Before(a, b) <=> Lex(Rank(a), Rank(b))
<1> DEFINE r == Rank(a)  s == Rank(b)
<1>1. Before(a, b) <=> \E i \in 1..5 : r[i] < s[i] /\ \A j \in 1..(i - 1) : r[j] = s[j]
  BY DEF Before
<1> HIDE DEF r, s
<1>2. (\E i \in 1..5 : r[i] < s[i] /\ \A j \in 1..(i - 1) : r[j] = s[j]) => Lex(r, s)
  <2>1. SUFFICES ASSUME NEW i \in 1..5, r[i] < s[i], \A j \in 1..(i - 1) : r[j] = s[j]
                 PROVE  Lex(r, s)
    OBVIOUS
  <2>2. i = 1 \/ i = 2 \/ i = 3 \/ i = 4 \/ i = 5  OBVIOUS
  <2>3. i > 1 => r[1] = s[1]  BY <2>1
  <2>4. i > 2 => r[2] = s[2]  BY <2>1
  <2>5. i > 3 => r[3] = s[3]  BY <2>1
  <2>6. i > 4 => r[4] = s[4]  BY <2>1
  <2>7. QED  BY <2>1, <2>2, <2>3, <2>4, <2>5, <2>6 DEF Lex
<1>3. Lex(r, s) => \E i \in 1..5 : r[i] < s[i] /\ \A j \in 1..(i - 1) : r[j] = s[j]
  <2>1. CASE r[1] < s[1]
    <3>1. 1 \in 1..5 /\ \A j \in 1..(1 - 1) : r[j] = s[j]  OBVIOUS
    <3>2. QED  BY <2>1, <3>1
  <2>2. CASE r[1] = s[1] /\ r[2] < s[2]
    <3>1. 2 \in 1..5 /\ \A j \in 1..(2 - 1) : r[j] = s[j]  BY <2>2
    <3>2. QED  BY <2>2, <3>1
  <2>3. CASE r[1] = s[1] /\ r[2] = s[2] /\ r[3] < s[3]
    <3>1. \A j \in 1..(3 - 1) : j = 1 \/ j = 2  OBVIOUS
    <3>2. 3 \in 1..5 /\ \A j \in 1..(3 - 1) : r[j] = s[j]  BY <2>3, <3>1
    <3>3. QED  BY <2>3, <3>2
  <2>4. CASE r[1] = s[1] /\ r[2] = s[2] /\ r[3] = s[3] /\ r[4] < s[4]
    <3>1. \A j \in 1..(4 - 1) : j = 1 \/ j = 2 \/ j = 3  OBVIOUS
    <3>2. 4 \in 1..5 /\ \A j \in 1..(4 - 1) : r[j] = s[j]  BY <2>4, <3>1
    <3>3. QED  BY <2>4, <3>2
  <2>5. CASE r[1] = s[1] /\ r[2] = s[2] /\ r[3] = s[3] /\ r[4] = s[4] /\ r[5] < s[5]
    <3>1. \A j \in 1..(5 - 1) : j = 1 \/ j = 2 \/ j = 3 \/ j = 4  OBVIOUS
    <3>2. 5 \in 1..5 /\ \A j \in 1..(5 - 1) : r[j] = s[j]  BY <2>5, <3>1
    <3>3. QED  BY <2>5, <3>2
  <2>6. QED  BY <2>1, <2>2, <2>3, <2>4, <2>5 DEF Lex
<1>4. QED  BY <1>1, <1>2, <1>3 DEF r, s

LEMMA RankFacts ==
  ASSUME Shape, NEW x \in Cand, x.claim = Root \/ x.claim \in Aux
  PROVE  /\ Rank(x)[1] \in Int /\ Rank(x)[2] \in Int /\ Rank(x)[3] = x.claim /\ x.claim \in Int
         /\ Rank(x)[4] = Alphabet[x.action] /\ Alphabet[x.action] \in 1..5
         /\ Rank(x)[5] = x.order /\ x.order \in Int
<1>1. x.rank \in Int /\ x.claim \in Claim /\ x.action \in Action /\ x.order \in 0..1  BY DEF Cand
<1>2. Urgency(x) \in Int
  <2>1. proposal[x.claim] \in Asking  BY <1>1 DEF Shape
  <2>2. QED  BY <2>1 DEF Urgency, Asking
<1>3. - Urgency(x) \in Int  BY <1>2
<1>4. Alphabet[x.action] \in 1..5  BY <1>1 DEF Action, Alphabet
<1>5. x.claim \in Int
  <2>1. x.claim \in Nat  BY <1>1, ClaimFacts
  <2>2. QED  BY <2>1
<1> HIDE DEF Urgency
<1>6. QED  BY <1>1, <1>3, <1>4, <1>5 DEF Rank

\* The first of some candidates is one of them.
LEMMA FirstFacts ==
  ASSUME Shape, NEW S, S \subseteq Candidates, S # {}
  PROVE  First(S) \in S
<1> DEFINE R == {p \in S \X S : Before(p[1], p[2])}
<1>1. \A x, y \in S : <<x, y>> \in R <=> Before(x, y)  OBVIOUS
<1>2. \A x \in S : x \in Cand /\ (x.claim = Root \/ x.claim \in Aux)
  BY CandidatesFacts DEF Cand, Claim
<1>3. \A x \in S : /\ Rank(x)[1] \in Int /\ Rank(x)[2] \in Int /\ Rank(x)[3] = x.claim /\ x.claim \in Int
                   /\ Rank(x)[4] = Alphabet[x.action] /\ Alphabet[x.action] \in 1..5
                   /\ Rank(x)[5] = x.order /\ x.order \in Int
  BY <1>2, RankFacts
<1>4. \A a, b \in Action : Alphabet[a] = Alphabet[b] => a = b  BY DEF Action, Alphabet
<1>5. \A x, y \in S : y.claim = x.claim /\ y.action = x.action /\ y.order = x.order => y = x
  BY CandidatesFacts
<1> HIDE DEF R
<1>6. \A x, y \in S : x # y => <<x, y>> \in R \/ <<y, x>> \in R
  <2>1. SUFFICES ASSUME NEW x \in S, NEW y \in S, x # y
                 PROVE  Lex(Rank(x), Rank(y)) \/ Lex(Rank(y), Rank(x))
    BY <1>1, BeforeIsLex
  <2>2. x.claim # y.claim \/ Alphabet[x.action] # Alphabet[y.action] \/ x.order # y.order
    BY <1>2, <1>4, <1>5, <2>1 DEF Cand
  <2>3. QED  BY <1>3, <2>2 DEF Lex
<1>7. \A x, y, z \in S : <<x, y>> \in R /\ <<y, z>> \in R => <<x, z>> \in R
  <2>1. SUFFICES ASSUME NEW x \in S, NEW y \in S, NEW z \in S, Lex(Rank(x), Rank(y)), Lex(Rank(y), Rank(z))
                 PROVE  Lex(Rank(x), Rank(z))
    BY <1>1, BeforeIsLex
  <2>2. QED  BY <1>3, <2>1 DEF Lex
<1>8. IsFiniteSet(S)  BY CandidatesFinite, FS_Subset
<1>9. \E m \in S : \A x \in S \ {m} : <<m, x>> \in R
  BY <1>6, <1>7, <1>8, LeastElement DEF Orders
<1>10. \E m \in S : \A x \in S \ {m} : Before(m, x)  BY <1>1, <1>9
<1>11. QED  BY <1>10 DEF First

-------------------------------------------------------------------------------
(* A step either decides nothing or dispatches one candidate *)

Frame == Shape /\ Rowed /\ Sequential /\ Balanced

Flags ==
  /\ phase \in {"frontier", "stopped"} /\ overdue \in BOOLEAN /\ erred \in BOOLEAN /\ fresh \in BOOLEAN
  /\ hiccups \in 0..MaxHiccups /\ revision \in Nat
Views ==
  /\ opinion \in [Aux -> {"none", "suggested", "promising", "challenged", "abandoned"}]
  /\ review \in [Aux -> Nat] /\ proposal \in [Claim -> Asking]

\* Artifacts are added by the last decision, and judged once; a rebinding puts up the verified again.
Grown ==
  /\ artifacts' \in Seq(Art) /\ Len(artifacts) <= Len(artifacts')
  /\ \A k \in DOMAIN artifacts :
       /\ artifacts'[k].claim = artifacts[k].claim /\ artifacts'[k].job = artifacts[k].job
       /\ \/ artifacts[k].status = "pending" \/ artifacts'[k].status = artifacts[k].status
          \/ artifacts[k].status = "verified" /\ artifacts'[k].status = "pending" /\ revision < revision'
  /\ \A k \in DOMAIN artifacts' \ DOMAIN artifacts :
       /\ artifacts'[k].job = Len(history) /\ Len(history) \in DOMAIN history
       /\ history[Len(history)].action \in {"investigate", "prove"}

\* Operations are reserved one at a time, and leave the tail alone.
Charged ==
  \/ ops' = ops /\ targetOps' = targetOps
  \/ ops' = ops + 1 /\ ops < limits.operations /\ targetOps' = targetOps /\ ~ TailInvaded(FALSE)
  \/ /\ ops' = ops + 1 /\ ops < limits.operations /\ targetOps' = targetOps + 1
     /\ ~ TailInvaded(TRUE) /\ Syntheses # {}

Quiet ==
  /\ limits' = limits /\ work' = work /\ Keeps(history') /\ Grown /\ Charged
  /\ Flags' /\ Views' /\ revision <= revision'

Parent(c, bare) == IF Prior(c, bare) # {} THEN Max(Prior(c, bare)) ELSE c.above
Decision(c, bare, k) ==
  [claim |-> c.claim, action |-> c.action, why |-> c.why, on |-> c.on, about |-> c.about,
   context |-> Context(c, bare), retry |-> Cardinality(Prior(c, bare)),
   depth |-> IF Parent(c, bare) = 0 THEN 0 ELSE history[Parent(c, bare)].depth + 1,
   cost |-> 2 * k, revision |-> revision,
   leases |-> IF c.action \in Plannish THEN Min({2, limits.planning - Planning}) ELSE 2,
   status |-> "queued", processed |-> FALSE, verdict |-> "none", said |-> FALSE]
Decided(c, bare, k) ==
  /\ c \in Candidates /\ bare \in BOOLEAN /\ Deferral(c, bare) = "" /\ k \in Affordable(c)
  /\ ~ Busy /\ ~ BudgetSpent /\ phase = "frontier" /\ Len(history) < limits.tasks
  /\ ~ (Parent(c, bare) # 0 /\ history[Parent(c, bare)].depth >= MaxDepth)
  /\ work' = work - 2 * k /\ history' = Append(Settled, Decision(c, bare, k))
  /\ UNCHANGED <<limits, phase, reason, overdue, erred, graphVars, ops, targetOps, binding>>
  /\ hiccups' \in 0..MaxHiccups

LEMMA SumPrime == SumOver(Spending, DOMAIN history)' = SumOver(Spending', DOMAIN history')
BY DEF SumOver, MapThenSumSet, MapThenFoldSet

LEMMA SpendingFacts ==
  ASSUME Shape
  PROVE  /\ IsFiniteSet(DOMAIN history) /\ \A n \in DOMAIN history : Spending[n] \in Nat
         /\ SumOver(Spending, DOMAIN history) \in Nat
<1>1. IsFiniteSet(DOMAIN history)  BY JobsFinite
<1>2. \A n \in DOMAIN history : Spending[n] \in Nat
  <2>1. \A n \in DOMAIN history : history[n] \in Row  BY JobsFinite
  <2>2. QED  BY <2>1 DEF Spending, Row
<1>3. QED  BY <1>1, <1>2, SumNat

\* A step that decides nothing keeps the frame.
LEMMA QuietFrame ==
  ASSUME Frame, Quiet
  PROVE  Frame'
<1> USE DEF Frame
<1>1. /\ history \in Seq(Row) /\ DOMAIN history = 1..Len(history) /\ Len(history) \in Nat
      /\ artifacts \in Seq(Art) /\ DOMAIN artifacts = 1..Len(artifacts)
  BY JobsFinite
<1>2. /\ history' \in Seq(Row) /\ Len(history') = Len(history) /\ DOMAIN history' = DOMAIN history
      /\ \A n \in DOMAIN history : KeepRow(history[n], history'[n])
  BY <1>1 DEF Quiet, Keeps
<1>3. /\ artifacts' \in Seq(Art) /\ DOMAIN artifacts' = 1..Len(artifacts')
      /\ DOMAIN artifacts \subseteq DOMAIN artifacts'
  BY <1>1 DEF Quiet, Grown
<1>4. Shape'
  <2>1. ops' \in Nat /\ targetOps' \in Nat /\ targetOps' <= ops' /\ ops' <= limits'.operations
    <3>1. ops \in Nat /\ targetOps \in Nat /\ targetOps <= ops /\ ops <= limits.operations  BY DEF Shape
    <3>2. limits.operations \in Nat /\ limits' = limits  BY LimitFacts DEF Quiet
    <3>3. \/ ops' = ops /\ targetOps' = targetOps
          \/ ops' = ops + 1 /\ ops < limits.operations /\ targetOps' \in {targetOps, targetOps + 1}
      BY DEF Quiet, Charged
    <3>4. QED  BY <3>1, <3>2, <3>3
  <2>2. QED  BY <1>2, <1>3, <2>1 DEF Quiet, Flags, Views, Shape
<1>5. Rowed'
  <2>1. ASSUME NEW n \in DOMAIN history
        PROVE  /\ history'[n].claim = Root <=> history'[n].action \in {"plan", "synthesize"}
               /\ history'[n].status = "verifying" \/ history'[n].verdict # "none"
                    => history'[n].action = "synthesize"
               /\ history'[n].context \subseteq DOMAIN artifacts'
               /\ history'[n].revision <= revision'
    <3>1. history[n].revision \in Nat
      <4>1. history[n] \in Row  BY <1>1
      <4>2. QED  BY <4>1 DEF Row
    <3>2. revision \in Nat /\ revision' \in Nat /\ revision <= revision' /\ history[n].revision <= revision
      BY DEF Shape, Rowed, Quiet, Flags
    <3>3. history'[n].revision <= revision'  BY <1>2, <3>1, <3>2 DEF KeepRow
    <3>4. QED  BY <1>2, <1>3, <3>3 DEF KeepRow, Rowed
  <2>2. ASSUME NEW k \in DOMAIN artifacts' PROVE artifacts'[k].job \in DOMAIN history
    BY DEF Rowed, Quiet, Grown
  <2>3. QED  BY <1>2, <2>1, <2>2 DEF Rowed
<1>6. Sequential'
  <2>1. ASSUME NEW n \in 1..(Len(history) - 1) PROVE history'[n].status \in Closed /\ history'[n].processed
    <3>1. n \in DOMAIN history  BY <1>1
    <3>2. history[n].status \in Closed /\ history[n].processed  BY DEF Sequential
    <3>3. QED  BY <1>2, <3>1, <3>2 DEF KeepRow
  <2>2. ASSUME NEW k \in DOMAIN artifacts', artifacts'[k].status = "pending"
        PROVE  artifacts'[k].job = Len(history) \/ history'[Len(history)].revision < revision'
    <3>1. CASE k \notin DOMAIN artifacts  BY <3>1 DEF Quiet, Grown
    <3>2. CASE k \in DOMAIN artifacts
      <4> DEFINE last == Len(history)
      <4>1. artifacts[k].job \in DOMAIN history /\ artifacts'[k].job = artifacts[k].job
        BY <3>2 DEF Rowed, Quiet, Grown
      <4>2. last \in DOMAIN history  BY <1>1, <4>1
      <4> HIDE DEF last
      <4>3. history[last].revision \in Nat /\ history[last].revision <= revision /\ revision \in Nat
            /\ revision' \in Nat /\ revision <= revision'
        <5>1. history[last] \in Row  BY <1>1, <4>2
        <5>2. history[last].revision \in Nat  BY <5>1 DEF Row
        <5>3. QED  BY <4>2, <5>2 DEF Rowed, Shape, Quiet, Flags
      <4>4. history'[last].revision = history[last].revision  BY <1>2, <4>2 DEF KeepRow
      <4>5. CASE artifacts[k].status = "pending"
        <5>1. artifacts[k].job = last \/ history[last].revision < revision
          BY <3>2, <4>5 DEF Sequential, last
        <5>2. QED  BY <4>1, <4>3, <4>4, <5>1 DEF last
      <4>6. CASE artifacts[k].status # "pending"
        <5>1. revision < revision'  BY <2>2, <3>2, <4>6 DEF Quiet, Grown
        <5>2. QED  BY <4>3, <4>4, <5>1 DEF last
      <4>7. QED  BY <4>5, <4>6
    <3>3. QED  BY <3>1, <3>2
  <2>3. QED  BY <1>2, <2>1, <2>2 DEF Sequential
<1>7. Balanced'
  <2>1. Spending' = Spending
    <3>1. \A n \in DOMAIN history : history'[n].cost = history[n].cost  BY <1>2 DEF KeepRow
    <3>2. QED  BY <1>2, <3>1 DEF Spending
  <2>2. QED  BY <1>2, <2>1, SumPrime DEF Balanced, Quiet
<1>8. QED  BY <1>4, <1>5, <1>6, <1>7

\* A row with another status, and its verdict and its findings with it.
Marked(H, n, s, p, v, a) ==
  H = [history EXCEPT ![n] = [history[n] EXCEPT !.status = s, !.processed = p, !.verdict = v, !.said = a]]

LEMMA QuietRow ==
  ASSUME Shape, NEW n \in DOMAIN history, history[n].status \in Open,
         NEW s \in Open \cup Closed, NEW p \in BOOLEAN, NEW v \in Ruling, NEW a \in BOOLEAN,
         NEW H, Marked(H, n, s, p, v, a),
         history[n].processed => p,
         s = "verifying" => history[n].status = "verifying" \/ history[n].action = "synthesize",
         v # history[n].verdict => history[n].status = "verifying"
  PROVE  Keeps(H)
<1> DEFINE d == history[n]
           e == [d EXCEPT !.status = s, !.processed = p, !.verdict = v, !.said = a]
<1>1. d \in Row  BY JobsFinite
<1> HIDE DEF d
<1>2. /\ e \in Row /\ e.status = s /\ e.processed = p /\ e.verdict = v /\ e.said = a
  BY <1>1 DEF Row
<1>3. e = [d EXCEPT !.status = e.status, !.processed = e.processed, !.verdict = e.verdict, !.said = e.said]
  BY <1>2
<1>4. H = [history EXCEPT ![n] = e]  BY DEF d, Marked
<1> HIDE DEF e
<1>5. QED  BY <1>2, <1>3, <1>4, KeepsOne DEF d

LEMMA RowSame ==
  ASSUME NEW d \in Row, NEW s
  PROVE  [d EXCEPT !.status = s] =
           [d EXCEPT !.status = s, !.processed = d.processed, !.verdict = d.verdict, !.said = d.said]
BY DEF Row

LEMMA OperationFacts ==
  ASSUME Frame
  PROVE  ops \in Nat /\ targetOps \in Nat /\ limits.operations \in Nat /\ hiccups \in 0..MaxHiccups
<1>1. limits.operations \in 1..24  BY LimitFacts DEF Frame
<1>2. ops \in Nat /\ targetOps \in Nat /\ hiccups \in 0..MaxHiccups  BY DEF Frame, Shape
<1>3. QED  BY <1>1, <1>2

LEMMA GrownSame == ASSUME Shape, artifacts' = artifacts PROVE Grown
BY DEF Shape, Grown

LEMMA BindingSame ==
  ASSUME Frame, binding' = binding
  PROVE  fresh' = fresh /\ revision' = revision /\ revision <= revision' /\ revision \in Nat
<1>1. fresh' = fresh /\ revision' = revision  BY DEF binding
<1>2. revision \in Nat  BY DEF Frame, Shape
<1>3. QED  BY <1>1, <1>2

LEMMA ChargedSame == ASSUME UNCHANGED <<ops, targetOps>> PROVE Charged
BY DEF Charged

\* Nor does a step that changes nothing.
LEMMA StutterQuiet == ASSUME Frame, UNCHANGED vars PROVE Quiet
<1>1. UNCHANGED <<limits, phase, reason, overdue, erred, history, work, graphVars, ops, targetOps, binding, hiccups>>
  BY DEF vars
<1>2. Keeps(history')  BY <1>1, KeepsHistory DEF Frame
<1>3. Grown /\ Charged  BY <1>1, GrownSame, ChargedSame DEF Frame, graphVars
<1>4. Flags' /\ Views' /\ revision <= revision'
  <2>1. binding' = binding  BY <1>1
  <2>2. QED  BY <1>1, <2>1, BindingSame DEF Frame, Shape, Flags, Views, graphVars
<1>5. QED  BY <1>1, <1>2, <1>3, <1>4 DEF Quiet

-------------------------------------------------------------------------------
(* The steps that decide nothing *)

\* Several actions end a job or hand it over.
LEMMA StatusStep ==
  ASSUME Frame, NEW n \in DOMAIN history, history[n].status \in Open, NEW s \in Open \cup Closed,
         history' = [history EXCEPT ![n].status = s],
         s = "verifying" => history[n].action = "synthesize",
         UNCHANGED <<limits, phase, overdue, erred, work, graphVars, ops, targetOps, binding, hiccups>>
  PROVE  Quiet
<1> DEFINE d == history[n]
<1>1. d \in Row  BY JobsFinite DEF Frame
<1>2. history' = [history EXCEPT ![n] = [d EXCEPT !.status = s]]  OBVIOUS
<1>3. d.processed \in BOOLEAN /\ d.verdict \in Ruling /\ d.said \in BOOLEAN  BY <1>1 DEF Row
<1>4. [d EXCEPT !.status = s] =
        [d EXCEPT !.status = s, !.processed = d.processed, !.verdict = d.verdict, !.said = d.said]
  BY <1>1, RowSame
<1>5. Keeps(history')
  <2> DEFINE p == d.processed  v == d.verdict  a == d.said
  <2>1. Marked(history', n, s, p, v, a)  BY <1>2, <1>4 DEF Marked
  <2>2. p \in BOOLEAN /\ v \in Ruling /\ a \in BOOLEAN /\ (d.processed => p) /\ v = d.verdict
    BY <1>3
  <2>3. s = "verifying" => d.status = "verifying" \/ d.action = "synthesize"  OBVIOUS
  <2>4. Shape /\ d.status \in Open  BY DEF Frame
  <2> HIDE DEF p, v, a
  <2>5. QED  BY <2>1, <2>2, <2>3, <2>4, QuietRow
<1>6. Grown /\ Charged  BY GrownSame, ChargedSame DEF Frame, graphVars
<1>7. Flags' /\ Views' /\ revision <= revision'
  BY BindingSame DEF Frame, Shape, Flags, Views, graphVars
<1>8. QED  BY <1>5, <1>6, <1>7 DEF Quiet

LEMMA LeaseStep == ASSUME Frame, NEW n \in DOMAIN history, Lease(n) PROVE Quiet
BY StatusStep DEF Lease, Open, Closed

LEMMA FailStep == ASSUME Frame, NEW n \in DOMAIN history, Fail(n) PROVE Quiet
BY StatusStep DEF Fail, Open, Closed

LEMMA ProofStep == ASSUME Frame, NEW n \in DOMAIN history, Proof(n) PROVE Quiet
BY StatusStep DEF Proof, Open, Closed

\* The group stops.
LEMMA StopStep ==
  ASSUME Frame, NEW rows, Keeps(rows), NEW why, Stop(why, rows),
         UNCHANGED <<limits, overdue, erred, work, graphVars, ops, targetOps, binding>>,
         hiccups' \in 0..MaxHiccups
  PROVE  Quiet
<1>1. Keeps(history') /\ phase' = "stopped"  BY KeepsStop DEF Frame
<1>2. Grown /\ Charged  BY GrownSame, ChargedSame DEF Frame, graphVars
<1>3. Flags' /\ Views' /\ revision <= revision'
  BY <1>1, BindingSame DEF Frame, Shape, Flags, Views, graphVars
<1>4. QED  BY <1>1, <1>2, <1>3 DEF Quiet

LEMMA AbortStep == ASSUME Frame, Abort PROVE Quiet
<1>1. hiccups' \in 0..MaxHiccups  BY DEF Abort, Frame, Shape
<1>2. QED  BY <1>1, KeepsHistory, StopStep DEF Abort, Frame

LEMMA ArtifactStopsStep == ASSUME Frame, NEW k \in DOMAIN artifacts, ArtifactStops(k) PROVE Quiet
<1>1. PICK why : Stop(why, history)  BY DEF ArtifactStops
<1>2. hiccups' \in 0..MaxHiccups  BY DEF ArtifactStops, Frame, Shape
<1>3. QED  BY <1>1, <1>2, KeepsHistory, StopStep DEF ArtifactStops, Frame

LEMMA SpentStep == ASSUME Frame, Spent PROVE Quiet
<1>1. hiccups' \in 0..MaxHiccups  BY DEF Spent, Frame, Shape
<1>2. QED  BY <1>1, KeepsSettled, StopStep DEF Spent, Frame

LEMMA UncheckedStep == ASSUME Frame, NEW n \in DOMAIN history, Unchecked(n) PROVE Quiet
<1> DEFINE d == history[n]  rows == [history EXCEPT ![n].status = "cancelled"]
<1>1. d \in Row  BY JobsFinite DEF Frame
<1>2. d.processed \in BOOLEAN /\ d.verdict \in Ruling /\ d.said \in BOOLEAN  BY <1>1 DEF Row
<1>3. [d EXCEPT !.status = "cancelled"] =
        [d EXCEPT !.status = "cancelled", !.processed = d.processed, !.verdict = d.verdict, !.said = d.said]
  BY <1>1, RowSame
<1>4. d.status \in Open /\ "cancelled" \in Open \cup Closed  BY DEF Unchecked, Open, Closed
<1>5. rows = [history EXCEPT ![n] = [d EXCEPT !.status = "cancelled"]]  OBVIOUS
<1>6. Keeps(rows)
  <2>1. Marked(rows, n, "cancelled", d.processed, d.verdict, d.said)  BY <1>3, <1>5 DEF Marked
  <2>2. "cancelled" # "verifying"  OBVIOUS
  <2>3. QED  BY <1>2, <1>4, <2>1, <2>2, QuietRow DEF Frame
<1>7. hiccups' \in 0..MaxHiccups  BY DEF Unchecked, Frame, Shape
<1>8. PICK why : Stop(why, rows)  BY DEF Unchecked
<1>9. QED  BY <1>6, <1>7, <1>8, StopStep DEF Unchecked

LEMMA WaitStep == ASSUME Frame, Wait PROVE Quiet
<1>1. Keeps(history')  BY KeepsSettled DEF Wait, Frame
<1>2. Grown /\ Charged  BY GrownSame, ChargedSame DEF Wait, Frame, graphVars
<1>3. Flags' /\ Views' /\ revision <= revision'
  BY BindingSame DEF Wait, Frame, Shape, Flags, Views, graphVars
<1>4. QED  BY <1>1, <1>2, <1>3 DEF Quiet, Wait

LEMMA CheckAbandonedStep == ASSUME Frame, CheckAbandoned PROVE Quiet
<1>1. Keeps(history')  BY KeepsHistory DEF CheckAbandoned, Frame
<1>2. Grown  BY GrownSame DEF CheckAbandoned, Frame, graphVars
<1>3. Charged
  <2>1. ops' = ops + 1 /\ ops < limits.operations
    <3>1. ops \in Nat /\ limits.operations \in Nat  BY OperationFacts
    <3>2. QED  BY <3>1 DEF CheckAbandoned, BudgetSpent
  <2>2. CASE ~ TailInvaded(FALSE) /\ UNCHANGED targetOps  BY <2>1, <2>2 DEF Charged
  <2>3. CASE /\ \E n \in DOMAIN history : history[n].status = "verifying" /\ ~ Outdated(n)
             /\ ~ TailInvaded(TRUE) /\ targetOps' = targetOps + 1
    <3>1. PICK n \in DOMAIN history : history[n].status = "verifying"  BY <2>3
    <3>2. n \in Syntheses  BY <3>1 DEF Frame, Rowed, Syntheses
    <3>3. QED  BY <2>1, <2>3, <3>2 DEF Charged
  <2>4. QED  BY <2>2, <2>3 DEF CheckAbandoned
<1>4. Flags' /\ Views' /\ revision <= revision'
  <2>1. hiccups' \in 0..MaxHiccups  BY FrontierAssumption DEF CheckAbandoned, Frame, Shape
  <2>2. QED  BY <2>1, BindingSame DEF CheckAbandoned, Frame, Shape, Flags, Views, graphVars
<1>5. QED  BY <1>1, <1>2, <1>3, <1>4 DEF Quiet, CheckAbandoned

\* The verifier is bound anew, or only taken from this process.
Rebound == Rebind \/ UNCHANGED <<revision, artifacts>>

LEMMA ReboundStep ==
  ASSUME Frame, Rebound
  PROVE  Grown /\ revision' \in Nat /\ revision <= revision'
<1>1. revision \in Nat /\ artifacts \in Seq(Art) /\ DOMAIN artifacts = 1..Len(artifacts)
  BY JobsFinite DEF Frame, Shape
<1>2. CASE UNCHANGED <<revision, artifacts>>
  <2>1. Grown  BY <1>2, GrownSame DEF Frame
  <2>2. QED  BY <1>1, <1>2, <2>1
<1>3. CASE Rebind
  <2>1. revision' = revision + 1 /\ artifacts' = Recheck  BY <1>3 DEF Rebind
  <2>2. revision' \in Nat /\ revision <= revision' /\ revision < revision'  BY <1>1, <2>1
  <2>3. \A k \in DOMAIN artifacts :
          /\ Recheck[k] \in Art /\ Recheck[k].claim = artifacts[k].claim /\ Recheck[k].job = artifacts[k].job
          /\ artifacts[k].status # "verified" => Recheck[k].status = artifacts[k].status
          /\ artifacts[k].status = "verified" => Recheck[k].status = "pending"
    <3>1. SUFFICES ASSUME NEW k \in DOMAIN artifacts
                   PROVE  /\ Recheck[k] \in Art /\ Recheck[k].claim = artifacts[k].claim
                          /\ Recheck[k].job = artifacts[k].job
                          /\ artifacts[k].status # "verified" => Recheck[k].status = artifacts[k].status
                          /\ artifacts[k].status = "verified" => Recheck[k].status = "pending"
      OBVIOUS
    <3>2. artifacts[k] \in Art  BY <1>1
    <3>3. Recheck[k] = IF artifacts[k].status = "verified" THEN [artifacts[k] EXCEPT !.status = "pending"]
                       ELSE artifacts[k]
      BY DEF Recheck
    <3>4. QED  BY <3>2, <3>3 DEF Art
  <2>4. artifacts' \in Seq(Art) /\ Len(artifacts') = Len(artifacts) /\ DOMAIN artifacts' = DOMAIN artifacts
    <3>1. Recheck = [k \in 1..Len(artifacts) |-> Recheck[k]] /\ Len(artifacts) \in Nat
      BY <1>1 DEF Recheck
    <3> HIDE DEF Recheck
    <3>2. Recheck \in Seq(Art) /\ Len(Recheck) = Len(artifacts)  BY <1>1, <2>3, <3>1
    <3>3. DOMAIN Recheck = DOMAIN artifacts  BY <1>1, <3>1
    <3>4. QED  BY <2>1, <3>2, <3>3
  <2> HIDE DEF Recheck
  <2>5. Len(artifacts) <= Len(artifacts')  BY <1>1, <2>4
  <2>6. Grown  BY <2>1, <2>2, <2>3, <2>4, <2>5 DEF Grown
  <2>7. QED  BY <2>2, <2>6
<1>4. QED  BY <1>2, <1>3 DEF Rebound

LEMMA BindingStep == ASSUME Frame, Unbind \/ Bind PROVE Quiet
<1>1. /\ UNCHANGED <<limits, phase, overdue, erred, history, work, opinion, review, proposal, ops, targetOps>>
      /\ fresh' \in BOOLEAN /\ hiccups' \in 0..MaxHiccups /\ Rebound
  <2>1. hiccups \in 0..MaxHiccups /\ MaxHiccups \in Nat  BY FrontierAssumption DEF Frame, Shape
  <2>2. CASE Unbind
    <3>1. hiccups' = hiccups + 1 /\ hiccups < MaxHiccups  BY <2>2 DEF Unbind
    <3>2. hiccups' \in 0..MaxHiccups  BY <2>1, <3>1
    <3>3. QED  BY <2>2, <3>2 DEF Unbind, Rebound
  <2>3. CASE Bind  BY <2>1, <2>3 DEF Bind, Rebound
  <2>4. QED  BY <2>2, <2>3
<1>2. Keeps(history')  BY <1>1, KeepsHistory DEF Frame
<1>3. Grown /\ revision' \in Nat /\ revision <= revision'  BY <1>1, ReboundStep
<1>4. Charged  BY <1>1, ChargedSame
<1>5. Flags' /\ Views'  BY <1>1, <1>3 DEF Frame, Shape, Flags, Views
<1>6. QED  BY <1>1, <1>2, <1>3, <1>4, <1>5 DEF Quiet

LEMMA DeadlineStep == ASSUME Frame, DeadlinePasses PROVE Quiet
<1>1. Keeps(history')  BY KeepsHistory DEF DeadlinePasses, Frame
<1>2. Grown /\ Charged  BY GrownSame, ChargedSame DEF DeadlinePasses, Frame, graphVars
<1>3. Flags' /\ Views' /\ revision <= revision'
  BY BindingSame DEF DeadlinePasses, Frame, Shape, Flags, Views, graphVars
<1>4. QED  BY <1>1, <1>2, <1>3 DEF Quiet, DeadlinePasses

LEMMA VerdictStep ==
  ASSUME Frame, NEW n \in DOMAIN history,
         NEW v \in {"verified", "rejected", "timeout", "verifier_error"}, Verdict(n, v)
  PROVE  Quiet
<1> DEFINE d == history[n]  p == (d.processed \/ v = "verified")
<1>1. d \in Row /\ d.processed \in BOOLEAN /\ d.said \in BOOLEAN
  <2>1. d \in Row  BY JobsFinite DEF Frame
  <2>2. QED  BY <2>1 DEF Row
<1>2. /\ d.status = "verifying" /\ d.status \in Open /\ "done" \in Open \cup Closed /\ v \in Ruling
      /\ p \in BOOLEAN
  BY DEF Verdict, Open, Closed, Ruling
<1>3. history' = [history EXCEPT ![n] = [d EXCEPT !.status = "done", !.processed = p, !.verdict = v,
                                                  !.said = d.said]]
  <2>1. history' = [history EXCEPT ![n] = [d EXCEPT !.status = "done", !.verdict = v, !.processed = p]]
    BY DEF Verdict
  <2> HIDE DEF p, d
  <2>2. [d EXCEPT !.status = "done", !.verdict = v, !.processed = p] =
          [d EXCEPT !.status = "done", !.processed = p, !.verdict = v, !.said = d.said]
    BY <1>1 DEF Row
  <2>3. QED  BY <2>1, <2>2
<1>4. Keeps(history')
  <2> DEFINE a == d.said
  <2>1. (d.processed => p) /\ a \in BOOLEAN  BY <1>1
  <2>2. Marked(history', n, "done", p, v, a)  BY <1>3 DEF Marked
  <2> HIDE DEF p, a
  <2>3. "done" # "verifying"  OBVIOUS
  <2>4. QED  BY <1>2, <2>1, <2>2, <2>3, QuietRow DEF Frame
<1>5. Grown  BY GrownSame DEF Verdict, Frame, graphVars
<1>6. Charged
  <2>1. ops \in Nat /\ limits.operations \in Nat  BY OperationFacts
  <2>2. ops < limits.operations  BY <2>1 DEF Verdict, BudgetSpent
  <2>3. n \in Syntheses  BY <1>2 DEF Frame, Rowed, Syntheses
  <2>4. QED  BY <2>2, <2>3 DEF Verdict, Charged
<1>7. Flags' /\ Views' /\ revision <= revision'
  <2>1. phase' \in {"frontier", "stopped"} /\ erred' \in BOOLEAN  BY DEF Verdict, Frame, Shape
  <2>2. QED  BY <2>1, BindingSame DEF Verdict, Frame, Shape, Flags, Views, graphVars
<1>8. QED  BY <1>4, <1>5, <1>6, <1>7 DEF Quiet, Verdict

LEMMA JudgeStep ==
  ASSUME Frame, NEW k \in DOMAIN artifacts,
         NEW v \in {"verified", "rejected", "failed", "incompatible"}, Judge(k, v)
  PROVE  Quiet
<1>1. Keeps(history')  BY KeepsHistory DEF Judge, Frame
<1>2. artifacts \in Seq(Art) /\ artifacts[k] \in Art /\ DOMAIN artifacts = 1..Len(artifacts)
  BY JobsFinite DEF Frame
<1>3. artifacts' = [artifacts EXCEPT ![k].status = v] /\ artifacts[k].status = "pending"  BY DEF Judge, Oldest
<1>4. artifacts' \in Seq(Art) /\ Len(artifacts') = Len(artifacts) /\ DOMAIN artifacts' = DOMAIN artifacts
      /\ (\A j \in DOMAIN artifacts : j # k => artifacts'[j] = artifacts[j])
      /\ artifacts'[k] = [artifacts[k] EXCEPT !.status = v]
  <2>1. [artifacts[k] EXCEPT !.status = v] \in Art  BY <1>2 DEF Art
  <2>2. QED  BY <1>2, <1>3, <2>1
<1>5. artifacts'[k].claim = artifacts[k].claim /\ artifacts'[k].job = artifacts[k].job
  BY <1>2, <1>4 DEF Art
<1>6. Grown
  <2>1. Len(artifacts) <= Len(artifacts')  BY <1>2, <1>4
  <2>2. QED  BY <1>3, <1>4, <1>5, <2>1 DEF Grown
<1>7. Charged
  <2>1. ops \in Nat /\ limits.operations \in Nat  BY OperationFacts
  <2>2. ops < limits.operations  BY <2>1 DEF Judge, BudgetSpent
  <2>3. QED  BY <2>2 DEF Judge, Charged
<1>8. Flags' /\ Views' /\ revision <= revision'  BY BindingSame DEF Judge, Frame, Shape, Flags, Views
<1>9. QED  BY <1>1, <1>6, <1>7, <1>8 DEF Quiet, Judge

\* The latest number given out.
LEMMA LatestNumber ==
  ASSUME NEW D, IsFiniteSet(D), NEW f \in [D -> Nat], NEW c \in D
  PROVE  1 + Max({f[a] : a \in D}) \in Nat
<1> DEFINE S == {f[a] : a \in D}
<1>1. f \in Surjection(D, S)
  <2>1. f \in [D -> S]  OBVIOUS
  <2>2. \A t \in S : \E a \in D : f[a] = t  OBVIOUS
  <2> HIDE DEF S
  <2>3. QED  BY <2>1, <2>2 DEF Surjection
<1>2. IsFiniteSet(S)  BY <1>1, FS_Surjection
<1>3. S \subseteq Nat /\ S # {}  OBVIOUS
<1> HIDE DEF S
<1>4. S \subseteq Int  BY <1>3
<1>5. Max(S) \in S  BY <1>2, <1>3, <1>4, MaxFacts
<1>6. Max(S) \in Nat  BY <1>3, <1>5
<1>7. 1 + Max(S) \in Nat  BY <1>6
<1>8. QED  BY <1>7 DEF S

LEMMA SuggestStep == ASSUME Frame, NEW set \in SUBSET Aux, Suggest(set) PROVE Grown /\ Views'
<1>1. Grown  BY GrownSame DEF Suggest, Frame
<1>2. QED  BY <1>1 DEF Suggest, Frame, Shape, Views

LEMMA ReviewStep ==
  ASSUME Frame, NEW c \in Aux, NEW verdict \in {"promising", "challenged", "abandoned"}, Review(c, verdict)
  PROVE  Grown /\ Views'
<1>1. Grown  BY GrownSame DEF Review, Frame
<1>2. review \in [Aux -> Nat]  BY DEF Frame, Shape
<1> DEFINE m == 1 + Max({review[a] : a \in Aux})
<1>3. m \in Nat  BY <1>2, ClaimFacts, LatestNumber
<1>4. review' = [review EXCEPT ![c] = m] /\ opinion' = [opinion EXCEPT ![c] = verdict]
      /\ proposal' = proposal
  BY DEF Review
<1> HIDE DEF m
<1>5. QED  BY <1>1, <1>3, <1>4 DEF Frame, Shape, Views

LEMMA AskStep ==
  ASSUME Frame, NEW c \in Claim, NEW action \in {"critique", "investigate", "prove"}, NEW priority \in Priority,
         Ask(c, action, priority)
  PROVE  Grown /\ Views'
<1>1. Grown  BY GrownSame DEF Ask, Frame
<1>2. proposal \in [Claim -> Asking]  BY DEF Frame, Shape
<1> DEFINE f == [a \in Claim |-> proposal[a].id]  m == 1 + Max({proposal[a].id : a \in Claim})
<1>3. f \in [Claim -> Nat] /\ {f[a] : a \in Claim} = {proposal[a].id : a \in Claim}
  BY <1>2 DEF Asking
<1>4. m \in Nat
  <2> HIDE DEF f
  <2>1. 1 + Max({f[a] : a \in Claim}) \in Nat  BY <1>3, ClaimFacts, LatestNumber
  <2>2. QED  BY <1>3, <2>1
<1>5. proposal' = [proposal EXCEPT ![c] = [action |-> action, id |-> m, priority |-> priority]]
      /\ opinion' = opinion /\ review' = review
  BY DEF Ask
<1>6. priority \in 0..3  BY FrontierAssumption
<1> HIDE DEF m
<1>7. [action |-> action, id |-> m, priority |-> priority] \in Asking  BY <1>4, <1>6 DEF Asking
<1>8. proposal' \in [Claim -> Asking]  BY <1>2, <1>5, <1>7
<1>9. QED  BY <1>1, <1>5, <1>8 DEF Frame, Shape, Views

\* Only the last decision is open.
LEMMA OpenIsLast ==
  ASSUME Frame, NEW n \in DOMAIN history, history[n].status \in Open
  PROVE  n = Len(history)
<1>1. DOMAIN history = 1..Len(history) /\ Len(history) \in Nat  BY JobsFinite DEF Frame
<1>2. history[n].status \notin Closed  BY DEF Open, Closed
<1>3. ~ (n \in 1..(Len(history) - 1))  BY <1>2 DEF Frame, Sequential
<1>4. QED  BY <1>1, <1>3

LEMMA ProveStep ==
  ASSUME Frame, NEW set \in SUBSET Aux, NEW n \in DOMAIN history, history[n].status \in Open, Prove(set, n)
  PROVE  Grown /\ Views'
<1>1. n = Len(history) /\ n \in Nat /\ artifacts \in Seq(Art) /\ DOMAIN artifacts = 1..Len(artifacts)
  BY OpenIsLast, JobsFinite DEF Frame
<1>2. history[n].action \in {"investigate", "prove"}  BY DEF Prove
<1>3. Cardinality(set) \in Nat  BY ClaimFacts, FS_Subset, FS_CardinalityType
<1>4. PICK order \in [1..Cardinality(set) -> set] :
        artifacts' = artifacts \o [i \in DOMAIN order |-> [claim |-> order[i], status |-> "pending", job |-> n]]
  BY DEF Prove
<1> DEFINE new == [i \in 1..Cardinality(set) |-> [claim |-> order[i], status |-> "pending", job |-> n]]
<1>5. artifacts' = artifacts \o new  BY <1>4
<1>6. \A i \in 1..Cardinality(set) : new[i] \in Art /\ new[i].job = n
  <2>1. \A i \in 1..Cardinality(set) : order[i] \in Aux  OBVIOUS
  <2>2. QED  BY <1>1, <2>1 DEF Art
<1>7. new \in Seq(Art) /\ Len(new) = Cardinality(set)  BY <1>3, <1>6
<1> HIDE DEF new
<1>8. /\ artifacts' \in Seq(Art) /\ Len(artifacts') = Len(artifacts) + Len(new)
      /\ \A i \in 1..(Len(artifacts) + Len(new)) :
           artifacts'[i] = IF i <= Len(artifacts) THEN artifacts[i] ELSE new[i - Len(artifacts)]
  BY <1>1, <1>5, <1>7, ConcatProperties
<1>9. DOMAIN artifacts' = 1..(Len(artifacts) + Len(new)) /\ Len(artifacts) \in Nat /\ Len(new) \in Nat
  BY <1>1, <1>3, <1>7, <1>8
<1>10. \A k \in DOMAIN artifacts : artifacts'[k] = artifacts[k]  BY <1>1, <1>8, <1>9
<1>11. \A k \in DOMAIN artifacts' \ DOMAIN artifacts : artifacts'[k].job = n
  <2>1. ASSUME NEW k \in DOMAIN artifacts' \ DOMAIN artifacts PROVE artifacts'[k].job = n
    <3>1. k \in 1..(Len(artifacts) + Len(new)) /\ ~ (k <= Len(artifacts))  BY <1>1, <1>9
    <3>2. artifacts'[k] = new[k - Len(artifacts)]  BY <1>8, <3>1
    <3>3. k - Len(artifacts) \in 1..Cardinality(set)  BY <1>7, <1>9, <3>1
    <3>4. QED  BY <1>6, <3>2, <3>3
  <2>2. QED  BY <2>1
<1>12. Grown  BY <1>1, <1>2, <1>8, <1>9, <1>10, <1>11 DEF Grown
<1>13. QED  BY <1>12 DEF Prove, Frame, Shape, Views

LEMMA AnswerStep == ASSUME Frame, NEW n \in DOMAIN history, Answer(n) PROVE Quiet
<1>1. history[n].status \in Open /\ history[n].status = "assigned" /\ "done" \in Open \cup Closed
  BY DEF Answer, Open, Closed
<1>2. Grown /\ Views'
  <2>1. CASE Nothing
    <3>1. Grown  BY <2>1, GrownSame DEF Nothing, graphVars, Frame
    <3>2. QED  BY <2>1, <3>1 DEF Nothing, graphVars, Frame, Shape, Views
  <2>2. CASE \E set \in SUBSET Aux : Suggest(set) \/ Prove(set, n)
    BY <1>1, <2>2, SuggestStep, ProveStep
  <2>3. CASE \E c \in Aux, verdict \in {"promising", "challenged", "abandoned"} : Review(c, verdict)
    BY <2>3, ReviewStep
  <2>4. CASE \E c \in Claim, action \in {"critique", "investigate", "prove"}, priority \in Priority :
               Ask(c, action, priority)
    BY <2>4, AskStep
  <2>5. QED  BY <2>1, <2>2, <2>3, <2>4 DEF Answer
<1>3. Keeps(history')
  <2> DEFINE d == history[n]
  <2>1. PICK said \in BOOLEAN : history' = [history EXCEPT ![n].status = "done", ![n].said = said]
    BY DEF Answer
  <2>2. d \in Row  BY JobsFinite DEF Frame
  <2> DEFINE p == d.processed  v == d.verdict
  <2>3. history' = [history EXCEPT ![n] = [d EXCEPT !.status = "done", !.said = said]]
    BY <2>1, JobsFinite DEF Frame
  <2>4. [d EXCEPT !.status = "done", !.said = said] =
          [d EXCEPT !.status = "done", !.processed = p, !.verdict = v, !.said = said]
    <3> HIDE DEF d
    <3>1. QED  BY <2>2 DEF Row
  <2>5. Marked(history', n, "done", p, v, said)  BY <2>3, <2>4 DEF Marked
  <2>6. p \in BOOLEAN /\ v \in Ruling /\ (d.processed => p) /\ v = d.verdict /\ "done" # "verifying"
    BY <2>2 DEF Row
  <2> HIDE DEF p, v
  <2>7. QED  BY <1>1, <2>5, <2>6, QuietRow DEF Frame
<1>4. Charged  BY ChargedSame DEF Answer
<1>5. Flags' /\ revision <= revision'  BY BindingSame DEF Answer, Frame, Shape, Flags
<1>6. QED  BY <1>2, <1>3, <1>4, <1>5 DEF Quiet, Answer

LEMMA GiveUpStep ==
  ASSUME Frame, NEW why, GiveUp(why),
         UNCHANGED <<limits, overdue, erred, work, graphVars, ops, targetOps, binding>>,
         hiccups' \in 0..MaxHiccups
  PROVE  Quiet
<1>1. PICK r : Stop(r, Settled)  BY DEF GiveUp
<1>2. QED  BY <1>1, KeepsSettled, StopStep DEF Frame

LEMMA SelectStep ==
  ASSUME Frame, Select
  PROVE  Quiet \/ \E c \in Candidates, bare \in BOOLEAN : \E k \in Affordable(c) : Decided(c, bare, k)
<1>1. PICK trouble \in Hiccups :
        /\ hiccups' = IF trouble = <<{}, FALSE>> THEN hiccups ELSE hiccups + 1
        /\ \E why \in {Deferrals(trouble[1], trouble[2])} :
             LET admitted == {c \in DOMAIN why : why[c] = ""} IN
             IF admitted = {} THEN GiveUp(why) /\ UNCHANGED work
             ELSE Dispatch(First(admitted), trouble[2])
  BY DEF Select
<1> DEFINE why == Deferrals(trouble[1], trouble[2])
           admitted == {c \in DOMAIN why : why[c] = ""}
           c == First(admitted)
           bare == trouble[2]
<1>2. IF admitted = {} THEN GiveUp(why) /\ UNCHANGED work ELSE Dispatch(c, bare)  BY <1>1
<1>3. UNCHANGED <<limits, overdue, erred, graphVars, ops, targetOps, binding>>  BY DEF Select
<1>4. bare \in BOOLEAN /\ hiccups' \in 0..MaxHiccups
  <2>1. trouble = <<{}, FALSE>> \/ (hiccups < MaxHiccups /\ trouble \in (SUBSET Candidates) \X BOOLEAN)
    BY DEF Hiccups
  <2>2. hiccups \in 0..MaxHiccups /\ MaxHiccups \in Nat  BY FrontierAssumption, OperationFacts
  <2>3. bare \in BOOLEAN
    <3>1. CASE trouble = <<{}, FALSE>>  BY <3>1
    <3>2. CASE trouble \in (SUBSET Candidates) \X BOOLEAN  BY <3>2
    <3>3. QED  BY <2>1, <3>1, <3>2
  <2>4. hiccups' = hiccups \/ (hiccups' = hiccups + 1 /\ hiccups < MaxHiccups)  BY <1>1, <2>1
  <2>5. hiccups' \in 0..MaxHiccups  BY <2>2, <2>4
  <2>6. QED  BY <2>3, <2>5
<1>5. CASE admitted = {}
  <2>1. GiveUp(why) /\ work' = work  BY <1>2, <1>5
  <2> HIDE DEF why
  <2>2. QED  BY <1>3, <1>4, <2>1, GiveUpStep
<1>6. CASE admitted # {}
  <2>1. DOMAIN why = Candidates  BY DEF Deferrals
  <2>2. admitted \subseteq Candidates  BY <2>1
  <2>3. c \in admitted
    <3> HIDE DEF admitted
    <3>1. QED  BY <1>6, <2>2, FirstFacts DEF Frame
  <2>4. c \in Candidates /\ Deferral(c, bare) = ""
    <3>1. \A x \in Candidates : why[x] = "" => Deferral(x, bare) = ""  BY DEF Deferrals
    <3>2. c \in Candidates /\ why[c] = ""  BY <2>2, <2>3
    <3> HIDE DEF why, c, bare, admitted
    <3>3. QED  BY <3>1, <3>2
  <2>5. Dispatch(c, bare)  BY <1>2, <1>6
  <2>6. bare = trouble[2]  OBVIOUS
  <2> HIDE DEF why, c, bare, admitted
  <2>7. CASE Len(history) >= limits.tasks
    <3>1. Stop("task_limit", Settled) /\ work' = work  BY <2>5, <2>7 DEF Dispatch
    <3>2. QED  BY <1>3, <1>4, <3>1, KeepsSettled, StopStep DEF Frame
  <2>8. CASE ~ (Len(history) >= limits.tasks) /\ Parent(c, bare) # 0 /\ history[Parent(c, bare)].depth >= MaxDepth
    <3>1. Stop("task_depth", Settled) /\ work' = work  BY <2>5, <2>8 DEF Dispatch, Parent
    <3>2. QED  BY <1>3, <1>4, <3>1, KeepsSettled, StopStep DEF Frame
  <2>9. CASE ~ (Len(history) >= limits.tasks) /\ ~ (Parent(c, bare) # 0 /\ history[Parent(c, bare)].depth >= MaxDepth)
    <3>1. \E k \in Affordable(c) : /\ work' = work - 2 * k /\ history' = Append(Settled, Decision(c, bare, k))
                                   /\ UNCHANGED <<phase, reason>>
      BY <2>5, <2>9 DEF Dispatch, Parent, Decision
    <3>2. PICK k \in Affordable(c) : /\ work' = work - 2 * k /\ history' = Append(Settled, Decision(c, bare, k))
                                     /\ UNCHANGED <<phase, reason>>
      BY <3>1
    <3>3. Len(history) < limits.tasks
      <4>1. Len(history) \in Nat /\ limits.tasks \in 1..32  BY JobsFinite, LimitFacts DEF Frame
      <4>2. ~ (Len(history) >= limits.tasks)  BY <2>9
      <4>3. \A i \in Nat, j \in 1..32 : ~ (i >= j) => i < j  OBVIOUS
      <4>4. QED  BY <4>1, <4>2, <4>3
    <3>4. ~ Busy /\ ~ BudgetSpent /\ phase = "frontier"  BY DEF Select, Running
    <3>5. QED  BY <1>3, <1>4, <2>4, <2>9, <3>2, <3>3, <3>4 DEF Decided
  <2>10. QED  BY <2>7, <2>8, <2>9
<1>7. QED  BY <1>5, <1>6

LEMMA NextStep ==
  ASSUME Frame, Next
  PROVE  Quiet \/ \E c \in Candidates, bare \in BOOLEAN : \E k \in Affordable(c) : Decided(c, bare, k)
<1>1. CASE Advance
  <2>1. CASE Abort  BY <2>1, AbortStep
  <2>2. CASE Wait  BY <2>2, WaitStep
  <2>3. CASE Spent  BY <2>3, SpentStep
  <2>4. CASE Select  BY <2>4, SelectStep
  <2>5. QED  BY <1>1, <2>1, <2>2, <2>3, <2>4 DEF Advance
<1>2. CASE Queue  BY <1>2, LeaseStep, FailStep, ProofStep, AnswerStep DEF Queue
<1>3. CASE Checks
  BY <1>3, JudgeStep, VerdictStep, UncheckedStep, ArtifactStopsStep DEF Checks
<1>4. CASE CheckAbandoned  BY <1>4, CheckAbandonedStep
<1>5. CASE Unbind \/ Bind  BY <1>5, BindingStep
<1>6. CASE DeadlinePasses  BY <1>6, DeadlineStep
<1>7. QED  BY <1>1, <1>2, <1>3, <1>4, <1>5, <1>6 DEF Next


-------------------------------------------------------------------------------
(* The sums of the model *)

Planners == {n \in DOMAIN history : history[n].action \in Plannish}
Leasing == [n \in DOMAIN history |-> history[n].leases]

LEMMA CostSum ==
  ASSUME Shape, NEW S \in SUBSET (DOMAIN history)
  PROVE  Total(S, LAMBDA d : d.cost) = SumOver(Spending, S)
<1> DEFINE P(it) == it = [s \in SUBSET S |-> IF s = {} THEN 0
                                             ELSE history[Pick(s)].cost + it[s \ {Pick(s)}]]
           h == CHOOSE it : P(it)
<1>1. Total(S, LAMBDA d : d.cost) = h[S]
  BY DEF Total, MapThenSumSet, MapThenFoldSet, Pick
<1>2. IsFiniteSet(S)  BY JobsFinite
<1>3. \A s \in SUBSET S : s # {} => Spending[Pick(s)] = history[Pick(s)].cost
  BY PickIn DEF Spending
<1>4. \A it : P(it) <=> Unfolds(it, Spending, S)
  <2>1. SUFFICES ASSUME NEW it PROVE P(it) <=> Unfolds(it, Spending, S)  OBVIOUS
  <2>2. [s \in SUBSET S |-> IF s = {} THEN 0 ELSE history[Pick(s)].cost + it[s \ {Pick(s)}]]
          = [s \in SUBSET S |-> IF s = {} THEN 0 ELSE Spending[Pick(s)] + it[s \ {Pick(s)}]]
    BY <1>3
  <2>3. QED  BY <2>2 DEF Unfolds
<1>5. \E it : P(it)  BY <1>2, <1>4, UnfoldsExists
<1>6. P(h)
  <2> HIDE DEF P
  <2>1. QED  BY <1>5
<1> HIDE DEF h, P
<1>7. h[S] = SumOver(Spending, S)  BY <1>2, <1>4, <1>6, SumIs
<1>8. QED  BY <1>1, <1>7

LEMMA LeaseSum ==
  ASSUME Shape, NEW S \in SUBSET (DOMAIN history)
  PROVE  Total(S, LAMBDA d : d.leases) = SumOver(Leasing, S)
<1> DEFINE P(it) == it = [s \in SUBSET S |-> IF s = {} THEN 0
                                             ELSE history[Pick(s)].leases + it[s \ {Pick(s)}]]
           h == CHOOSE it : P(it)
<1>1. Total(S, LAMBDA d : d.leases) = h[S]
  BY DEF Total, MapThenSumSet, MapThenFoldSet, Pick
<1>2. IsFiniteSet(S)  BY JobsFinite
<1>3. \A s \in SUBSET S : s # {} => Leasing[Pick(s)] = history[Pick(s)].leases
  BY PickIn DEF Leasing
<1>4. \A it : P(it) <=> Unfolds(it, Leasing, S)
  <2>1. SUFFICES ASSUME NEW it PROVE P(it) <=> Unfolds(it, Leasing, S)  OBVIOUS
  <2>2. [s \in SUBSET S |-> IF s = {} THEN 0 ELSE history[Pick(s)].leases + it[s \ {Pick(s)}]]
          = [s \in SUBSET S |-> IF s = {} THEN 0 ELSE Leasing[Pick(s)] + it[s \ {Pick(s)}]]
    BY <1>3
  <2>3. QED  BY <2>2 DEF Unfolds
<1>5. \E it : P(it)  BY <1>2, <1>4, UnfoldsExists
<1>6. P(h)
  <2> HIDE DEF P
  <2>1. QED  BY <1>5
<1> HIDE DEF h, P
<1>7. h[S] = SumOver(Leasing, S)  BY <1>2, <1>4, <1>6, SumIs
<1>8. QED  BY <1>1, <1>7

LEMMA PlanningFacts ==
  ASSUME Shape
  PROVE  /\ Planning = SumOver(Leasing, Planners) /\ Planning \in Nat
         /\ Planners \subseteq DOMAIN history /\ IsFiniteSet(Planners)
         /\ \A n \in DOMAIN history : Leasing[n] \in Nat
<1>1. Planners \in SUBSET (DOMAIN history) /\ IsFiniteSet(Planners)
  <2>1. Planners \subseteq DOMAIN history  BY DEF Planners
  <2>2. QED  BY <2>1, JobsFinite
<1>2. Jobs(LAMBDA d : d.action \in Plannish) = Planners  BY DEF Jobs, Planners
<1>3. Planning = Total(Planners, LAMBDA d : d.leases)  BY <1>2 DEF Planning
<1>4. Planning = SumOver(Leasing, Planners)  BY <1>1, <1>3, LeaseSum
<1>5. \A n \in DOMAIN history : Leasing[n] \in Nat
  <2>1. \A n \in DOMAIN history : history[n] \in Row  BY JobsFinite
  <2>2. QED  BY <2>1 DEF Leasing, Row
<1>6. SumOver(Leasing, Planners) \in Nat  BY <1>1, <1>5, SumNat
<1>7. QED  BY <1>1, <1>4, <1>5, <1>6

LEMMA TailFacts ==
  ASSUME Shape
  PROVE  /\ CompletionTail.jobs =
              (IF limits.reserve = 1 THEN NaturalMinus(Slots, Cardinality(Syntheses)) ELSE 0)
         /\ CompletionTail.work = CompletionTail.jobs * 2 * Max(Costs["synthesizer"])
         /\ CompletionTail.checks = (IF limits.reserve = 1 THEN NaturalMinus(Slots, targetOps) ELSE 0)
         /\ CompletionTail.jobs \in 0..2 /\ CompletionTail.checks \in 0..2
         /\ Max(Costs["synthesizer"]) \in 1..8 /\ Max(Costs["synthesizer"]) \in Costs["synthesizer"]
         /\ CompletionTail.work \in Nat /\ Cardinality(Syntheses) \in Nat
<1>1. Jobs(LAMBDA d : d.action = "synthesize") = Syntheses  BY DEF Jobs, Syntheses
<1>2. /\ CompletionTail.jobs =
           (IF limits.reserve = 1 THEN NaturalMinus(Slots, Cardinality(Syntheses)) ELSE 0)
      /\ CompletionTail.work = CompletionTail.jobs * 2 * Max(Costs["synthesizer"])
      /\ CompletionTail.checks = (IF limits.reserve = 1 THEN NaturalMinus(Slots, targetOps) ELSE 0)
  BY <1>1 DEF CompletionTail
<1>3. Cardinality(Syntheses) \in Nat
  <2>1. Syntheses \subseteq DOMAIN history  BY DEF Syntheses
  <2>2. QED  BY <2>1, JobsFinite, FS_CardinalityType
<1>4. targetOps \in Nat  BY DEF Shape
<1>5. Slots \in 1..2  BY LimitFacts
<1>6. CompletionTail.jobs \in 0..2 /\ CompletionTail.checks \in 0..2
  BY <1>2, <1>3, <1>4, <1>5 DEF NaturalMinus
<1>7. Max(Costs["synthesizer"]) \in 1..8 /\ Max(Costs["synthesizer"]) \in Costs["synthesizer"]
  <2>1. "synthesize" \in Action /\ Role("synthesize") = "synthesizer"  BY DEF Action, Role
  <2>2. QED  BY <2>1, CostFacts
<1>8. CompletionTail.work \in Nat
  <2>1. \A j \in 0..2, m \in 1..8 : j * 2 * m \in Nat
    <3>1. SUFFICES ASSUME NEW j \in 0..2, NEW m \in 1..8 PROVE j * 2 * m \in Nat  OBVIOUS
    <3>2. j = 0 \/ j = 1 \/ j = 2  OBVIOUS
    <3>3. QED  BY <3>2
  <2>2. QED  BY <1>2, <1>6, <1>7, <2>1
<1>9. QED  BY <1>2, <1>3, <1>6, <1>7, <1>8

\* What a candidate may spend: nothing of the tail, but for its own part.
LEMMA BudgetFacts ==
  ASSUME Shape, NEW c
  PROVE  LET j == CompletionTail.jobs  m == Max(Costs["synthesizer"]) IN
         /\ Budget(c) \in Int /\ Budget(c) <= work
         /\ c.action # "synthesize" => Budget(c) = work - CompletionTail.work
         /\ c.action = "synthesize" /\ j = 2 => Budget(c) = work - 2 * m
         /\ c.action = "synthesize" /\ j # 2 => Budget(c) = work
         /\ j = 0 => CompletionTail.work = 0
         /\ j = 1 => CompletionTail.work = 2 * m
         /\ j = 2 => CompletionTail.work = 4 * m
<1> DEFINE j == CompletionTail.jobs  m == Max(Costs["synthesizer"])  w == CompletionTail.work
<1>1. j \in 0..2 /\ m \in 1..8 /\ w = j * 2 * m /\ w \in Nat /\ work \in Nat
  BY TailFacts DEF Shape
<1>2. Budget(c) = IF c.action # "synthesize" THEN work - w
                  ELSE IF j = 0 THEN work ELSE work - (w * (j - 1)) \div j
  BY DEF Budget
<1> HIDE DEF j, m, w
<1>3. j = 0 => w = 0  BY <1>1
<1>4. j = 1 => w = 2 * m
  <2>1. \A i \in 1..8 : 1 * 2 * i = 2 * i  OBVIOUS
  <2>2. QED  BY <1>1, <2>1
<1>5. j = 2 => w = 4 * m
  <2>1. \A i \in 1..8 : 2 * 2 * i = 4 * i  OBVIOUS
  <2>2. QED  BY <1>1, <2>1
<1>6. j = 1 => (w * (j - 1)) \div j = 0
  <2>1. \A i \in Nat : (i * (1 - 1)) \div 1 = 0  OBVIOUS
  <2>2. QED  BY <1>1, <2>1
<1>7. j = 2 => (w * (j - 1)) \div j = 2 * m
  <2>1. \A i \in 1..8 : (4 * i * (2 - 1)) \div 2 = 2 * i  OBVIOUS
  <2>2. \A i \in 1..8 : 4 * i * (2 - 1) = (4 * i) * (2 - 1)  OBVIOUS
  <2>3. QED  BY <1>1, <1>5, <2>1, <2>2
<1>8. j = 0 \/ j = 1 \/ j = 2  BY <1>1
<1>9. /\ Budget(c) \in Int /\ Budget(c) <= work
      /\ c.action # "synthesize" => Budget(c) = work - w
      /\ c.action = "synthesize" /\ j = 2 => Budget(c) = work - 2 * m
      /\ c.action = "synthesize" /\ j # 2 => Budget(c) = work
  <2>1. CASE c.action # "synthesize"  BY <1>1, <1>2, <2>1
  <2>2. CASE c.action = "synthesize" /\ j = 0  BY <1>1, <1>2, <2>2
  <2>3. CASE c.action = "synthesize" /\ j = 1
    <3>1. Budget(c) = work - 0  BY <1>2, <1>6, <2>3
    <3>2. QED  BY <1>1, <2>3, <3>1
  <2>4. CASE c.action = "synthesize" /\ j = 2
    <3>1. Budget(c) = work - 2 * m  BY <1>2, <1>7, <2>4
    <3>2. QED  BY <1>1, <2>4, <3>1
  <2>5. QED  BY <1>8, <2>1, <2>2, <2>3, <2>4
<1>10. QED  BY <1>3, <1>4, <1>5, <1>9 DEF j, m, w

-------------------------------------------------------------------------------
(* The step that decides *)

LEMMA PriorFacts ==
  ASSUME Shape, NEW c, NEW bare
  PROVE  LET K == <<c.claim, c.action, c.why, c.on, Context(c, bare)>> IN
         /\ Prior(c, bare) = {n \in DOMAIN history : Key(history[n]) = K}
         /\ Prior(c, bare) \subseteq DOMAIN history /\ IsFiniteSet(Prior(c, bare))
         /\ Cardinality(Prior(c, bare)) \in Nat
         /\ Prior(c, bare) = {} <=> Cardinality(Prior(c, bare)) = 0
         /\ Prior(c, bare) # {} =>
              Max(Prior(c, bare)) \in Prior(c, bare) /\ Max(Prior(c, bare)) \in DOMAIN history
<1>1. Prior(c, bare) =
        {n \in DOMAIN history : Key(history[n]) = <<c.claim, c.action, c.why, c.on, Context(c, bare)>>}
  BY DEF Prior, Jobs
<1>2. Prior(c, bare) \subseteq DOMAIN history  BY <1>1
<1>3. IsFiniteSet(Prior(c, bare))  BY <1>2, JobsFinite
<1>4. QED  BY <1>1, <1>2, <1>3, LatestFacts, FS_CardinalityType, FS_EmptySet

\* Of the row a candidate descends from.
LEMMA AboveFacts ==
  ASSUME Frame, NEW c \in Candidates
  PROVE  /\ c.above \in {0} \cup DOMAIN history
         /\ c.why \in Correcting => c.above \in DOMAIN history
<1>1. \/ Planned(c) \/ Targeted(c) \/ Retargeted(c)
      \/ c.claim \in Aux /\ (Usual(c, c.claim) \/ Repairing(c, c.claim) \/ Mending(c, c.claim))
  BY CandidatesFacts DEF Frame
<1>2. CASE Planned(c)  BY <1>2 DEF Planned, Correcting
<1>3. CASE Targeted(c)  BY <1>3 DEF Targeted, Correcting
<1>4. CASE Retargeted(c)  BY <1>4 DEF Retargeted
<1>5. CASE Usual(c, c.claim)  BY <1>5 DEF Usual, Correcting
<1>6. CASE Repairing(c, c.claim)
  <2>1. Findings(c.claim) \subseteq DOMAIN history  BY DEF Findings, Jobs
  <2>2. Max(Findings(c.claim)) \in DOMAIN history  BY <1>6, <2>1, LatestFacts DEF Repairing, Frame
  <2>3. QED  BY <1>6, <2>2 DEF Repairing, Correcting
<1>7. CASE Mending(c, c.claim)  BY <1>7 DEF Mending, Frame, Rowed
<1>8. QED  BY <1>1, <1>2, <1>3, <1>4, <1>5, <1>6, <1>7

LEMMA ContextFacts ==
  ASSUME Frame, NEW c \in Candidates, NEW bare \in BOOLEAN
  PROVE  Context(c, bare) \subseteq DOMAIN artifacts
<1>1. CASE c.why \in Correcting
  <2>1. Context(c, bare) = history[c.above].context  BY <1>1 DEF Context
  <2>2. c.above \in DOMAIN history  BY <1>1, AboveFacts
  <2>3. QED  BY <2>1, <2>2 DEF Frame, Rowed
<1>2. CASE c.why \notin Correcting
  <2>1. Context(c, bare) = IF bare THEN {} ELSE Lemmas(c.claim)  BY <1>2 DEF Context
  <2>2. Lemmas(c.claim) \subseteq DOMAIN artifacts  BY DEF Lemmas, ArtifactsOf
  <2>3. QED  BY <2>1, <2>2
<1>3. QED  BY <1>1, <1>2

\* Everything has ended when a decision is made.
LEMMA IdleFacts ==
  ASSUME Frame, ~ Busy
  PROVE  /\ \A n \in DOMAIN history : history[n].status \in Closed /\ Settled[n].processed
         /\ \A k \in DOMAIN artifacts : artifacts[k].status # "pending"
<1>1. \A n \in DOMAIN history : history[n].status \notin Open  BY DEF Busy, Jobs
<1>2. \A n \in DOMAIN history : history[n] \in Row  BY JobsFinite DEF Frame
<1>3. \A n \in DOMAIN history : history[n].status \in Closed  BY <1>1, <1>2 DEF Row
<1>4. \A k \in DOMAIN artifacts : artifacts[k].status # "pending"  BY DEF Busy
<1>5. QED  BY <1>3, <1>4, KeepsSettled DEF Frame

LEMMA DecisionFacts ==
  ASSUME Frame, NEW c \in Candidates, NEW bare \in BOOLEAN, NEW k \in Affordable(c), Decided(c, bare, k)
  PROVE  /\ Decision(c, bare, k) \in Row
         /\ k \in 1..8 /\ 2 * k <= Budget(c) /\ Parent(c, bare) \in {0} \cup DOMAIN history
         /\ c.action \in Plannish => Decision(c, bare, k).leases <= limits.planning - Planning
<1> DEFINE e == Decision(c, bare, k)
<1>1. c \in Cand /\ (c.action \in Plannish => Planning < limits.planning)
  BY CandidatesFacts DEF Frame
<1>2. k \in 1..8 /\ 2 * k <= Budget(c)
  <2>1. c.action \in Action  BY <1>1 DEF Cand
  <2>2. Costs[Role(c.action)] \subseteq 1..8  BY <2>1, CostFacts
  <2>3. QED  BY <2>2 DEF Affordable
<1>3. Parent(c, bare) \in {0} \cup DOMAIN history
  BY PriorFacts, AboveFacts DEF Parent, Frame
<1>4. Context(c, bare) \in SUBSET Nat
  <2>1. DOMAIN artifacts \subseteq Nat  BY JobsFinite DEF Frame
  <2>2. QED  BY <2>1, ContextFacts
<1>5. Cardinality(Prior(c, bare)) \in Nat  BY PriorFacts DEF Frame
<1> DEFINE depth == IF Parent(c, bare) = 0 THEN 0 ELSE history[Parent(c, bare)].depth + 1
           leases == IF c.action \in Plannish THEN Min({2, limits.planning - Planning}) ELSE 2
<1>6. depth \in 0..MaxDepth
  <2>1. MaxDepth \in Nat  BY FrontierAssumption
  <2>2. CASE Parent(c, bare) = 0  BY <2>1, <2>2
  <2>3. CASE Parent(c, bare) # 0
    <3>1. Parent(c, bare) \in DOMAIN history  BY <1>3, <2>3
    <3>2. history[Parent(c, bare)] \in Row  BY <3>1, JobsFinite DEF Frame
    <3>3. history[Parent(c, bare)].depth \in 0..MaxDepth  BY <3>2 DEF Row
    <3>4. ~ (history[Parent(c, bare)].depth >= MaxDepth)  BY <2>3 DEF Decided
    <3>5. history[Parent(c, bare)].depth + 1 \in 0..MaxDepth  BY <2>1, <3>3, <3>4
    <3>6. QED  BY <2>3, <3>5
  <2>4. QED  BY <2>2, <2>3
<1>7. leases \in 1..2 /\ (c.action \in Plannish => leases <= limits.planning - Planning)
  <2>1. CASE c.action \in Plannish
    <3> DEFINE r == limits.planning - Planning
    <3>1. Planning \in Nat /\ limits.planning \in 1..8  BY PlanningFacts, LimitFacts DEF Frame
    <3>2. r \in Int /\ r >= 1  BY <1>1, <2>1, <3>1
    <3> HIDE DEF r
    <3>3. IsFiniteSet({2, r})
      <4>1. IsFiniteSet({2}) /\ {2, r} = {2} \cup {r}  BY FS_Singleton
      <4>2. QED  BY <4>1, FS_AddElement
    <3>4. Min({2, r}) \in {2, r} /\ \A x \in {2, r} : Min({2, r}) <= x
      <4>1. {2, r} \subseteq Int /\ {2, r} # {}  BY <3>2
      <4>2. QED  BY <3>3, <4>1, MinFacts
    <3>5. Min({2, r}) \in 1..2 /\ Min({2, r}) <= r  BY <3>2, <3>4
    <3>6. leases = Min({2, r})  BY <2>1 DEF r
    <3>7. QED  BY <3>5, <3>6 DEF r
  <2>2. CASE c.action \notin Plannish  BY <2>2
  <2>3. QED  BY <2>1, <2>2
<1>8. /\ c.claim \in Claim /\ c.action \in Action /\ c.why \in Why /\ c.on \in SUBSET (Tag \X Nat)
      /\ c.about \in Nat
  BY <1>1 DEF Cand
<1>9. 2 * k \in Nat /\ revision \in Nat  BY <1>2 DEF Frame, Shape
<1>10. e = [claim |-> c.claim, action |-> c.action, why |-> c.why, on |-> c.on, about |-> c.about,
            context |-> Context(c, bare), retry |-> Cardinality(Prior(c, bare)), depth |-> depth,
            cost |-> 2 * k, revision |-> revision, leases |-> leases,
            status |-> "queued", processed |-> FALSE, verdict |-> "none", said |-> FALSE]
  BY DEF Decision
<1> HIDE DEF depth, leases, e
<1>11. e \in Row /\ e.leases = leases
  BY <1>4, <1>5, <1>6, <1>7, <1>8, <1>9, <1>10 DEF Row, Open, Closed, Ruling
<1>12. QED  BY <1>2, <1>3, <1>7, <1>11 DEF e

\* The decisions after the step: those before it, settled, and the new one.
LEMMA HistoryAfter ==
  ASSUME Frame, NEW c \in Candidates, NEW bare \in BOOLEAN, NEW k \in Affordable(c), Decided(c, bare, k)
  PROVE  /\ history' \in Seq(Row) /\ Len(history') = Len(history) + 1
         /\ DOMAIN history' = DOMAIN history \cup {Len(history) + 1}
         /\ Len(history) + 1 \notin DOMAIN history /\ Len(history) + 1 \in Nat
         /\ history'[Len(history) + 1] = Decision(c, bare, k)
         /\ \A n \in DOMAIN history :
              /\ KeepRow(history[n], history'[n])
              /\ history[n].status \in Closed /\ history'[n].status = history[n].status
              /\ history'[n].verdict = history[n].verdict /\ history'[n].processed
<1>1. Keeps(Settled) /\ \A n \in DOMAIN history : Settled[n].status = history[n].status
  BY KeepsSettled DEF Frame
<1>2. Settled \in Seq(Row) /\ Len(Settled) = Len(history)
      /\ \A n \in DOMAIN history : KeepRow(history[n], Settled[n])
  BY <1>1 DEF Keeps
<1>3. history' = Append(Settled, Decision(c, bare, k)) /\ ~ Busy  BY DEF Decided
<1>4. Decision(c, bare, k) \in Row  BY DecisionFacts
<1>5. DOMAIN history = 1..Len(history) /\ Len(history) \in Nat  BY JobsFinite DEF Frame
<1>6. /\ history' \in Seq(Row) /\ Len(history') = Len(history) + 1
      /\ \A n \in 1..Len(history) : history'[n] = Settled[n]
      /\ history'[Len(history) + 1] = Decision(c, bare, k)
  <2> HIDE DEF Settled, Decision
  <2>1. QED  BY <1>2, <1>3, <1>4, AppendProperties
<1>7. DOMAIN history' = 1..(Len(history) + 1)  BY <1>6
<1>8. DOMAIN history' = DOMAIN history \cup {Len(history) + 1} /\ Len(history) + 1 \notin DOMAIN history
      /\ Len(history) + 1 \in Nat
  BY <1>5, <1>7
<1>9. \A n \in DOMAIN history :
        /\ KeepRow(history[n], history'[n])
        /\ history[n].status \in Closed /\ history'[n].status = history[n].status
        /\ history'[n].verdict = history[n].verdict /\ history'[n].processed
  <2>1. \A n \in DOMAIN history : history[n].status \in Closed /\ Settled[n].processed
    BY <1>3, IdleFacts
  <2>2. \A n \in DOMAIN history : history'[n] = Settled[n]  BY <1>5, <1>6
  <2> HIDE DEF Settled
  <2>3. QED  BY <1>1, <1>2, <2>1, <2>2 DEF KeepRow
<1>10. QED  BY <1>6, <1>8, <1>9

LEMMA DecidedFrame ==
  ASSUME Frame, NEW c \in Candidates, NEW bare \in BOOLEAN, NEW k \in Affordable(c), Decided(c, bare, k)
  PROVE  Frame'
<1> DEFINE e == Decision(c, bare, k)  m == Len(history) + 1
<1>1. /\ history' \in Seq(Row) /\ Len(history') = m /\ DOMAIN history' = DOMAIN history \cup {m}
      /\ m \notin DOMAIN history /\ m \in Nat /\ history'[m] = e
      /\ \A n \in DOMAIN history : KeepRow(history[n], history'[n]) /\ history'[n].status \in Closed
                                   /\ history'[n].status = history[n].status
                                   /\ history'[n].verdict = history[n].verdict /\ history'[n].processed
  BY HistoryAfter
<1>2. /\ e \in Row /\ e.claim = c.claim /\ e.action = c.action /\ e.context = Context(c, bare)
      /\ e.cost = 2 * k /\ e.status = "queued" /\ e.verdict = "none" /\ e.revision = revision
  BY DecisionFacts DEF Decision
<1>3. k \in 1..8 /\ 2 * k <= Budget(c)  BY DecisionFacts
<1>4. /\ work' = work - 2 * k /\ artifacts' = artifacts /\ limits' = limits
      /\ UNCHANGED <<phase, overdue, erred, opinion, review, proposal, ops, targetOps, fresh, revision>>
      /\ hiccups' \in 0..MaxHiccups /\ Len(history) < limits.tasks /\ ~ Busy
  BY DEF Decided, graphVars, binding
<1> HIDE DEF e
<1>5. work' \in Nat
  <2>1. Budget(c) \in Int /\ Budget(c) <= work /\ work \in Nat  BY BudgetFacts DEF Frame, Shape
  <2>2. QED  BY <1>3, <1>4, <2>1
<1>6. Shape'
  <2>1. Len(history') <= limits'.tasks
    <3>1. Len(history) \in Nat /\ limits.tasks \in 1..32  BY JobsFinite, LimitFacts DEF Frame
    <3>2. Len(history) < limits.tasks /\ Len(history') = Len(history) + 1 /\ limits' = limits
      BY <1>1, <1>4
    <3>3. \A i \in Nat, j \in 1..32 : i < j => i + 1 <= j  OBVIOUS
    <3>4. Len(history) + 1 <= limits.tasks  BY <3>1, <3>2, <3>3
    <3>5. QED  BY <3>2, <3>4
  <2>2. QED  BY <1>1, <1>4, <1>5, <2>1 DEF Frame, Shape
<1>7. Rowed'
  <2>1. c.claim = Root <=> c.action \in {"plan", "synthesize"}  BY CandidatesFacts DEF Frame
  <2>2. Context(c, bare) \subseteq DOMAIN artifacts  BY ContextFacts
  <2>3. ASSUME NEW n \in DOMAIN history'
        PROVE  /\ history'[n].claim = Root <=> history'[n].action \in {"plan", "synthesize"}
               /\ history'[n].status = "verifying" \/ history'[n].verdict # "none"
                    => history'[n].action = "synthesize"
               /\ history'[n].context \subseteq DOMAIN artifacts
               /\ history'[n].revision <= revision
    <3>1. CASE n = m
      <4>1. revision \in Nat  BY DEF Frame, Shape
      <4>2. QED  BY <1>1, <1>2, <2>1, <2>2, <3>1, <4>1
    <3>2. CASE n \in DOMAIN history  BY <1>1, <3>2 DEF Frame, Rowed, KeepRow
    <3>3. QED  BY <1>1, <3>1, <3>2
  <2>4. \A j \in DOMAIN artifacts : artifacts[j].job \in DOMAIN history'  BY <1>1 DEF Frame, Rowed
  <2>5. QED  BY <1>4, <2>3, <2>4 DEF Rowed
<1>8. Sequential'
  <2>1. \A n \in 1..(Len(history') - 1) : n \in DOMAIN history
    <3>1. Len(history) \in Nat /\ DOMAIN history = 1..Len(history)  BY JobsFinite DEF Frame
    <3>2. QED  BY <1>1, <3>1
  <2>2. \A j \in DOMAIN artifacts : artifacts[j].status # "pending"  BY <1>4, IdleFacts
  <2>3. QED  BY <1>1, <1>4, <2>1, <2>2 DEF Sequential
<1>9. Balanced'
  <2> DEFINE g == Spending'
  <2>1. \A n \in DOMAIN history : g[n] = Spending[n]
    <3>1. \A n \in DOMAIN history : history'[n].cost = history[n].cost  BY <1>1 DEF KeepRow
    <3>2. QED  BY <1>1, <3>1 DEF Spending
  <2>2. g[m] = 2 * k  BY <1>1, <1>2 DEF Spending
  <2>3. /\ IsFiniteSet(DOMAIN history) /\ \A n \in DOMAIN history : Spending[n] \in Nat
        /\ SumOver(Spending, DOMAIN history) \in Nat
    BY SpendingFacts DEF Frame
  <2>4. SumOver(Spending, DOMAIN history)' = SumOver(g, DOMAIN history \cup {m})  BY <1>1, SumPrime
  <2> HIDE DEF g
  <2>5. SumOver(g, DOMAIN history) = SumOver(Spending, DOMAIN history)  BY <2>1, <2>3, SumAgree
  <2>6. 2 * k \in Nat  BY <1>3
  <2>7. SumOver(g, DOMAIN history \cup {m}) = 2 * k + SumOver(g, DOMAIN history)
    BY <1>1, <2>1, <2>2, <2>3, <2>6, SumAdd
  <2>8. work \in Nat /\ work + SumOver(Spending, DOMAIN history) = limits.work
    BY DEF Frame, Shape, Balanced
  <2>9. work' + SumOver(Spending, DOMAIN history)' = limits'.work
    BY <1>4, <2>3, <2>4, <2>5, <2>6, <2>7, <2>8
  <2>10. QED  BY <2>9 DEF Balanced
<1>10. QED  BY <1>6, <1>7, <1>8, <1>9 DEF Frame

LEMMA InitFrame == ASSUME Init PROVE Frame
<1>1. Shape
  <2>1. limits \in Limits /\ limits \in Limit  BY FrontierAssumption DEF Init
  <2>2. limits.tasks \in 1..32 /\ limits.work \in Nat /\ limits.operations \in 1..24  BY <2>1 DEF Limit
  <2>3. history \in Seq(Row) /\ Len(history) = 0 /\ artifacts \in Seq(Art)  BY DEF Init
  <2>4. opinion \in [Aux -> {"none", "suggested", "promising", "challenged", "abandoned"}]
        /\ review \in [Aux -> Nat] /\ proposal \in [Claim -> Asking]
    BY DEF Init, Asking
  <2>5. hiccups \in 0..MaxHiccups  BY FrontierAssumption DEF Init
  <2>6. /\ phase = "frontier" /\ overdue = FALSE /\ erred = FALSE /\ fresh = TRUE
        /\ work = limits.work /\ ops = 0 /\ targetOps = 0 /\ revision = 1
    BY DEF Init
  <2>7. Len(history) <= limits.tasks /\ work \in Nat /\ ops \in Nat /\ targetOps \in Nat
        /\ targetOps <= ops /\ ops <= limits.operations
    <3>1. \A i \in 1..32 : 0 <= i  OBVIOUS
    <3>2. 0 <= limits.tasks /\ 0 <= limits.operations  BY <2>2, <3>1
    <3>3. QED  BY <2>2, <2>3, <2>6, <3>2
  <2>8. QED  BY <2>1, <2>3, <2>4, <2>5, <2>6, <2>7 DEF Shape
<1>2. Rowed /\ Sequential
  <2>1. history = <<>> /\ artifacts = <<>>  BY DEF Init
  <2>2. QED  BY <2>1 DEF Rowed, Sequential
<1>3. Balanced
  <2>1. DOMAIN history = {} /\ work = limits.work  BY DEF Init
  <2>2. limits.work \in Nat  BY <1>1, LimitFacts
  <2>3. QED  BY <2>1, <2>2, SumEmpty DEF Balanced
<1>4. QED  BY <1>1, <1>2, <1>3 DEF Frame

\* Rows keep their types, only the last one is open, and the books balance.
THEOREM FrameHolds == Spec => []Frame
<1>1. Frame /\ [Next]_vars => Frame'
  BY NextStep, QuietFrame, DecidedFrame, StutterQuiet
<1>2. QED  BY InitFrame, <1>1, PTL DEF Spec

LEMMA FrameInforms == ASSUME Frame PROVE InformedChoice
<1>1. \A n \in DOMAIN history : history[n] \in Row  BY JobsFinite DEF Frame
<1>2. \A k \in DOMAIN artifacts : artifacts[k] \in Art  BY JobsFinite DEF Frame
<1>3. work = limits.work - Total(DOMAIN history, LAMBDA d : d.cost)
  <2>1. Total(DOMAIN history, LAMBDA d : d.cost) = SumOver(Spending, DOMAIN history)
    BY CostSum DEF Frame
  <2>2. SumOver(Spending, DOMAIN history) \in Nat /\ work \in Nat /\ limits.work \in Nat
    BY SpendingFacts, LimitFacts DEF Frame, Shape
  <2>3. work + SumOver(Spending, DOMAIN history) = limits.work  BY DEF Frame, Balanced
  <2>4. work = limits.work - SumOver(Spending, DOMAIN history)  BY <2>2, <2>3
  <2>5. QED  BY <2>1, <2>4
<1>4. work \in 0..limits.work
  <2>1. SumOver(Spending, DOMAIN history) \in Nat /\ work \in Nat /\ limits.work \in Nat
    BY SpendingFacts, LimitFacts DEF Frame, Shape
  <2>2. work + SumOver(Spending, DOMAIN history) = limits.work  BY DEF Frame, Balanced
  <2>3. QED  BY <2>1, <2>2
<1>5. FTypeOK
  <2>1. ops \in targetOps..limits.operations
    <3>1. limits.operations \in 1..24  BY LimitFacts DEF Frame
    <3>2. QED  BY <3>1 DEF Frame, Shape
  <2>2. \A n \in DOMAIN history :
          LET d == history[n] IN
          /\ d.claim \in Claim /\ d.action \in Action /\ d.why \in Why
          /\ d.status \in Open \cup Closed /\ d.processed \in BOOLEAN
          /\ d.context \subseteq DOMAIN artifacts /\ d.depth \in 0..MaxDepth /\ d.leases \in 1..2
          /\ d.claim = Root <=> d.action \in {"plan", "synthesize"}
          /\ d.revision \in 0..revision
    <3>1. SUFFICES ASSUME NEW n \in DOMAIN history
                   PROVE  LET d == history[n] IN
                          /\ d.claim \in Claim /\ d.action \in Action /\ d.why \in Why
                          /\ d.status \in Open \cup Closed /\ d.processed \in BOOLEAN
                          /\ d.context \subseteq DOMAIN artifacts /\ d.depth \in 0..MaxDepth /\ d.leases \in 1..2
                          /\ d.claim = Root <=> d.action \in {"plan", "synthesize"}
                          /\ d.revision \in 0..revision
      OBVIOUS
    <3>2. history[n] \in Row /\ history[n].revision <= revision /\ revision \in Nat
      BY <1>1 DEF Frame, Shape, Rowed
    <3>3. history[n].revision \in 0..revision  BY <3>2 DEF Row
    <3>4. QED  BY <3>2, <3>3 DEF Frame, Rowed, Row
  <2>3. \A k \in DOMAIN artifacts : artifacts[k].claim \in Aux /\ artifacts[k].job \in DOMAIN history
    BY <1>2 DEF Frame, Rowed, Art
  <2>4. QED  BY <1>4, <2>1, <2>2, <2>3 DEF FTypeOK, Frame, Shape
<1>6. QED  BY <1>3, <1>5 DEF InformedChoice, Frame, Sequential

\* A choice is made on everything known: when a decision is made no other is open, no artifact is
\* unchecked and no ended job is left to look at, and the work of all decisions is accounted for; an
\* older artifact is unchecked only after a rebinding later than the latest choice
\* (advance_frontier, _dispatch_frontier_task, bind_group_artifact_verifier).
THEOREM ChoiceIsInformed == Spec => []InformedChoice
<1>1. Frame => InformedChoice  BY FrameInforms
<1>2. QED  BY FrameHolds, <1>1, PTL

-------------------------------------------------------------------------------
(* The tail *)

\* What the tail still holds, of jobs and of checks.
TailJobs == NaturalMinus(Slots, Cardinality(Syntheses))
TailChecks == NaturalMinus(Slots, targetOps)

Keeping ==
  limits.reserve = 1 /\ TailFitted =>
    /\ TailJobs <= limits.tasks - Len(history)
    /\ TailJobs * 2 * Max(Costs["synthesizer"]) <= work
    /\ TailChecks <= limits.operations - ops

LEMMA DeferralFacts ==
  ASSUME NEW c, NEW bare, Deferral(c, bare) = ""
  PROVE  /\ ~ (CompletionTail.jobs > 0 /\ Len(history) + 1 + HeldJobs(c) > limits.tasks)
         /\ c.why \in Correcting => Correctable(c)
         /\ ~ Exhausted(c, bare) /\ Affordable(c) # {}
BY DEF Deferral

LEMMA SynthesesFacts ==
  ASSUME Shape
  PROVE  /\ Syntheses \subseteq DOMAIN history /\ IsFiniteSet(Syntheses) /\ Cardinality(Syntheses) \in Nat
         /\ TailJobs \in 0..2 /\ TailChecks \in 0..2 /\ Slots \in 1..2
         /\ limits.reserve = 1 => CompletionTail.jobs = TailJobs /\ CompletionTail.checks = TailChecks
<1>1. Syntheses \subseteq DOMAIN history  BY DEF Syntheses
<1>2. IsFiniteSet(Syntheses) /\ Cardinality(Syntheses) \in Nat  BY <1>1, JobsFinite, FS_CardinalityType
<1>3. Slots \in 1..2  BY LimitFacts
<1>4. targetOps \in Nat  BY DEF Shape
<1>5. TailJobs \in 0..2 /\ TailChecks \in 0..2  BY <1>2, <1>3, <1>4 DEF TailJobs, TailChecks, NaturalMinus
<1>6. QED  BY <1>1, <1>2, <1>3, <1>5, TailFacts DEF TailJobs, TailChecks

LEMMA QuietSyntheses == ASSUME Frame, Quiet PROVE Syntheses' = Syntheses /\ Len(history') = Len(history)
<1>1. /\ history' \in Seq(Row) /\ Len(history') = Len(history)
      /\ \A n \in DOMAIN history : KeepRow(history[n], history'[n])
  BY DEF Quiet, Keeps
<1>2. DOMAIN history' = DOMAIN history  BY <1>1, JobsFinite DEF Frame
<1>3. QED  BY <1>1, <1>2 DEF Syntheses, KeepRow

LEMMA KeepingQuiet == ASSUME Frame, Keeping, Quiet PROVE Keeping'
<1>1. Syntheses' = Syntheses /\ Len(history') = Len(history) /\ limits' = limits /\ work' = work
  BY QuietSyntheses DEF Quiet
<1>2. SUFFICES ASSUME limits.reserve = 1, TailFitted
               PROVE  TailChecks' <= limits.operations - ops'
  BY <1>1 DEF Keeping, TailJobs, Slots, TailFitted
<1>3. TailChecks <= limits.operations - ops  BY <1>2 DEF Keeping
<1>4. /\ ops \in Nat /\ targetOps \in Nat /\ limits.operations \in Nat /\ Slots \in 1..2
      /\ CompletionTail.checks = TailChecks /\ Slots' = Slots
  BY <1>1, <1>2, OperationFacts, SynthesesFacts DEF Frame, Slots
<1>5. TailChecks = NaturalMinus(Slots, targetOps) /\ TailChecks' = NaturalMinus(Slots, targetOps')
  BY <1>4 DEF TailChecks
<1>6. CASE ops' = ops /\ targetOps' = targetOps  BY <1>3, <1>5, <1>6
<1>7. CASE ops' = ops + 1 /\ targetOps' = targetOps /\ ~ TailInvaded(FALSE)
  <2>1. ~ (ops + 1 + TailChecks > limits.operations)  BY <1>2, <1>4, <1>7 DEF TailInvaded
  <2>2. TailChecks \in Nat  BY <1>4, <1>5 DEF NaturalMinus
  <2>3. TailChecks' = TailChecks  BY <1>5, <1>7
  <2>4. QED  BY <1>4, <1>7, <2>1, <2>2, <2>3
<1>8. CASE ops' = ops + 1 /\ targetOps' = targetOps + 1 /\ ~ TailInvaded(TRUE)
  <2>1. ~ (ops + 1 + NaturalMinus(TailChecks, 1) > limits.operations)  BY <1>2, <1>4, <1>8 DEF TailInvaded
  <2>2. TailChecks' = NaturalMinus(TailChecks, 1) /\ TailChecks' \in Nat
    BY <1>4, <1>5, <1>8 DEF NaturalMinus
  <2>3. QED  BY <1>4, <1>8, <2>1, <2>2
<1>9. QED  BY <1>6, <1>7, <1>8 DEF Quiet, Charged

LEMMA DecidedSyntheses ==
  ASSUME Frame, NEW c \in Candidates, NEW bare \in BOOLEAN, NEW k \in Affordable(c), Decided(c, bare, k)
  PROVE  /\ c.action # "synthesize" => Syntheses' = Syntheses
         /\ c.action = "synthesize" => Syntheses' = Syntheses \cup {Len(history) + 1}
                                       /\ Cardinality(Syntheses') = Cardinality(Syntheses) + 1
<1> DEFINE m == Len(history) + 1
<1>1. /\ DOMAIN history' = DOMAIN history \cup {m} /\ m \notin DOMAIN history
      /\ history'[m] = Decision(c, bare, k)
      /\ \A n \in DOMAIN history : history'[n].action = history[n].action
  BY HistoryAfter DEF KeepRow
<1>2. history'[m].action = c.action  BY <1>1 DEF Decision
<1>3. c.action # "synthesize" => Syntheses' = Syntheses  BY <1>1, <1>2 DEF Syntheses
<1>4. c.action = "synthesize" => Syntheses' = Syntheses \cup {m}  BY <1>1, <1>2 DEF Syntheses
<1>5. m \notin Syntheses /\ IsFiniteSet(Syntheses)  BY <1>1, SynthesesFacts DEF Frame
<1>6. Cardinality(Syntheses \cup {m}) = Cardinality(Syntheses) + 1  BY <1>5, FS_AddElement
<1>7. QED  BY <1>3, <1>4, <1>6

LEMMA KeepingDecided ==
  ASSUME Frame, Keeping, NEW c \in Candidates, NEW bare \in BOOLEAN, NEW k \in Affordable(c),
         Decided(c, bare, k)
  PROVE  Keeping'
<1> DEFINE M == Max(Costs["synthesizer"])  j == TailJobs
<1>1. Len(history') = Len(history) + 1 /\ Len(history) \in Nat
  BY HistoryAfter, JobsFinite DEF Frame
<1>2. limits' = limits /\ ops' = ops /\ targetOps' = targetOps /\ work' = work - 2 * k
      /\ Deferral(c, bare) = "" /\ Len(history) < limits.tasks
  BY DEF Decided
<1>3. Slots' = Slots /\ TailChecks' = TailChecks /\ TailFitted' = TailFitted
  BY <1>2 DEF Slots, TailChecks, TailFitted
<1>4. SUFFICES ASSUME limits.reserve = 1, TailFitted
               PROVE  TailJobs' <= limits.tasks - Len(history') /\ TailJobs' * 2 * M <= work'
  BY <1>2, <1>3 DEF Keeping
<1>5. j <= limits.tasks - Len(history) /\ j * 2 * M <= work  BY <1>4 DEF Keeping
<1>6. /\ j \in 0..2 /\ M \in 1..8 /\ CompletionTail.jobs = j /\ CompletionTail.work = j * 2 * M
      /\ Slots \in 1..2 /\ Cardinality(Syntheses) \in Nat
  BY <1>4, SynthesesFacts, TailFacts DEF Frame
<1>7. k \in 1..8 /\ 2 * k <= Budget(c)  BY DecisionFacts
<1>8. /\ c.action # "synthesize" => Budget(c) = work - CompletionTail.work
      /\ c.action = "synthesize" /\ j = 2 => Budget(c) = work - 2 * M
      /\ c.action = "synthesize" /\ j # 2 => Budget(c) = work
      /\ j = 0 => CompletionTail.work = 0
      /\ j = 1 => CompletionTail.work = 2 * M
      /\ j = 2 => CompletionTail.work = 4 * M
      /\ work \in Nat
  BY <1>6, BudgetFacts DEF Frame, Shape
<1>9. ~ (j > 0 /\ Len(history) + 1 + HeldJobs(c) > limits.tasks)  BY <1>2, <1>6, DeferralFacts
<1>10. limits.tasks \in Nat
  <2>1. limits.tasks \in 1..32  BY LimitFacts DEF Frame
  <2>2. QED  BY <2>1
<1>11. HeldJobs(c) = IF c.action = "synthesize" THEN NaturalMinus(j, 1) ELSE j  BY <1>6 DEF HeldJobs
<1>12. j = 0 \/ j = 1 \/ j = 2  BY <1>6
<1>13. TailJobs' = NaturalMinus(Slots, Cardinality(Syntheses')) /\ j = NaturalMinus(Slots, Cardinality(Syntheses))
  BY <1>3 DEF TailJobs
<1>14. work' \in Int /\ work' = work - 2 * k
  <2>1. \A i \in 1..8, w \in Nat : w - 2 * i \in Int  OBVIOUS
  <2>2. QED  BY <1>2, <1>7, <1>8, <2>1
<1> HIDE DEF M, j
<1>15. CASE c.action # "synthesize"
  <2>1. TailJobs' = j  BY <1>13, <1>15, DecidedSyntheses
  <2>2. j <= limits.tasks - Len(history')
    <3>1. ~ (j > 0 /\ Len(history) + 1 + j > limits.tasks)  BY <1>9, <1>11, <1>15
    <3>2. \A n, t \in Nat, i \in 0..2 : n < t /\ ~ (i > 0 /\ n + 1 + i > t) => i <= t - (n + 1)  OBVIOUS
    <3>3. j \in 0..2 /\ Len(history) \in Nat /\ Len(history) < limits.tasks  BY <1>1, <1>2, <1>6
    <3>4. QED  BY <1>1, <1>10, <3>1, <3>2, <3>3
  <2>3. CompletionTail.work <= work'  BY <1>6, <1>7, <1>8, <1>12, <1>14, <1>15
  <2>4. j * 2 * M <= work'  BY <1>6, <2>3
  <2>5. QED  BY <2>1, <2>2, <2>4 DEF M, j
<1>16. CASE c.action = "synthesize"
  <2>1. TailJobs' = NaturalMinus(j, 1)
    <3>1. Cardinality(Syntheses') = Cardinality(Syntheses) + 1  BY <1>16, DecidedSyntheses
    <3>2. QED  BY <1>6, <1>13, <3>1 DEF NaturalMinus
  <2>2. NaturalMinus(j, 1) <= limits.tasks - Len(history')
    <3>1. ~ (j > 0 /\ Len(history) + 1 + NaturalMinus(j, 1) > limits.tasks)  BY <1>9, <1>11, <1>16
    <3>2. \A n, t \in Nat, i \in 0..2 :
            n < t /\ ~ (i > 0 /\ n + 1 + NaturalMinus(i, 1) > t) => NaturalMinus(i, 1) <= t - (n + 1)
      BY DEF NaturalMinus
    <3>3. j \in 0..2 /\ Len(history) \in Nat /\ Len(history) < limits.tasks  BY <1>1, <1>2, <1>6
    <3>4. QED  BY <1>1, <1>10, <3>1, <3>2, <3>3
  <2>3. NaturalMinus(j, 1) * 2 * M <= work'
    <3>1. CASE j = 2
      <4>1. NaturalMinus(j, 1) = 1  BY <3>1 DEF NaturalMinus
      <4>2. 2 * k <= work - 2 * M  BY <1>7, <1>8, <1>16, <3>1
      <4>3. 1 * 2 * M = 2 * M  BY <1>6
      <4>4. 2 * M <= work'  BY <1>6, <1>7, <1>8, <1>14, <4>2
      <4>5. QED  BY <4>1, <4>3, <4>4
    <3>2. CASE j # 2
      <4>1. NaturalMinus(j, 1) = 0  BY <1>12, <3>2 DEF NaturalMinus
      <4>2. 2 * k <= work  BY <1>7, <1>8, <1>16, <3>2
      <4>3. 0 * 2 * M = 0  BY <1>6
      <4>4. 0 <= work'  BY <1>7, <1>8, <1>14, <4>2
      <4>5. QED  BY <4>1, <4>3, <4>4
    <3>3. QED  BY <3>1, <3>2
  <2>4. QED  BY <2>1, <2>2, <2>3 DEF M, j
<1>17. QED  BY <1>15, <1>16

LEMMA KeepingInit == ASSUME Init PROVE Keeping
<1>1. Frame  BY InitFrame
<1>2. Slots \in 1..2 /\ work = limits.work /\ Len(history) = 0 /\ ops = 0 /\ targetOps = 0
  BY <1>1, SynthesesFacts DEF Frame, Init
<1>3. Syntheses = {}  BY DEF Init, Syntheses
<1>4. Cardinality(Syntheses) = 0  BY <1>3, FS_EmptySet
<1>5. TailJobs = Slots /\ TailChecks = Slots  BY <1>2, <1>4 DEF TailJobs, TailChecks, NaturalMinus
<1>6. limits.tasks \in Nat /\ limits.operations \in Nat
  <2>1. limits.tasks \in 1..32 /\ limits.operations \in 1..24  BY <1>1, LimitFacts DEF Frame
  <2>2. QED  BY <2>1
<1>7. limits.tasks - 0 = limits.tasks /\ limits.operations - 0 = limits.operations  BY <1>6
<1>8. QED  BY <1>2, <1>5, <1>7 DEF Keeping, TailFitted

\* What the completion needs is never spent on anything else: given enough at the start, the tasks,
\* the work and the operations left cover the syntheses still to come and their checks
\* (completion_tail, _admit_candidate, reserve_check).
THEOREM CompletionIsKept == Spec => []TailKept
<1>1. Frame /\ Keeping /\ [Next]_vars => Keeping'
  BY NextStep, KeepingQuiet, KeepingDecided, StutterQuiet
<1>2. Frame /\ Keeping => TailKept
  <2>1. SUFFICES ASSUME Frame, Keeping, limits.reserve = 1, TailFitted
                 PROVE  /\ CompletionTail.jobs <= limits.tasks - Len(history)
                        /\ CompletionTail.work <= work
                        /\ CompletionTail.checks <= limits.operations - ops
    BY DEF TailKept
  <2>2. /\ CompletionTail.jobs = TailJobs /\ CompletionTail.checks = TailChecks
        /\ CompletionTail.work = TailJobs * 2 * Max(Costs["synthesizer"])
    BY <2>1, SynthesesFacts, TailFacts DEF Frame
  <2>3. QED  BY <2>1, <2>2 DEF Keeping
<1>3. QED  BY FrameHolds, KeepingInit, <1>1, <1>2, PTL DEF Spec

-------------------------------------------------------------------------------
(* Strategies *)

Alike(K) == {n \in DOMAIN history : Key(history[n]) = K}
Allowed(action) == IF action \in Plannish THEN 1 ELSE 1 + limits.retries

\* The tries of a strategy are numbered, and are as many as it is allowed.
Numbered ==
  \A n \in DOMAIN history :
    LET same == Alike(Key(history[n])) IN
    /\ Cardinality(same) <= Allowed(history[n].action)
    /\ history[n].retry < Cardinality(same)
    /\ \A m \in same \ {n} : history[m].retry # history[n].retry
Capped == SumOver(Leasing, Planners) <= limits.planning /\ Cardinality(Plans) <= 3

LEMMA LeaseSumPrime == SumOver(Leasing, Planners)' = SumOver(Leasing', Planners')
BY DEF SumOver, MapThenSumSet, MapThenFoldSet

LEMMA QuietRows ==
  ASSUME Frame, Quiet
  PROVE  /\ DOMAIN history' = DOMAIN history /\ limits' = limits
         /\ \A n \in DOMAIN history : KeepRow(history[n], history'[n])
         /\ \A n \in DOMAIN history : Key(history'[n]) = Key(history[n])
         /\ \A K : Alike(K)' = Alike(K)
<1>1. /\ history' \in Seq(Row) /\ Len(history') = Len(history)
      /\ \A n \in DOMAIN history : KeepRow(history[n], history'[n])
  BY DEF Quiet, Keeps
<1>2. DOMAIN history' = DOMAIN history  BY <1>1, JobsFinite DEF Frame
<1>3. \A n \in DOMAIN history : Key(history'[n]) = Key(history[n])  BY <1>1 DEF Key, KeepRow
<1>4. \A K : Alike(K)' = Alike(K)
  <2>1. SUFFICES ASSUME NEW K PROVE Alike(K)' = Alike(K)  OBVIOUS
  <2>2. Alike(K)' = {n \in DOMAIN history' : Key(history'[n]) = K}  BY DEF Alike, Key
  <2>3. QED  BY <1>2, <1>3, <2>2 DEF Alike
<1>5. QED  BY <1>1, <1>2, <1>3, <1>4 DEF Quiet

LEMMA NumberedQuiet == ASSUME Frame, Numbered, Quiet PROVE Numbered'
<1>1. SUFFICES ASSUME NEW n \in DOMAIN history'
               PROVE  LET same == Alike(Key(history[n])) IN
                      /\ Cardinality(same') <= Allowed(history[n].action)'
                      /\ history'[n].retry < Cardinality(same')
                      /\ \A m \in same' \ {n} : history'[m].retry # history'[n].retry
  BY DEF Numbered
<1>2. n \in DOMAIN history /\ limits' = limits /\ KeepRow(history[n], history'[n])  BY <1>1, QuietRows
<1>3. PICK K : K = Key(history[n])  OBVIOUS
<1>4. Key(history'[n]) = K  BY <1>2, <1>3, QuietRows
<1>5. Alike(Key(history[n]))' = {m \in DOMAIN history' : Key(history'[m]) = K}
  BY <1>4 DEF Alike, Key
<1>6. {m \in DOMAIN history' : Key(history'[m]) = K} = Alike(K)
  BY QuietRows DEF Alike
<1>7. /\ Cardinality(Alike(K)) <= Allowed(history[n].action)
      /\ history[n].retry < Cardinality(Alike(K))
      /\ \A m \in Alike(K) \ {n} : history[m].retry # history[n].retry
  BY <1>2, <1>3 DEF Numbered
<1>8. Allowed(history[n].action)' = Allowed(history[n].action) /\ history'[n].retry = history[n].retry
  BY <1>2 DEF Allowed, KeepRow
<1>9. \A m \in Alike(K) : history'[m].retry = history[m].retry
  BY QuietRows DEF Alike, KeepRow
<1>10. QED  BY <1>5, <1>6, <1>7, <1>8, <1>9

LEMMA CappedQuiet == ASSUME Frame, Capped, Quiet PROVE Capped'
<1>1. Planners' = Planners /\ Plans' = Plans  BY QuietRows DEF Planners, Plans, KeepRow
<1>2. Leasing' = Leasing  BY QuietRows DEF Leasing, KeepRow
<1>3. QED  BY <1>1, <1>2, QuietRows, LeaseSumPrime DEF Capped

LEMMA CappedDecided ==
  ASSUME Frame, Capped, NEW c \in Candidates, NEW bare \in BOOLEAN, NEW k \in Affordable(c),
         Decided(c, bare, k)
  PROVE  Capped'
<1> DEFINE m == Len(history) + 1  e == Decision(c, bare, k)  g == Leasing'
<1>1. /\ DOMAIN history' = DOMAIN history \cup {m} /\ m \notin DOMAIN history /\ history'[m] = e
      /\ \A n \in DOMAIN history : history'[n].action = history[n].action
                                   /\ history'[n].leases = history[n].leases
  BY HistoryAfter DEF KeepRow
<1>2. e.action = c.action /\ e.leases \in Nat
      /\ (c.action \in Plannish => e.leases <= limits.planning - Planning)
  <2>1. e \in Row /\ (c.action \in Plannish => e.leases <= limits.planning - Planning)  BY DecisionFacts
  <2>2. e.leases \in Nat
    <3> HIDE DEF e
    <3>1. QED  BY <2>1 DEF Row
  <2>3. QED  BY <2>1, <2>2 DEF Decision
<1>3. limits' = limits  BY DEF Decided
<1>4. /\ Planning = SumOver(Leasing, Planners) /\ Planning \in Nat
      /\ Planners \subseteq DOMAIN history /\ IsFiniteSet(Planners)
      /\ \A n \in DOMAIN history : Leasing[n] \in Nat
  BY PlanningFacts DEF Frame
<1> HIDE DEF e
<1>5. \A n \in DOMAIN history : g[n] = Leasing[n]  BY <1>1 DEF Leasing
<1>6. g[m] = e.leases  BY <1>1 DEF Leasing
<1>7. SumOver(Leasing, Planners)' = SumOver(g, Planners')  BY LeaseSumPrime
<1> HIDE DEF g
<1>8. SumOver(g, Planners) = SumOver(Leasing, Planners)  BY <1>4, <1>5, SumAgree
<1>9. SumOver(g, Planners') <= limits.planning
  <2>1. CASE c.action \in Plannish
    <3>1. Planners' = Planners \cup {m}  BY <1>1, <1>2, <2>1 DEF Planners
    <3>2. m \notin Planners /\ \A n \in Planners : g[n] \in Nat  BY <1>1, <1>4, <1>5
    <3>3. SumOver(g, Planners \cup {m}) = g[m] + SumOver(g, Planners)
      BY <1>2, <1>4, <1>6, <3>2, SumAdd
    <3>4. limits.planning \in 1..8  BY LimitFacts DEF Frame
    <3>5. e.leases <= limits.planning - Planning  BY <1>2, <2>1
    <3>6. \A a, b \in Nat, i \in 1..8 : a <= i - b => a + b <= i  OBVIOUS
    <3>7. e.leases + Planning <= limits.planning  BY <1>2, <1>4, <3>4, <3>5, <3>6
    <3>8. QED  BY <1>4, <1>6, <1>8, <3>1, <3>3, <3>7
  <2>2. CASE c.action \notin Plannish
    <3>1. Planners' = Planners  BY <1>1, <1>2, <2>2 DEF Planners
    <3>2. QED  BY <1>8, <3>1 DEF Capped
  <2>3. QED  BY <2>1, <2>2
<1>10. Cardinality(Plans') <= 3
  <2>1. CASE c.action = "plan"
    <3>1. Plans' = Plans \cup {m} /\ m \notin Plans  BY <1>1, <1>2, <2>1 DEF Plans
    <3>2. Plans \subseteq DOMAIN history  BY DEF Plans
    <3>3. IsFiniteSet(Plans) /\ Cardinality(Plans) \in Nat  BY <3>2, JobsFinite, FS_CardinalityType DEF Frame
    <3>4. Cardinality(Plans') = Cardinality(Plans) + 1  BY <3>1, <3>3, FS_AddElement
    <3>5. Cardinality(Plans) < 3
      <4>1. \/ Planned(c) \/ Targeted(c) \/ Retargeted(c)
            \/ c.claim \in Aux /\ (Usual(c, c.claim) \/ Repairing(c, c.claim) \/ Mending(c, c.claim))
        BY CandidatesFacts DEF Frame
      <4>2. c.claim = Root /\ Root \notin Aux  BY <2>1, CandidatesFacts, ClaimFacts DEF Frame
      <4>3. QED  BY <2>1, <4>1, <4>2 DEF Planned, Targeted, Retargeted
    <3>6. QED  BY <3>3, <3>4, <3>5
  <2>2. CASE c.action # "plan"
    <3>1. Plans' = Plans  BY <1>1, <1>2, <2>2 DEF Plans
    <3>2. QED  BY <3>1 DEF Capped
  <2>3. QED  BY <2>1, <2>2
<1>11. QED  BY <1>3, <1>7, <1>9, <1>10 DEF Capped

LEMMA NumberedDecided ==
  ASSUME Frame, Numbered, NEW c \in Candidates, NEW bare \in BOOLEAN, NEW k \in Affordable(c),
         Decided(c, bare, k)
  PROVE  Numbered'
<1> DEFINE m == Len(history) + 1  e == Decision(c, bare, k)
           L == <<c.claim, c.action, c.why, c.on, Context(c, bare)>>
           size == Cardinality(Prior(c, bare))
<1>1. /\ DOMAIN history' = DOMAIN history \cup {m} /\ m \notin DOMAIN history /\ history'[m] = e
      /\ \A n \in DOMAIN history : /\ Key(history'[n]) = Key(history[n])
                                   /\ history'[n].retry = history[n].retry
                                   /\ history'[n].action = history[n].action
  BY HistoryAfter DEF KeepRow, Key
<1>2. Key(e) = L /\ e.retry = size /\ e.action = c.action  BY DEF Key, Decision
<1>3. limits' = limits /\ ~ Exhausted(c, bare)  BY DeferralFacts DEF Decided
<1>4. Prior(c, bare) = Alike(L) /\ IsFiniteSet(Prior(c, bare)) /\ size \in Nat
      /\ Prior(c, bare) \subseteq DOMAIN history
  BY PriorFacts DEF Alike, Frame
<1>5. size + 1 <= Allowed(c.action)
  <2>1. ~ (size >= Tries(c))  BY <1>3 DEF Exhausted
  <2>2. limits.retries \in 0..1  BY LimitFacts DEF Frame
  <2>3. Tries(c) \in {1, Allowed(c.action)} /\ Allowed(c.action) \in {1, 1 + limits.retries}
        /\ (Tries(c) = 1 \/ Tries(c) = Allowed(c.action))
    BY DEF Tries, Allowed
  <2>4. 1 <= 1 + limits.retries /\ 1 + limits.retries \in Nat  BY <2>2
  <2>5. Tries(c) <= Allowed(c.action) /\ Tries(c) \in Nat /\ Allowed(c.action) \in Nat
    BY <2>3, <2>4
  <2>6. QED  BY <1>4, <2>1, <2>5
<1> HIDE DEF e, L, size
<1>6. \A K : {n \in DOMAIN history' : Key(history'[n]) = K} =
               IF K = L THEN Alike(K) \cup {m} ELSE Alike(K)
  BY <1>1, <1>2 DEF Alike
<1>7. Cardinality(Alike(L) \cup {m}) = size + 1
  <2>1. m \notin Alike(L)  BY <1>1, <1>4
  <2>2. QED  BY <1>4, <2>1, FS_AddElement DEF size
<1>8. \A n \in DOMAIN history : Key(history[n]) = L =>
        /\ history[n].retry < size /\ history[n].action = c.action
  <2>1. SUFFICES ASSUME NEW n \in DOMAIN history, Key(history[n]) = L
                 PROVE  history[n].retry < size /\ history[n].action = c.action
    OBVIOUS
  <2>2. history[n].retry < Cardinality(Alike(Key(history[n])))  BY DEF Numbered
  <2>3. Cardinality(Alike(L)) = size  BY <1>4 DEF size
  <2>4. history[n].action = c.action  BY <2>1 DEF Key, L
  <2>5. QED  BY <2>1, <2>2, <2>3, <2>4
<1>9. \A n \in DOMAIN history : history[n].retry \in Nat
  <2>1. \A n \in DOMAIN history : history[n] \in Row  BY JobsFinite DEF Frame
  <2>2. QED  BY <2>1 DEF Row
<1>10. SUFFICES ASSUME NEW n \in DOMAIN history'
                PROVE  LET same == {i \in DOMAIN history' : Key(history'[i]) = Key(history'[n])} IN
                       /\ Cardinality(same) <= Allowed(history'[n].action)
                       /\ history'[n].retry < Cardinality(same)
                       /\ \A i \in same \ {n} : history'[i].retry # history'[n].retry
  BY <1>3 DEF Numbered, Alike, Allowed, Key
<1>11. PICK K : K = Key(history'[n])  OBVIOUS
<1> DEFINE same == {i \in DOMAIN history' : Key(history'[i]) = K}
<1>12. CASE K = L
  <2>1. same = Alike(L) \cup {m} /\ Cardinality(same) = size + 1  BY <1>6, <1>7, <1>12
  <2>2. history'[n].action = c.action /\ history'[n].retry < size + 1
    <3>1. CASE n = m  BY <1>1, <1>2, <1>4, <3>1
    <3>2. CASE n \in DOMAIN history
      <4>1. Key(history[n]) = L  BY <1>1, <1>11, <1>12, <3>2
      <4>2. history'[n].action = c.action /\ history'[n].retry < size /\ history'[n].retry \in Nat
        BY <1>1, <1>8, <1>9, <3>2, <4>1
      <4>3. QED  BY <1>4, <4>2
    <3>3. QED  BY <1>1, <3>1, <3>2
  <2>3. ASSUME NEW i \in same \ {n} PROVE history'[i].retry # history'[n].retry
    <3>1. \A j \in DOMAIN history : Key(history'[j]) = L =>
            history'[j].retry < size /\ history'[j].retry \in Nat
      BY <1>1, <1>8, <1>9
    <3>2. history'[m].retry = size  BY <1>1, <1>2
    <3>3. CASE n = m
      <4>1. i \in DOMAIN history /\ Key(history'[i]) = L  BY <1>1, <1>12, <2>3, <3>3
      <4>2. QED  BY <1>4, <3>1, <3>2, <3>3, <4>1
    <3>4. CASE n # m /\ i = m
      <4>1. n \in DOMAIN history /\ Key(history'[n]) = L  BY <1>1, <1>11, <1>12, <3>4
      <4>2. QED  BY <1>4, <3>1, <3>2, <3>4, <4>1
    <3>5. CASE n # m /\ i # m
      <4>1. n \in DOMAIN history /\ i \in DOMAIN history /\ i # n  BY <1>1, <2>3, <3>5
      <4>2. Key(history[i]) = Key(history[n])  BY <1>1, <1>11, <2>3, <4>1
      <4>3. history[i].retry # history[n].retry  BY <4>1, <4>2 DEF Numbered, Alike
      <4>4. QED  BY <1>1, <4>1, <4>3
    <3>6. QED  BY <3>3, <3>4, <3>5
  <2>4. QED  BY <1>5, <1>11, <2>1, <2>2, <2>3
<1>13. CASE K # L
  <2>1. same = Alike(K)  BY <1>6, <1>13
  <2>2. n \in DOMAIN history /\ Key(history[n]) = K  BY <1>1, <1>2, <1>11, <1>13
  <2>3. /\ Cardinality(Alike(K)) <= Allowed(history[n].action)
        /\ history[n].retry < Cardinality(Alike(K))
        /\ \A i \in Alike(K) \ {n} : history[i].retry # history[n].retry
    BY <2>2 DEF Numbered
  <2>4. \A i \in Alike(K) : i \in DOMAIN history  BY DEF Alike
  <2>5. QED  BY <1>1, <1>11, <2>1, <2>2, <2>3, <2>4
<1>14. QED  BY <1>12, <1>13

LEMMA StrategicInit == ASSUME Init PROVE Numbered /\ Capped
<1>1. DOMAIN history = {}  BY DEF Init
<1>2. Planners = {} /\ Plans = {}  BY <1>1 DEF Planners, Plans
<1>3. SumOver(Leasing, Planners) = 0 /\ Cardinality(Plans) = 0  BY <1>2, SumEmpty, FS_EmptySet
<1>4. limits.planning \in 1..8  BY InitFrame, LimitFacts DEF Frame
<1>5. QED  BY <1>1, <1>3, <1>4 DEF Numbered, Capped

\* No strategy is tried on the same declarations more often than its retries allow, plans and
\* critiques never twice; the tries of one strategy have different numbers, so that no two decisions
\* have one key; planning stays within its cap (_admit_candidate, _dispatch_frontier_task).
THEOREM TriesAreBounded == Spec => []StrategiesBounded
<1>1. Frame /\ Numbered /\ Capped /\ [Next]_vars => (Numbered /\ Capped)'
  BY NextStep, NumberedQuiet, CappedQuiet, NumberedDecided, CappedDecided, StutterQuiet
<1>2. Frame /\ Numbered /\ Capped => StrategiesBounded
  <2>1. SUFFICES ASSUME Frame, Numbered, Capped PROVE StrategiesBounded  OBVIOUS
  <2>2. Planning <= limits.planning  BY <2>1, PlanningFacts DEF Capped, Frame
  <2>3. Jobs(LAMBDA d : d.action = "plan") = Plans  BY DEF Jobs, Plans
  <2>4. Cardinality(Jobs(LAMBDA d : d.action = "plan")) <= 3  BY <2>1, <2>3 DEF Capped
  <2>5. ASSUME NEW n \in DOMAIN history
        PROVE  LET same == Jobs(LAMBDA d : Key(d) = Key(history[n])) IN
               /\ Cardinality(same) <= (IF history[n].action \in Plannish THEN 1 ELSE 1 + limits.retries)
               /\ \A m \in same \ {n} : history[m].retry # history[n].retry
    <3>1. Jobs(LAMBDA d : Key(d) = Key(history[n])) = Alike(Key(history[n]))  BY DEF Jobs, Alike
    <3>2. QED  BY <2>1, <3>1 DEF Numbered, Allowed
  <2>6. QED  BY <2>2, <2>4, <2>5 DEF StrategiesBounded
<1>3. QED  BY FrameHolds, StrategicInit, <1>1, <1>2, PTL DEF Spec

-------------------------------------------------------------------------------
(* Corrections *)

Corrections(c) == {n \in DOMAIN history : history[n].claim = c /\ history[n].why \in Correcting}

\* A correction of an artifact, and of the target, given the context of what it corrects, under the
\* binding of that job.
Mended(d) ==
  /\ d.claim \in Aux /\ d.about \in DOMAIN artifacts /\ artifacts[d.about].claim = d.claim
  /\ artifacts[d.about].status = "rejected" /\ d.context = history[artifacts[d.about].job].context
  /\ d.revision = history[artifacts[d.about].job].revision
Redone(d) ==
  /\ d.claim = Root /\ d.about \in DOMAIN history /\ history[d.about].status \in Closed
  /\ history[d.about].verdict = "rejected" /\ d.context = history[d.about].context
  /\ d.revision = history[d.about].revision

Correct ==
  /\ \A c \in Claim : Cardinality(Corrections(c)) <= 1
  /\ \A n \in DOMAIN history :
       /\ history[n].why = "auxiliary-correction" => Mended(history[n])
       /\ history[n].why = "target-correction" => Redone(history[n])

LEMMA CorrectQuiet == ASSUME Frame, Correct, Quiet PROVE Correct'
<1>1. /\ DOMAIN history' = DOMAIN history
      /\ \A n \in DOMAIN history : KeepRow(history[n], history'[n])
  BY QuietRows
<1>2. \A c \in Claim : Corrections(c)' = Corrections(c)  BY <1>1 DEF Corrections, KeepRow
<1>3. ASSUME NEW n \in DOMAIN history, history[n].why = "auxiliary-correction"
      PROVE  /\ history'[n].claim \in Aux /\ history'[n].about \in DOMAIN artifacts'
             /\ artifacts'[history'[n].about].claim = history'[n].claim
             /\ artifacts'[history'[n].about].status = "rejected"
             /\ history'[n].context = history'[artifacts'[history'[n].about].job].context
             /\ history'[n].revision = history'[artifacts'[history'[n].about].job].revision
  <2> DEFINE a == history[n].about
  <2>1. Mended(history[n])  BY <1>3 DEF Correct
  <2>2. history'[n].claim = history[n].claim /\ history'[n].about = a
        /\ history'[n].context = history[n].context /\ history'[n].revision = history[n].revision
    BY <1>1 DEF KeepRow
  <2>3. /\ a \in DOMAIN artifacts' /\ artifacts'[a].claim = artifacts[a].claim
        /\ artifacts'[a].job = artifacts[a].job /\ artifacts'[a].status = "rejected"
    <3>1. a \in DOMAIN artifacts /\ artifacts[a].status = "rejected"  BY <2>1 DEF Mended
    <3>2. DOMAIN artifacts \subseteq DOMAIN artifacts'
      <4>1. artifacts \in Seq(Art) /\ artifacts' \in Seq(Art) /\ Len(artifacts) <= Len(artifacts')
        BY JobsFinite DEF Frame, Quiet, Grown
      <4>2. QED  BY <4>1
    <3>3. QED  BY <3>1, <3>2 DEF Quiet, Grown
  <2>4. artifacts[a].job \in DOMAIN history  BY <2>1 DEF Mended, Frame, Rowed
  <2>5. /\ history'[artifacts[a].job].context = history[artifacts[a].job].context
        /\ history'[artifacts[a].job].revision = history[artifacts[a].job].revision
    BY <1>1, <2>4 DEF KeepRow
  <2>6. QED  BY <2>1, <2>2, <2>3, <2>5 DEF Mended
<1>4. ASSUME NEW n \in DOMAIN history, history[n].why = "target-correction"
      PROVE  /\ history'[n].claim = Root /\ history'[n].about \in DOMAIN history
             /\ history'[history'[n].about].status \in Closed
             /\ history'[history'[n].about].verdict = "rejected"
             /\ history'[n].context = history'[history'[n].about].context
             /\ history'[n].revision = history'[history'[n].about].revision
  <2>1. Redone(history[n])  BY <1>4 DEF Correct
  <2>2. /\ history'[n].claim = Root /\ history'[n].about = history[n].about
        /\ history'[n].about \in DOMAIN history
    BY <1>1, <2>1 DEF Redone, KeepRow
  <2>3. /\ history'[history[n].about].status \in Closed /\ history'[history[n].about].verdict = "rejected"
    BY <1>1, <2>1 DEF Redone, KeepRow
  <2>4. history'[n].context = history'[history[n].about].context  BY <1>1, <2>1 DEF Redone, KeepRow
  <2>5. history'[n].revision = history'[history[n].about].revision  BY <1>1, <2>1 DEF Redone, KeepRow
  <2>6. QED  BY <2>2, <2>3, <2>4, <2>5
<1>5. \A n \in DOMAIN history : history'[n].why = history[n].why  BY <1>1 DEF KeepRow
<1>6. \A c \in Claim : Cardinality(Corrections(c)') <= 1  BY <1>2 DEF Correct
<1>7. QED  BY <1>1, <1>3, <1>4, <1>5, <1>6 DEF Correct, Mended, Redone

LEMMA CorrectDecided ==
  ASSUME Frame, Correct, NEW c \in Candidates, NEW bare \in BOOLEAN, NEW k \in Affordable(c),
         Decided(c, bare, k)
  PROVE  Correct'
<1> DEFINE m == Len(history) + 1  e == Decision(c, bare, k)
<1>1. /\ DOMAIN history' = DOMAIN history \cup {m} /\ m \notin DOMAIN history /\ history'[m] = e
      /\ \A n \in DOMAIN history : KeepRow(history[n], history'[n]) /\ history'[n].status \in Closed
                                   /\ history'[n].verdict = history[n].verdict
  BY HistoryAfter
<1>2. /\ e.claim = c.claim /\ e.why = c.why /\ e.about = c.about /\ e.context = Context(c, bare)
      /\ e.revision = revision
  BY DEF Decision
<1>3. artifacts' = artifacts  BY DEF Decided, graphVars
<1>4. \/ Planned(c) \/ Targeted(c) \/ Retargeted(c)
      \/ c.claim \in Aux /\ (Usual(c, c.claim) \/ Repairing(c, c.claim) \/ Mending(c, c.claim))
  BY CandidatesFacts DEF Frame
<1>5. c.why = "auxiliary-correction" => Mending(c, c.claim) /\ c.claim \in Aux
  BY <1>4 DEF Planned, Targeted, Retargeted, Usual, Repairing
<1>6. c.why = "target-correction" => Retargeted(c)
  BY <1>4 DEF Planned, Targeted, Usual, Repairing, Mending
<1>7. c.why \in Correcting => /\ Context(c, bare) = history[c.above].context
                              /\ revision = history[c.above].revision
  <2>1. c.why \in Correcting => Correctable(c)  BY DeferralFacts DEF Decided
  <2>2. QED  BY <2>1 DEF Context, Correctable
<1> HIDE DEF e
<1>8. Root \notin Aux  BY ClaimFacts
<1>9. \A a \in Claim : Corrections(a)' = IF c.why \in Correcting /\ c.claim = a
                                         THEN Corrections(a) \cup {m} ELSE Corrections(a)
  BY <1>1, <1>2 DEF Corrections, KeepRow
<1>10. c.why \in Correcting => Corrections(c.claim) = {}
  <2>1. CASE c.why = "auxiliary-correction"
    <3>1. ~ Corrected(c.claim) /\ c.claim # Root  BY <1>5, <1>8, <2>1 DEF Mending
    <3>2. \A n \in DOMAIN history : ~ (history[n].claim = c.claim /\ history[n].why = "auxiliary-correction")
      BY <3>1 DEF Corrected, Jobs
    <3>3. \A n \in DOMAIN history : history[n].why = "target-correction" => history[n].claim = Root
      BY DEF Correct, Redone
    <3>4. QED  BY <3>1, <3>2, <3>3 DEF Corrections, Correcting
  <2>2. CASE c.why = "target-correction"
    <3>1. ~ TargetCorrected /\ c.claim = Root  BY <1>6, <2>2 DEF Retargeted
    <3>2. \A n \in DOMAIN history : history[n].why # "target-correction"
      BY <3>1 DEF TargetCorrected, Jobs
    <3>3. \A n \in DOMAIN history : history[n].why = "auxiliary-correction" => history[n].claim # Root
      BY <1>8 DEF Correct, Mended
    <3>4. QED  BY <3>1, <3>2, <3>3 DEF Corrections, Correcting
  <2>3. QED  BY <2>1, <2>2 DEF Correcting
<1>11. \A a \in Claim : Cardinality(Corrections(a)') <= 1
  <2>1. SUFFICES ASSUME NEW a \in Claim PROVE Cardinality(Corrections(a)') <= 1  OBVIOUS
  <2>2. CASE c.why \in Correcting /\ c.claim = a
    <3>1. Corrections(a)' = {m}  BY <1>9, <1>10, <2>2
    <3>2. Cardinality({m}) = 1  BY FS_Singleton
    <3>3. QED  BY <3>1, <3>2
  <2>3. CASE ~ (c.why \in Correcting /\ c.claim = a)
    <3>1. Corrections(a)' = Corrections(a)  BY <1>9, <2>3
    <3>2. QED  BY <3>1 DEF Correct
  <2>4. QED  BY <2>2, <2>3
<1>12. ASSUME NEW n \in DOMAIN history', history'[n].why = "auxiliary-correction"
       PROVE  /\ history'[n].claim \in Aux /\ history'[n].about \in DOMAIN artifacts
              /\ artifacts[history'[n].about].claim = history'[n].claim
              /\ artifacts[history'[n].about].status = "rejected"
              /\ history'[n].context = history'[artifacts[history'[n].about].job].context
              /\ history'[n].revision = history'[artifacts[history'[n].about].job].revision
  <2>1. \A a \in DOMAIN artifacts : artifacts[a].job \in DOMAIN history  BY DEF Frame, Rowed
  <2>2. CASE n = m
    <3>1. /\ Mending(c, c.claim) /\ c.claim \in Aux /\ e.context = history[c.above].context
          /\ e.revision = history[c.above].revision
      BY <1>1, <1>2, <1>5, <1>7, <1>12, <2>2 DEF Correcting
    <3>2. /\ c.about \in DOMAIN artifacts /\ artifacts[c.about].claim = c.claim
          /\ artifacts[c.about].status = "rejected" /\ c.above = artifacts[c.about].job
      BY <3>1 DEF Mending
    <3>3. /\ history'[c.above].context = history[c.above].context
          /\ history'[c.above].revision = history[c.above].revision
      BY <1>1, <2>1, <3>2 DEF KeepRow
    <3>4. QED  BY <1>1, <1>2, <2>2, <3>1, <3>2, <3>3
  <2>3. CASE n \in DOMAIN history
    <3>1. Mended(history[n])  BY <1>1, <1>12, <2>3 DEF Correct, KeepRow
    <3>2. artifacts[history[n].about].job \in DOMAIN history  BY <2>1, <3>1 DEF Mended
    <3>3. QED  BY <1>1, <2>3, <3>1, <3>2 DEF Mended, KeepRow
  <2>4. QED  BY <1>1, <2>2, <2>3
<1>13. ASSUME NEW n \in DOMAIN history', history'[n].why = "target-correction"
       PROVE  /\ history'[n].claim = Root /\ history'[n].about \in DOMAIN history
              /\ history'[history'[n].about].status \in Closed
              /\ history'[history'[n].about].verdict = "rejected"
              /\ history'[n].context = history'[history'[n].about].context
              /\ history'[n].revision = history'[history'[n].about].revision
  <2>1. CASE n = m
    <3>1. Retargeted(c) /\ e.context = history[c.above].context /\ e.revision = history[c.above].revision
      BY <1>1, <1>2, <1>6, <1>7, <1>13, <2>1 DEF Correcting
    <3>2. /\ c.claim = Root /\ c.about \in DOMAIN history /\ history[c.about].verdict = "rejected"
          /\ c.above = c.about
      BY <3>1 DEF Retargeted
    <3>3. /\ history'[c.about].context = history[c.about].context
          /\ history'[c.about].revision = history[c.about].revision
          /\ history'[c.about].status \in Closed /\ history'[c.about].verdict = "rejected"
      BY <1>1, <3>2 DEF KeepRow
    <3>4. QED  BY <1>1, <1>2, <2>1, <3>1, <3>2, <3>3
  <2>2. CASE n \in DOMAIN history
    <3>1. Redone(history[n])  BY <1>1, <1>13, <2>2 DEF Correct, KeepRow
    <3>2. QED  BY <1>1, <2>2, <3>1 DEF Redone, KeepRow
  <2>3. QED  BY <1>1, <2>1, <2>2
<1>14. DOMAIN history \subseteq DOMAIN history'  BY <1>1
<1>15. QED  BY <1>3, <1>11, <1>12, <1>13, <1>14 DEF Correct, Mended, Redone

LEMMA CorrectInit == ASSUME Init PROVE Correct
<1>1. DOMAIN history = {}  BY DEF Init
<1>2. \A c \in Claim : Corrections(c) = {}  BY <1>1 DEF Corrections
<1>3. \A c \in Claim : Cardinality(Corrections(c)) = 0  BY <1>2, FS_EmptySet
<1>4. QED  BY <1>1, <1>3 DEF Correct

\* A correction is sent once per claim, and once for the target, answers a rejection by Lean and is
\* given exactly the context of the job it corrects, under the same verifier binding
\* (_direct_auxiliary_candidate, _target_correction_candidate, _build_exact_correction).
THEOREM CorrectionsAreSingle == Spec => []CorrectedOnce
<1>1. Frame /\ Correct /\ [Next]_vars => Correct'
  BY NextStep, CorrectQuiet, CorrectDecided, StutterQuiet
<1>2. Correct => CorrectedOnce
  <2>1. SUFFICES ASSUME Correct PROVE CorrectedOnce  OBVIOUS
  <2>2. \A c \in Claim : Jobs(LAMBDA d : d.claim = c /\ d.why \in Correcting) = Corrections(c)
    BY DEF Jobs, Corrections
  <2>3. \A c \in Claim : Cardinality(Jobs(LAMBDA d : d.claim = c /\ d.why \in Correcting)) <= 1
    BY <2>1, <2>2 DEF Correct
  <2>4. QED  BY <2>1, <2>3 DEF CorrectedOnce, Correct, Mended, Redone
<1>3. QED  BY FrameHolds, CorrectInit, <1>1, <1>2, PTL DEF Spec

-------------------------------------------------------------------------------
(* Giving up *)

Worked(c) == \E n \in DOMAIN history : history[n].claim = c
\* Lean judged a proof of the claim; one it accepted may be unchecked since.
Judged(c) == \E k \in DOMAIN artifacts :
  artifacts[k].claim = c /\ artifacts[k].status \in Bad \cup {"verified", "pending"}

Exhaustive ==
  Syntheses # {} /\ \A c \in Known : opinion[c] \in {"suggested", "promising"} => Worked(c) \/ Judged(c)
Resigned ==
  reason = "no_useful_frontier" =>
    phase = "stopped" /\ (\A n \in DOMAIN history : history[n].status \in Closed) /\ Exhaustive

\* A candidate that has been tried often enough has been tried.
LEMMA ExhaustedFacts ==
  ASSUME Shape, NEW c, NEW bare, Exhausted(c, bare)
  PROVE  \E n \in DOMAIN history : history[n].claim = c.claim /\ history[n].action = c.action
<1>1. Tries(c) >= 1
  <2>1. limits.retries \in 0..1  BY LimitFacts
  <2>2. Tries(c) = 1 \/ Tries(c) = 1 + limits.retries  BY DEF Tries
  <2>3. QED  BY <2>1, <2>2
<1>2. Cardinality(Prior(c, bare)) >= Tries(c)  BY DEF Exhausted
<1>3. limits.retries \in 0..1 /\ (Tries(c) = 1 \/ Tries(c) = 1 + limits.retries)  BY LimitFacts DEF Tries
<1>4. Cardinality(Prior(c, bare)) # 0
  <2>1. Cardinality(Prior(c, bare)) \in Nat  BY PriorFacts
  <2>2. Tries(c) \in Nat  BY <1>3
  <2>3. QED  BY <1>1, <1>2, <2>1, <2>2
<1>5. Prior(c, bare) # {}  BY <1>4, PriorFacts
<1>6. PICK n \in DOMAIN history : Key(history[n]) = <<c.claim, c.action, c.why, c.on, Context(c, bare)>>
  BY <1>5, PriorFacts
<1>7. QED  BY <1>6 DEF Key

\* There is always something to look at: the plan first, then the target and every open suggestion.
LEMMA OfferFacts ==
  ASSUME Shape
  PROVE  /\ history = <<>> => \E x \in Candidates : Planned(x)
         /\ history # <<>> => \E x \in Candidates : Targeted(x)
         /\ history # <<>> =>
              \A c \in Known : opinion[c] \in {"suggested", "promising"} /\ ~ Judged(c) =>
                \E x \in Candidates : x.claim = c
<1>1. ASSUME history = <<>> PROVE \E x \in Candidates : Planned(x)
  <2>1. PICK x \in Initial : TRUE  BY DEF Initial
  <2>2. Planned(x) /\ x \in Proposed  BY <1>1, InitialFacts DEF Proposed
  <2>3. Planners = {}  BY <1>1 DEF Planners
  <2>4. Planning = 0  BY <2>3, PlanningFacts, SumEmpty
  <2>5. limits.planning \in 1..8  BY LimitFacts
  <2>6. x \in Candidates  BY <2>2, <2>4, <2>5 DEF Candidates
  <2>7. QED  BY <2>2, <2>6
<1>2. ASSUME history # <<>> PROVE \E x \in Candidates : Targeted(x)
  <2>1. PICK x \in Target : TRUE  BY DEF Target
  <2>2. Targeted(x) /\ x \in Proposed  BY <1>2, TargetFacts DEF Proposed
  <2>3. x \in Candidates  BY <2>2 DEF Candidates, Targeted, Plannish
  <2>4. QED  BY <2>2, <2>3
<1>3. ASSUME history # <<>>, NEW c \in Known, opinion[c] \in {"suggested", "promising"}, ~ Judged(c)
      PROVE  \E x \in Candidates : x.claim = c
  <2>1. ArtifactsOf(c, Bad) = {} /\ ~ Checked(c)  BY <1>3 DEF ArtifactsOf, Checked, Judged, Bad
  <2>2. Auxiliary(c) = Unresolved(c) \cup Help(c)  BY <1>3, <2>1 DEF Auxiliary
  <2>3. PICK x \in Unresolved(c) : TRUE  BY DEF Unresolved
  <2>4. c \in Aux  BY DEF Known
  <2>5. Usual(x, c) /\ x.action \in {"prove", "investigate"}  BY <2>4, UnresolvedFacts
  <2> DEFINE U == UNION {Auxiliary(a) : a \in Known}
  <2>6. x \in U  BY <2>2
  <2>7. Proposed = U \cup Target \cup TargetCorrection \cup Replan  BY <1>3 DEF Proposed
  <2> HIDE DEF U
  <2>8. x \in Candidates  BY <2>5, <2>6, <2>7 DEF Candidates, Plannish
  <2>9. QED  BY <2>5, <2>8 DEF Usual
<1>4. QED  BY <1>1, <1>2, <1>3

\* A group in which everything was tried.
LEMMA NothingLeft ==
  ASSUME Frame, NEW bare, \A c \in Candidates : Exhausted(c, bare)
  PROVE  Exhaustive
<1>1. history # <<>>
  <2>1. SUFFICES ASSUME history = <<>> PROVE FALSE  OBVIOUS
  <2>2. PICK x \in Candidates : TRUE  BY <2>1, OfferFacts DEF Frame
  <2>3. \E n \in DOMAIN history : TRUE  BY <2>2, ExhaustedFacts DEF Frame
  <2>4. QED  BY <2>1, <2>3
<1>2. Syntheses # {}
  <2>1. PICK x \in Candidates : Targeted(x)  BY <1>1, OfferFacts DEF Frame
  <2>2. PICK n \in DOMAIN history : history[n].action = x.action  BY <2>1, ExhaustedFacts DEF Frame
  <2>3. n \in Syntheses  BY <2>1, <2>2 DEF Targeted, Syntheses
  <2>4. QED  BY <2>3
<1>3. ASSUME NEW c \in Known, opinion[c] \in {"suggested", "promising"}, ~ Judged(c) PROVE Worked(c)
  <2>1. PICK x \in Candidates : x.claim = c  BY <1>1, <1>3, OfferFacts DEF Frame
  <2>2. \E n \in DOMAIN history : history[n].claim = c  BY <2>1, ExhaustedFacts DEF Frame
  <2>3. QED  BY <2>2 DEF Worked
<1>4. QED  BY <1>2, <1>3 DEF Exhaustive

\* Of all steps only giving up gives that reason, and only where every candidate is exhausted.
LEMMA GiveUpReason ==
  ASSUME Frame, NEW lost, NEW bare, GiveUp(Deferrals(lost, bare)), reason' = "no_useful_frontier"
  PROVE  \A c \in Candidates : Exhausted(c, bare)
<1> DEFINE why == Deferrals(lost, bare)
           held == {c \in DOMAIN why : why[c] \in
                      {"completion_job_reserve", "completion_verification_reserve", "completion_work_reserve"}}
<1>1. DOMAIN why = Candidates  BY DEF Deferrals
<1>2. reason' = (CASE \A c \in DOMAIN why : why[c] = "exhausted" -> "no_useful_frontier"
                   [] held # {} -> why[First(held)]
                   [] OTHER -> "capacity_or_model_budget")
  BY DEF GiveUp, Stop
<1>3. \A c \in Candidates : why[c] = "exhausted" => Exhausted(c, bare)
  <2>1. SUFFICES ASSUME NEW c \in Candidates, why[c] = "exhausted" PROVE Exhausted(c, bare)  OBVIOUS
  <2>2. Deferral(c, bare) = "exhausted"  BY <2>1 DEF Deferrals
  <2> HIDE DEF why
  <2>3. QED  BY <2>2 DEF Deferral
<1>4. held # {} => First(held) \in held
  <2>1. held \subseteq Candidates  BY <1>1
  <2> HIDE DEF held
  <2>2. QED  BY <2>1, FirstFacts DEF Frame
<1>5. held # {} => why[First(held)] # "no_useful_frontier"
  <2>1. held # {} => why[First(held)] \in
          {"completion_job_reserve", "completion_verification_reserve", "completion_work_reserve"}
    BY <1>4
  <2>2. QED  BY <2>1
<1>6. \A c \in DOMAIN why : why[c] = "exhausted"
  <2> HIDE DEF why, held
  <2>1. QED  BY <1>2, <1>5
<1>7. QED  BY <1>1, <1>3, <1>6

\* What selecting does to a group: it goes on, or stops for a limit, or gives up.
LEMMA SelectOutcome ==
  ASSUME Frame, Select
  PROVE  \E lost \in SUBSET Candidates, bare \in BOOLEAN :
           LET admitted == {c \in Candidates : Deferrals(lost, bare)[c] = ""} IN
           /\ <<lost, bare>> = <<{}, FALSE>> \/ hiccups' = hiccups + 1
           /\ \/ admitted = {} /\ GiveUp(Deferrals(lost, bare))
              \/ First(admitted) \in admitted /\ Dispatch(First(admitted), bare)
<1>1. PICK trouble \in Hiccups :
        /\ hiccups' = IF trouble = <<{}, FALSE>> THEN hiccups ELSE hiccups + 1
        /\ \E why \in {Deferrals(trouble[1], trouble[2])} :
             LET admitted == {c \in DOMAIN why : why[c] = ""} IN
             IF admitted = {} THEN GiveUp(why) /\ UNCHANGED work
             ELSE Dispatch(First(admitted), trouble[2])
  BY DEF Select
<1> DEFINE why == Deferrals(trouble[1], trouble[2])
           admitted == {c \in Candidates : why[c] = ""}
<1>2. DOMAIN why = Candidates  BY DEF Deferrals
<1>3. IF admitted = {} THEN GiveUp(why) ELSE Dispatch(First(admitted), trouble[2])
  BY <1>1, <1>2
<1>4. trouble[1] \in SUBSET Candidates /\ trouble[2] \in BOOLEAN /\ trouble = <<trouble[1], trouble[2]>>
  <2>1. trouble = <<{}, FALSE>> \/ trouble \in (SUBSET Candidates) \X BOOLEAN  BY DEF Hiccups
  <2>2. CASE trouble = <<{}, FALSE>>  BY <2>2
  <2>3. CASE trouble \in (SUBSET Candidates) \X BOOLEAN  BY <2>3
  <2>4. QED  BY <2>1, <2>2, <2>3
<1>5. admitted # {} => First(admitted) \in admitted
  <2>1. admitted \subseteq Candidates  OBVIOUS
  <2> HIDE DEF admitted
  <2>2. QED  BY <2>1, FirstFacts DEF Frame
<1>6. trouble = <<{}, FALSE>> \/ hiccups' = hiccups + 1  BY <1>1
<1> HIDE DEF why
<1>7. QED  BY <1>3, <1>4, <1>5, <1>6 DEF why

LEMMA ResignedSelect ==
  ASSUME Frame, Resigned, Select
  PROVE  Resigned'
<1>1. phase = "frontier" /\ ~ Busy /\ UNCHANGED <<opinion, artifacts>>  BY DEF Select, Running, graphVars
<1>2. SUFFICES ASSUME reason' = "no_useful_frontier"
               PROVE  /\ phase' = "stopped" /\ (\A n \in DOMAIN history' : history'[n].status \in Closed)
                      /\ Exhaustive'
  BY DEF Resigned
<1>3. reason # "no_useful_frontier"  BY <1>1 DEF Resigned
<1>4. PICK lost \in SUBSET Candidates, bare \in BOOLEAN :
        \/ GiveUp(Deferrals(lost, bare))
        \/ \E c : Dispatch(c, bare)
  BY SelectOutcome
<1>5. CASE \E c : Dispatch(c, bare)
  <2>1. PICK c : Dispatch(c, bare)  BY <1>5
  <2>2. \/ Stop("task_limit", Settled) \/ Stop("task_depth", Settled) \/ reason' = reason
    BY <2>1 DEF Dispatch
  <2>3. reason' = "task_limit" \/ reason' = "task_depth" \/ reason' = reason  BY <2>2 DEF Stop
  <2>4. QED  BY <1>2, <1>3, <2>3
<1>6. CASE GiveUp(Deferrals(lost, bare))
  <2>1. Exhaustive  BY <1>2, <1>6, GiveUpReason, NothingLeft
  <2>2. PICK r : Stop(r, Settled)  BY <1>6 DEF GiveUp
  <2>3. Keeps(Settled) /\ \A n \in DOMAIN history : Settled[n].status = history[n].status
    BY KeepsSettled DEF Frame
  <2>4. Keeps(history') /\ phase' = "stopped"
        /\ \A n \in DOMAIN history : Settled[n].status \in Closed => history'[n].status \in Closed
    <3> HIDE DEF Settled
    <3>1. QED  BY <2>2, <2>3, KeepsStop DEF Frame
  <2>5. DOMAIN history' = DOMAIN history
    <3>1. history' \in Seq(Row) /\ Len(history') = Len(history)  BY <2>4 DEF Keeps
    <3>2. QED  BY <3>1, JobsFinite DEF Frame
  <2>6. \A n \in DOMAIN history : history[n].status \in Closed  BY <1>1, IdleFacts
  <2>7. \A n \in DOMAIN history : history'[n].claim = history[n].claim /\ history'[n].action = history[n].action
    BY <2>4 DEF Keeps, KeepRow
  <2>8. Syntheses' = Syntheses /\ Known' = Known  BY <1>1, <2>5, <2>7 DEF Syntheses, Known
  <2>9. \A c \in Known : (Worked(c) => Worked(c)') /\ (Judged(c) => Judged(c)')
    BY <1>1, <2>5, <2>7 DEF Worked, Judged
  <2>10. Exhaustive'  BY <1>1, <2>1, <2>8, <2>9 DEF Exhaustive
  <2>11. QED  BY <2>3, <2>4, <2>5, <2>6, <2>10
<1>7. QED  BY <1>4, <1>5, <1>6

\* A group that stopped with nothing under way is left as it is, but for a rebinding.
LEMMA StoppedStays ==
  ASSUME Frame, phase = "stopped", \A n \in DOMAIN history : history[n].status \in Closed, Next
  PROVE  UNCHANGED <<phase, reason, history, opinion>> /\ (artifacts' = artifacts \/ Rebind)
<1>1. \A n \in DOMAIN history : history[n].status \notin {"queued", "assigned", "verifying"}
  BY DEF Closed
<1>2. ~ Advance  BY DEF Advance, Abort, Wait, Spent, Select, Running
<1>3. ~ Queue  BY <1>1 DEF Queue, Lease, Fail, Proof, Answer
<1>4. ~ Checks  BY <1>1 DEF Checks, Judge, Oldest, Verdict, Unchecked, ArtifactStops
<1>5. CASE CheckAbandoned  BY <1>5 DEF CheckAbandoned, graphVars
<1>6. CASE Unbind  BY <1>6 DEF Unbind
<1>7. CASE Bind  BY <1>7 DEF Bind
<1>8. ~ DeadlinePasses  BY DEF DeadlinePasses
<1>9. QED  BY <1>2, <1>3, <1>4, <1>5, <1>6, <1>7, <1>8 DEF Next

\* Every other step keeps the reason or gives another one.
LEMMA OtherReasons ==
  ASSUME Next, ~ Select
  PROVE  reason' = reason \/ reason' # "no_useful_frontier"
<1>1. CASE Advance  BY <1>1 DEF Advance, Abort, Wait, Spent, Stop
<1>2. CASE Queue  BY <1>2 DEF Queue, Lease, Fail, Proof, Answer
<1>3. CASE Checks
  <2>1. \A k \in DOMAIN artifacts : \A v : Judge(k, v) => reason' = reason  BY DEF Judge
  <2>2. \A n \in DOMAIN history : \A v : Verdict(n, v) => reason' = "verified_target" \/ reason' = reason
    BY DEF Verdict
  <2>3. \A n \in DOMAIN history : Unchecked(n) => reason' # "no_useful_frontier"  BY DEF Unchecked, Stop
  <2>4. \A k \in DOMAIN artifacts : ArtifactStops(k) => reason' # "no_useful_frontier"
    BY DEF ArtifactStops, Stop
  <2>5. QED  BY <1>3, <2>1, <2>2, <2>3, <2>4 DEF Checks
<1>4. CASE CheckAbandoned  BY <1>4 DEF CheckAbandoned
<1>5. CASE Unbind \/ Bind \/ DeadlinePasses  BY <1>5 DEF Unbind, Bind, DeadlinePasses
<1>6. QED  BY <1>1, <1>2, <1>3, <1>4, <1>5 DEF Next

LEMMA ResignedNext == ASSUME Frame, Resigned, Next PROVE Resigned'
<1>1. CASE Select  BY <1>1, ResignedSelect
<1>2. CASE ~ Select /\ reason = "no_useful_frontier"
  <2>1. UNCHANGED <<phase, reason, history, opinion>> /\ (artifacts' = artifacts \/ Rebind)
    BY <1>2, StoppedStays DEF Resigned
  <2>2. \A c : Judged(c) => Judged(c)'
    <3>1. CASE artifacts' = artifacts  BY <3>1 DEF Judged
    <3>2. CASE Rebind
      <4>1. /\ DOMAIN artifacts' = DOMAIN artifacts
            /\ \A k \in DOMAIN artifacts :
                 artifacts'[k] = IF artifacts[k].status = "verified"
                                 THEN [artifacts[k] EXCEPT !.status = "pending"] ELSE artifacts[k]
        BY <3>2 DEF Rebind, Recheck
      <4>2. \A k \in DOMAIN artifacts : artifacts[k] \in Art  BY JobsFinite DEF Frame
      <4>3. SUFFICES ASSUME NEW c, Judged(c) PROVE Judged(c)'  OBVIOUS
      <4>4. PICK k \in DOMAIN artifacts :
              artifacts[k].claim = c /\ artifacts[k].status \in Bad \cup {"verified", "pending"}
        BY <4>3 DEF Judged
      <4>5. artifacts'[k].claim = c /\ artifacts'[k].status \in Bad \cup {"verified", "pending"}
        BY <4>1, <4>2, <4>4 DEF Art
      <4>6. QED  BY <4>1, <4>5 DEF Judged
    <3>3. QED  BY <2>1, <3>1, <3>2
  <2>3. QED  BY <1>2, <2>1, <2>2 DEF Resigned, Exhaustive, Syntheses, Known, Worked
<1>3. CASE ~ Select /\ reason # "no_useful_frontier"
  <2>1. reason' # "no_useful_frontier"  BY <1>3, OtherReasons
  <2>2. QED  BY <2>1 DEF Resigned
<1>4. QED  BY <1>1, <1>2, <1>3

LEMMA ResignedStutter == ASSUME Resigned, UNCHANGED vars PROVE Resigned'
<1>1. UNCHANGED <<phase, reason, history, artifacts, opinion>>  BY DEF vars, graphVars
<1>2. QED  BY <1>1 DEF Resigned, Exhaustive, Syntheses, Known, Worked, Judged

\* A group that finds nothing useful any more has tried the target, and has worked on every suggestion
\* that no reviewer objected to and Lean did not judge (advance_frontier, _frontier_candidates).
THEOREM GivingUpIsTruthful == Spec => []GivesUpTruthfully
<1>1. Init => Resigned  BY DEF Init, Resigned
<1>2. Frame /\ Resigned /\ [Next]_vars => Resigned'  BY ResignedNext, ResignedStutter
<1>3. Resigned => GivesUpTruthfully
  <2>1. SUFFICES ASSUME Resigned, reason = "no_useful_frontier"
                 PROVE  /\ Jobs(LAMBDA d : d.action = "synthesize") # {}
                        /\ \A c \in Known : opinion[c] \in {"suggested", "promising"} =>
                             Jobs(LAMBDA d : d.claim = c) # {} \/ ArtifactsOf(c, Bad \cup {"verified", "pending"}) # {}
    BY DEF GivesUpTruthfully
  <2>2. Exhaustive  BY <2>1 DEF Resigned
  <2>3. Jobs(LAMBDA d : d.action = "synthesize") = Syntheses  BY DEF Jobs, Syntheses
  <2>4. Jobs(LAMBDA d : d.action = "synthesize") # {}  BY <2>2, <2>3 DEF Exhaustive
  <2>5. \A c \in Known : opinion[c] \in {"suggested", "promising"} => Worked(c) \/ Judged(c)
    BY <2>2 DEF Exhaustive
  <2>6. SUFFICES ASSUME NEW c \in Known, opinion[c] \in {"suggested", "promising"}
                 PROVE  Jobs(LAMBDA d : d.claim = c) # {} \/ ArtifactsOf(c, Bad \cup {"verified", "pending"}) # {}
    BY <2>4
  <2>7. CASE Worked(c)  BY <2>7 DEF Worked, Jobs
  <2>8. CASE Judged(c)  BY <2>8 DEF Judged, ArtifactsOf
  <2>9. QED  BY <2>5, <2>6, <2>7, <2>8
<1>4. QED  BY FrameHolds, <1>1, <1>2, <1>3, PTL DEF Spec
-------------------------------------------------------------------------------
(* The target is tried *)

\* A retry stands below the try before it, and only a repair or a correction below another strategy:
\* a repair of the one finding there was, a correction of the job whose artifact was rejected.
Mendings == {"auxiliary-repair", "auxiliary-correction", "target-correction"}
Descent ==
  \A n \in DOMAIN history :
    LET d == history[n] IN
    /\ d.why \notin Mendings => d.depth <= d.retry
    /\ d.why = "auxiliary-correction" => limits.direct = 1
    /\ d.why = "target-correction" => d.action = "synthesize"
    /\ d.why = "auxiliary-repair" =>
         /\ limits.direct # 1 /\ d.action = "investigate"
         /\ \E m \in DOMAIN history \ {n} : history[m].claim = d.claim /\ history[m].action = "investigate"

\* Only a check of a proof of the target errs or counts as one of the target.
Trace == Syntheses = {} => ~ erred /\ targetOps = 0

\* Without a mishap the verifier stays bound as it is.
Steady == hiccups = 0 => fresh /\ \A n \in DOMAIN history : history[n].revision = revision

Reserved == limits.reserve = 1 /\ TailFitted /\ RoomForPlan
Trying == Reserved /\ hiccups = 0 /\ phase = "stopped" /\ reason # "deadline" => Syntheses # {}
LEMMA AtMostOne ==
  ASSUME NEW S, IsFiniteSet(S), Cardinality(S) <= 1, NEW a \in S, NEW b \in S
  PROVE  a = b
<1>1. SUFFICES ASSUME a # b PROVE FALSE  OBVIOUS
<1>2. IsFiniteSet({a}) /\ Cardinality({a}) = 1  BY FS_Singleton
<1>3. Cardinality({a} \cup {b}) = 2  BY <1>1, <1>2, FS_AddElement
<1>4. {a} \cup {b} \subseteq S  OBVIOUS
<1>5. Cardinality({a} \cup {b}) <= Cardinality(S) /\ Cardinality(S) \in Nat
  BY <1>4, FS_Subset, FS_CardinalityType
<1>6. QED  BY <1>3, <1>5

LEMMA RetryFacts ==
  ASSUME Frame, Numbered, NEW n \in DOMAIN history
  PROVE  history[n].retry \in 0..1 /\ history[n].depth \in Nat
<1>1. history[n] \in Row  BY JobsFinite DEF Frame
<1>2. history[n].retry \in Nat /\ history[n].depth \in Nat
  <2>1. \A i \in 0..MaxDepth : i \in Nat  BY FrontierAssumption
  <2>2. QED  BY <1>1, <2>1 DEF Row
<1> DEFINE size == Cardinality(Alike(Key(history[n])))
<1>3. size <= Allowed(history[n].action) /\ history[n].retry < size  BY DEF Numbered
<1>4. size \in Nat
  <2>1. Alike(Key(history[n])) \subseteq DOMAIN history  BY DEF Alike
  <2>2. QED  BY <2>1, JobsFinite, FS_CardinalityType DEF Frame
<1>5. limits.retries \in 0..1  BY LimitFacts DEF Frame
<1>6. Allowed(history[n].action) = 1 \/ Allowed(history[n].action) = 1 + limits.retries  BY DEF Allowed
<1> HIDE DEF size
<1>7. QED  BY <1>2, <1>3, <1>4, <1>5, <1>6

\* The latest try of a strategy that stands below nothing is no deeper than its number.
LEMMA RetryDepth ==
  ASSUME Frame, Numbered, Descent, NEW c \in Candidates, NEW bare \in BOOLEAN,
         c.why \notin Mendings, Prior(c, bare) # {}
  PROVE  /\ Parent(c, bare) \in DOMAIN history
         /\ history[Parent(c, bare)].depth < Cardinality(Prior(c, bare))
         /\ history[Parent(c, bare)].depth \in 0..1
<1> DEFINE p == Parent(c, bare)
<1>1. p = Max(Prior(c, bare))  BY DEF Parent
<1>2. p \in Prior(c, bare) /\ p \in DOMAIN history  BY <1>1, PriorFacts DEF Frame
<1>3. Key(history[p]) = <<c.claim, c.action, c.why, c.on, Context(c, bare)>>
      /\ Prior(c, bare) = Alike(Key(history[p]))
  BY <1>2, PriorFacts DEF Frame, Alike
<1>4. history[p].why = c.why  BY <1>3 DEF Key
<1> HIDE DEF p
<1>5. history[p].depth <= history[p].retry  BY <1>2, <1>4 DEF Descent
<1>6. history[p].retry < Cardinality(Prior(c, bare))  BY <1>2, <1>3 DEF Numbered
<1>7. history[p].retry \in 0..1 /\ history[p].depth \in Nat /\ Cardinality(Prior(c, bare)) \in Nat
  BY <1>2, RetryFacts, PriorFacts DEF Frame
<1>8. QED  BY <1>2, <1>5, <1>6, <1>7 DEF p

\* A repair follows the one finding there is.
LEMMA RepairDepth ==
  ASSUME Frame, Numbered, Descent, NEW c \in Candidates, NEW bare \in BOOLEAN, Repairing(c, c.claim)
  PROVE  /\ Parent(c, bare) \in DOMAIN history /\ history[Parent(c, bare)].depth \in 0..1
         /\ history[Parent(c, bare)].claim = c.claim
         /\ history[Parent(c, bare)].action = "investigate"
<1> DEFINE S == Findings(c.claim)  p == Parent(c, bare)
<1>1. S = {n \in DOMAIN history : history[n].claim = c.claim /\ history[n].action = "investigate"}
  BY DEF Findings, Jobs
<1>2. S # {} /\ Cardinality(S) <= limits.retries /\ limits.direct # 1 /\ c.above = Max(S)
      /\ c.action = "investigate"
  BY DEF Repairing
<1>3. S \subseteq DOMAIN history /\ IsFiniteSet(S) /\ Cardinality(S) \in Nat
  BY <1>1, JobsFinite, FS_CardinalityType DEF Frame
<1>4. Cardinality(S) <= 1
  <2>1. limits.retries \in 0..1  BY LimitFacts DEF Frame
  <2>2. QED  BY <1>2, <1>3, <2>1
<1> HIDE DEF S
<1>5. Max(S) \in S  BY <1>2, <1>3, LatestFacts DEF Frame
<1>6. p \in S
  <2>1. CASE Prior(c, bare) = {}  BY <1>2, <1>5, <2>1 DEF Parent
  <2>2. CASE Prior(c, bare) # {}
    <3>1. p = Max(Prior(c, bare))  BY <2>2 DEF Parent
    <3>2. p \in DOMAIN history /\ Key(history[p]) = <<c.claim, c.action, c.why, c.on, Context(c, bare)>>
      BY <2>2, <3>1, PriorFacts DEF Frame
    <3>3. history[p].claim = c.claim /\ history[p].action = c.action  BY <3>2 DEF Key
    <3>4. QED  BY <1>1, <1>2, <3>2, <3>3
  <2>3. QED  BY <2>1, <2>2
<1> HIDE DEF p
<1>7. p \in DOMAIN history /\ history[p].claim = c.claim /\ history[p].action = "investigate"
  BY <1>1, <1>6
<1>8. history[p].why # "auxiliary-repair"
  <2>1. SUFFICES ASSUME history[p].why = "auxiliary-repair" PROVE FALSE  OBVIOUS
  <2>2. PICK m \in DOMAIN history \ {p} : /\ history[m].claim = history[p].claim
                                          /\ history[m].action = "investigate"
    BY <1>7, <2>1 DEF Descent
  <2>3. m \in S  BY <1>1, <1>7, <2>2
  <2>4. m = p  BY <1>3, <1>4, <1>6, <2>3, AtMostOne
  <2>5. QED  BY <2>2, <2>4
<1>9. history[p].why # "auxiliary-correction"  BY <1>2, <1>7 DEF Descent
<1>10. history[p].why # "target-correction"  BY <1>7 DEF Descent
<1>11. history[p].depth <= history[p].retry  BY <1>7, <1>8, <1>9, <1>10 DEF Descent, Mendings
<1>12. history[p].retry \in 0..1 /\ history[p].depth \in Nat  BY <1>7, RetryFacts
<1>13. QED  BY <1>7, <1>11, <1>12 DEF p

\* A correction follows the job whose artifact Lean rejected, and nothing corrected its claim before.
LEMMA MendingDepth ==
  ASSUME Frame, Numbered, Descent, NEW c \in Candidates, NEW bare \in BOOLEAN, Mending(c, c.claim),
         c.claim \in Aux, history[c.above].claim = c.claim
  PROVE  Parent(c, bare) \in DOMAIN history /\ history[Parent(c, bare)].depth \in 0..1
<1> DEFINE p == c.above
<1>1. c.why = "auxiliary-correction" /\ limits.direct = 1 /\ ~ Corrected(c.claim)  BY DEF Mending
<1>2. p \in DOMAIN history /\ history[p].claim = c.claim
  BY <1>1, AboveFacts DEF Correcting
<1>3. \A n \in DOMAIN history : ~ (history[n].claim = c.claim /\ history[n].why = "auxiliary-correction")
  BY <1>1 DEF Corrected, Jobs
<1>4. Prior(c, bare) = {}
  <2>1. \A n \in Prior(c, bare) : n \in DOMAIN history /\ history[n].claim = c.claim /\ history[n].why = c.why
    BY PriorFacts DEF Frame, Key
  <2>2. QED  BY <1>1, <1>3, <2>1
<1>5. Parent(c, bare) = p  BY <1>4 DEF Parent
<1> HIDE DEF p
<1>6. history[p].action # "synthesize"
  <2>1. history[p].claim # Root  BY <1>2, ClaimFacts
  <2>2. QED  BY <1>2, <2>1 DEF Frame, Rowed
<1>7. history[p].why \notin Mendings  BY <1>1, <1>2, <1>3, <1>6 DEF Descent, Mendings
<1>8. history[p].depth <= history[p].retry  BY <1>2, <1>7 DEF Descent
<1>9. history[p].retry \in 0..1 /\ history[p].depth \in Nat  BY <1>2, RetryFacts
<1>10. QED  BY <1>2, <1>5, <1>8, <1>9

\* Until the target is tried, nothing that may be dispatched is deeper than two.
LEMMA ParentDepth ==
  ASSUME Frame, Numbered, Descent, Syntheses = {}, NEW c \in Candidates, NEW bare \in BOOLEAN,
         Deferral(c, bare) = ""
  PROVE  Parent(c, bare) = 0 \/ history[Parent(c, bare)].depth \in 0..1
<1>1. \A n \in Prior(c, bare) : n \in DOMAIN history /\ history[n].action = c.action
  BY PriorFacts DEF Frame, Key
<1>2. CASE Repairing(c, c.claim)  BY <1>2, RepairDepth
<1>3. CASE c.claim \in Aux /\ Mending(c, c.claim)
  <2>1. c.why = "auxiliary-correction"  BY <1>3 DEF Mending
  <2>2. history[c.above].claim = c.claim  BY <2>1, DeferralFacts DEF Correcting, Correctable
  <2>3. QED  BY <1>3, <2>2, MendingDepth
<1>4. CASE c.above = 0 /\ c.why \notin Mendings
  <2>1. CASE Prior(c, bare) = {}  BY <1>4, <2>1 DEF Parent
  <2>2. CASE Prior(c, bare) # {}  BY <1>4, <2>2, RetryDepth
  <2>3. QED  BY <2>1, <2>2
<1>5. CASE Retargeted(c)
  <2>1. c.about \in DOMAIN history /\ history[c.about].verdict = "rejected"  BY <1>5 DEF Retargeted
  <2>2. history[c.about].action = "synthesize"  BY <2>1 DEF Frame, Rowed
  <2>3. QED  BY <2>1, <2>2 DEF Syntheses
<1>6. QED
  BY <1>2, <1>3, <1>4, <1>5, CandidatesFacts DEF Frame, Planned, Targeted, Usual, Mendings

LEMMA DescentQuiet == ASSUME Frame, Descent, Quiet PROVE Descent'
<1>1. SUFFICES ASSUME NEW n \in DOMAIN history'
               PROVE  LET d == history'[n] IN
                      /\ d.why \notin Mendings => d.depth <= d.retry
                      /\ d.why = "auxiliary-correction" => limits'.direct = 1
                      /\ d.why = "target-correction" => d.action = "synthesize"
                      /\ d.why = "auxiliary-repair" =>
                           /\ limits'.direct # 1 /\ d.action = "investigate"
                           /\ \E m \in DOMAIN history' \ {n} :
                                history'[m].claim = d.claim /\ history'[m].action = "investigate"
  BY DEF Descent
<1>2. /\ DOMAIN history' = DOMAIN history /\ limits' = limits
      /\ \A i \in DOMAIN history : /\ history'[i].claim = history[i].claim
                                   /\ history'[i].action = history[i].action
                                   /\ history'[i].why = history[i].why
                                   /\ history'[i].depth = history[i].depth
                                   /\ history'[i].retry = history[i].retry
  BY QuietRows DEF KeepRow
<1>3. QED  BY <1>1, <1>2 DEF Descent

LEMMA DescentDecided ==
  ASSUME Frame, Numbered, Descent, NEW c \in Candidates, NEW bare \in BOOLEAN, NEW k \in Affordable(c),
         Decided(c, bare, k)
  PROVE  Descent'
<1> DEFINE m == Len(history) + 1  e == Decision(c, bare, k)
<1>1. /\ DOMAIN history' = DOMAIN history \cup {m} /\ m \notin DOMAIN history /\ history'[m] = e
      /\ \A i \in DOMAIN history : /\ history'[i].claim = history[i].claim
                                   /\ history'[i].action = history[i].action
                                   /\ history'[i].why = history[i].why
                                   /\ history'[i].depth = history[i].depth
                                   /\ history'[i].retry = history[i].retry
  BY HistoryAfter DEF KeepRow
<1>2. limits' = limits  BY DEF Decided
<1>3. /\ e.claim = c.claim /\ e.action = c.action /\ e.why = c.why
      /\ e.retry = Cardinality(Prior(c, bare))
      /\ e.depth = IF Parent(c, bare) = 0 THEN 0 ELSE history[Parent(c, bare)].depth + 1
  BY DEF Decision
<1> HIDE DEF m, e
<1>4. e.why \notin Mendings => e.depth <= e.retry
  <2>1. SUFFICES ASSUME c.why \notin Mendings PROVE e.depth <= e.retry  BY <1>3
  <2>2. Cardinality(Prior(c, bare)) \in Nat  BY PriorFacts DEF Frame
  <2>3. CASE Prior(c, bare) = {}
    <3>1. c.above = 0
      BY <2>1, CandidatesFacts DEF Frame, Planned, Targeted, Retargeted, Usual, Repairing, Mending, Mendings
    <3>2. Parent(c, bare) = 0  BY <2>3, <3>1 DEF Parent
    <3>3. QED  BY <1>3, <2>2, <3>2
  <2>4. CASE Prior(c, bare) # {}
    <3>1. /\ history[Parent(c, bare)].depth < Cardinality(Prior(c, bare))
          /\ history[Parent(c, bare)].depth \in 0..1
      BY <2>1, <2>4, RetryDepth
    <3>2. QED  BY <1>3, <2>2, <3>1
  <2>5. QED  BY <2>3, <2>4
<1>5. e.why = "auxiliary-correction" => limits.direct = 1
  BY <1>3, CandidatesFacts DEF Frame, Planned, Targeted, Retargeted, Usual, Repairing, Mending
<1>6. e.why = "target-correction" => e.action = "synthesize"
  BY <1>3, CandidatesFacts DEF Frame, Planned, Targeted, Retargeted, Usual, Repairing, Mending
<1>7. ASSUME e.why = "auxiliary-repair"
      PROVE  /\ limits.direct # 1 /\ e.action = "investigate"
             /\ \E i \in DOMAIN history : history[i].claim = e.claim /\ history[i].action = "investigate"
  <2>1. Repairing(c, c.claim)
    BY <1>3, <1>7, CandidatesFacts DEF Frame, Planned, Targeted, Retargeted, Usual, Mending
  <2>2. limits.direct # 1 /\ c.action = "investigate"  BY <2>1 DEF Repairing
  <2>3. QED  BY <1>3, <2>1, <2>2, RepairDepth
<1>8. SUFFICES ASSUME NEW n \in DOMAIN history'
               PROVE  LET d == history'[n] IN
                      /\ d.why \notin Mendings => d.depth <= d.retry
                      /\ d.why = "auxiliary-correction" => limits'.direct = 1
                      /\ d.why = "target-correction" => d.action = "synthesize"
                      /\ d.why = "auxiliary-repair" =>
                           /\ limits'.direct # 1 /\ d.action = "investigate"
                           /\ \E i \in DOMAIN history' \ {n} :
                                history'[i].claim = d.claim /\ history'[i].action = "investigate"
  BY DEF Descent
<1>9. CASE n = m
  <2>1. \A i \in DOMAIN history : i \in DOMAIN history' \ {m}  BY <1>1
  <2>2. QED  BY <1>1, <1>2, <1>4, <1>5, <1>6, <1>7, <1>9, <2>1
<1>10. CASE n \in DOMAIN history
  <2>1. \A i \in DOMAIN history \ {n} : i \in DOMAIN history' \ {n}  BY <1>1
  <2>2. QED  BY <1>1, <1>2, <1>10, <2>1 DEF Descent
<1>11. QED  BY <1>1, <1>9, <1>10

\* Before a synthesis there is no proof to check.
LEMMA NothingVerifying ==
  ASSUME Frame, Syntheses = {}
  PROVE  \A n \in DOMAIN history : /\ history[n].status # "verifying"
                                   /\ \A v : ~ Verdict(n, v)
                                   /\ ~ Unchecked(n)
<1>1. \A n \in DOMAIN history : history[n].status # "verifying"  BY DEF Frame, Rowed, Syntheses
<1>2. QED  BY <1>1 DEF Verdict, Unchecked

LEMMA ErredStays == ASSUME Frame, Syntheses = {}, [Next]_vars PROVE erred' = erred
<1>1. CASE Advance  BY <1>1 DEF Advance, Abort, Wait, Spent, Select
<1>2. CASE Queue  BY <1>2 DEF Queue, Lease, Fail, Proof, Answer
<1>3. CASE Checks
  <2>1. \A k \in DOMAIN artifacts : \A v : Judge(k, v) => erred' = erred  BY DEF Judge
  <2>2. \A k \in DOMAIN artifacts : ArtifactStops(k) => erred' = erred  BY DEF ArtifactStops
  <2>3. QED  BY <1>3, <2>1, <2>2, NothingVerifying DEF Checks
<1>4. CASE CheckAbandoned  BY <1>4 DEF CheckAbandoned
<1>5. CASE Unbind \/ Bind \/ DeadlinePasses  BY <1>5 DEF Unbind, Bind, DeadlinePasses
<1>6. CASE UNCHANGED vars  BY <1>6 DEF vars
<1>7. QED  BY <1>1, <1>2, <1>3, <1>4, <1>5, <1>6 DEF Next

LEMMA SynthesesStay == ASSUME Frame, [Next]_vars, Syntheses' = {} PROVE Syntheses = {} /\ targetOps' = targetOps
<1>1. CASE Quiet
  <2>1. Syntheses = {}  BY <1>1, QuietSyntheses
  <2>2. QED  BY <1>1, <2>1 DEF Quiet, Charged
<1>2. CASE \E c \in Candidates, bare \in BOOLEAN : \E k \in Affordable(c) : Decided(c, bare, k)
  <2>1. PICK c \in Candidates, bare \in BOOLEAN : \E k \in Affordable(c) : Decided(c, bare, k)  BY <1>2
  <2>2. PICK k \in Affordable(c) : Decided(c, bare, k)  BY <2>1
  <2>3. targetOps' = targetOps  BY <2>2 DEF Decided
  <2>4. c.action # "synthesize"  BY <2>2, DecidedSyntheses
  <2>5. QED  BY <2>2, <2>3, <2>4, DecidedSyntheses
<1>3. QED  BY <1>1, <1>2, NextStep, StutterQuiet

LEMMA TraceNext == ASSUME Frame, Trace, [Next]_vars PROVE Trace'
<1>1. SUFFICES ASSUME Syntheses' = {} PROVE ~ erred' /\ targetOps' = 0  BY DEF Trace
<1>2. Syntheses = {} /\ targetOps' = targetOps  BY <1>1, SynthesesStay
<1>3. erred' = erred  BY <1>2, ErredStays
<1>4. QED  BY <1>2, <1>3 DEF Trace

\* Every step but those of the binding leaves it alone.
LEMMA BindingKept ==
  ASSUME Next, ~ Unbind, ~ Bind
  PROVE  fresh' = fresh /\ revision' = revision
<1>1. CASE Advance  BY <1>1 DEF Advance, Abort, Wait, Spent, Select, binding
<1>2. CASE Queue  BY <1>2 DEF Queue, Lease, Fail, Proof, Answer, binding
<1>3. CASE Checks
  <2>1. \A k \in DOMAIN artifacts : \A v : Judge(k, v) => binding' = binding  BY DEF Judge
  <2>2. \A n \in DOMAIN history : \A v : Verdict(n, v) => binding' = binding  BY DEF Verdict
  <2>3. \A n \in DOMAIN history : Unchecked(n) => binding' = binding  BY DEF Unchecked
  <2>4. \A k \in DOMAIN artifacts : ArtifactStops(k) => binding' = binding  BY DEF ArtifactStops
  <2>5. binding' = binding  BY <1>3, <2>1, <2>2, <2>3, <2>4 DEF Checks
  <2>6. QED  BY <2>5 DEF binding
<1>4. CASE CheckAbandoned  BY <1>4 DEF CheckAbandoned, binding
<1>5. CASE DeadlinePasses  BY <1>5 DEF DeadlinePasses, binding
<1>6. QED  BY <1>1, <1>2, <1>3, <1>4, <1>5 DEF Next

LEMMA HiccupsGrow == ASSUME Frame, [Next]_vars, hiccups' = 0 PROVE hiccups = 0
<1>1. hiccups \in Nat  BY FrontierAssumption DEF Frame, Shape
<1>2. CASE Select
  <2>1. hiccups' = hiccups \/ hiccups' = hiccups + 1  BY <1>2 DEF Select
  <2>2. QED  BY <1>1, <2>1
<1>3. CASE Abort \/ Wait \/ Spent  BY <1>3 DEF Abort, Wait, Spent
<1>4. CASE Queue  BY <1>4 DEF Queue, Lease, Fail, Proof, Answer
<1>5. CASE Checks
  <2>1. \A k \in DOMAIN artifacts : \A v : Judge(k, v) => hiccups' = hiccups  BY DEF Judge
  <2>2. \A n \in DOMAIN history : \A v : Verdict(n, v) => hiccups' = hiccups  BY DEF Verdict
  <2>3. \A n \in DOMAIN history : Unchecked(n) => hiccups' = hiccups  BY DEF Unchecked
  <2>4. \A k \in DOMAIN artifacts : ArtifactStops(k) => hiccups' = hiccups  BY DEF ArtifactStops
  <2>5. QED  BY <1>5, <2>1, <2>2, <2>3, <2>4 DEF Checks
<1>6. CASE CheckAbandoned \/ Unbind
  <2>1. hiccups' = hiccups + 1  BY <1>6 DEF CheckAbandoned, Unbind
  <2>2. QED  BY <1>1, <2>1
<1>7. CASE Bind \/ DeadlinePasses  BY <1>7 DEF Bind, DeadlinePasses
<1>8. CASE UNCHANGED vars  BY <1>8 DEF vars
<1>9. QED  BY <1>2, <1>3, <1>4, <1>5, <1>6, <1>7, <1>8 DEF Next, Advance

LEMMA SteadyNext == ASSUME Frame, Steady, [Next]_vars PROVE Steady'
<1>1. SUFFICES ASSUME hiccups' = 0
               PROVE  fresh' /\ \A n \in DOMAIN history' : history'[n].revision = revision'
  BY DEF Steady
<1>2. hiccups = 0 /\ fresh = TRUE /\ \A n \in DOMAIN history : history[n].revision = revision
  <2>1. hiccups = 0  BY <1>1, HiccupsGrow
  <2>2. fresh \in BOOLEAN  BY DEF Frame, Shape
  <2>3. QED  BY <2>1, <2>2 DEF Steady
<1>3. fresh' = fresh /\ revision' = revision
  <2>1. ~ Unbind  BY <1>1, <1>2 DEF Unbind
  <2>2. ~ Bind  BY <1>2 DEF Bind
  <2>3. CASE UNCHANGED vars  BY <2>3 DEF vars, binding
  <2>4. QED  BY <2>1, <2>2, <2>3, BindingKept
<1>4. \A n \in DOMAIN history' : history'[n].revision = revision
  <2>1. CASE Quiet  BY <1>2, <2>1, QuietRows DEF KeepRow
  <2>2. CASE \E c \in Candidates, bare \in BOOLEAN : \E k \in Affordable(c) : Decided(c, bare, k)
    <3>1. PICK c \in Candidates, bare \in BOOLEAN : \E k \in Affordable(c) : Decided(c, bare, k)  BY <2>2
    <3>2. PICK k \in Affordable(c) : Decided(c, bare, k)  BY <3>1
    <3>3. /\ DOMAIN history' = DOMAIN history \cup {Len(history) + 1}
          /\ history'[Len(history) + 1] = Decision(c, bare, k)
          /\ \A n \in DOMAIN history : history'[n].revision = history[n].revision
      BY <3>2, HistoryAfter DEF KeepRow
    <3>4. Decision(c, bare, k).revision = revision  BY DEF Decision
    <3>5. QED  BY <1>2, <3>3, <3>4
  <2>3. QED  BY <2>1, <2>2, NextStep, StutterQuiet
<1>5. QED  BY <1>2, <1>3, <1>4

\* Nothing is held back from the first plan where there is room for it, nor from the target.
LEMMA OfferAdmitted ==
  ASSUME Frame, Keeping, Syntheses = {}, Reserved
  PROVE  \E x \in Candidates : Deferral(x, FALSE) = ""
<1> DEFINE M == Max(Costs["synthesizer"])
<1>1. limits.reserve = 1 /\ TailFitted /\ RoomForPlan  BY DEF Reserved
<1>2. TailJobs = Slots
  <2>1. Cardinality(Syntheses) = 0  BY FS_EmptySet
  <2>2. Slots \in 1..2  BY SynthesesFacts DEF Frame
  <2>3. QED  BY <2>1, <2>2 DEF TailJobs, NaturalMinus
<1>3. /\ Slots \in 1..2 /\ CompletionTail.jobs = Slots /\ M \in 1..8 /\ M \in Costs["synthesizer"]
      /\ CompletionTail.work = Slots * 2 * M
  BY <1>1, <1>2, SynthesesFacts, TailFacts DEF Frame
<1>4. Slots <= limits.tasks - Len(history) /\ Slots * 2 * M <= work  BY <1>1, <1>2 DEF Keeping
<1>5. work \in Nat /\ limits.tasks \in Nat /\ Len(history) \in Nat
  <2>1. limits.tasks \in 1..32  BY LimitFacts DEF Frame
  <2>2. limits.tasks \in Nat  BY <2>1
  <2>3. work \in Nat /\ Len(history) \in Nat  BY JobsFinite DEF Frame, Shape
  <2>4. QED  BY <2>2, <2>3
<1>6. \A x : Prior(x, FALSE) # {} => x.action # "synthesize" /\ history # <<>>
  <2>1. SUFFICES ASSUME NEW x, Prior(x, FALSE) # {} PROVE x.action # "synthesize" /\ history # <<>>
    OBVIOUS
  <2>2. PICK n \in DOMAIN history : Key(history[n]) = <<x.claim, x.action, x.why, x.on, Context(x, FALSE)>>
    BY <2>1, PriorFacts DEF Frame
  <2>3. history[n].action = x.action  BY <2>2 DEF Key
  <2>4. QED  BY <2>3 DEF Syntheses
<1>7. \A x : Prior(x, FALSE) = {} => ~ Exhausted(x, FALSE)
  <2>1. limits.retries \in 0..1  BY LimitFacts DEF Frame
  <2>2. SUFFICES ASSUME NEW x, Prior(x, FALSE) = {} PROVE ~ Exhausted(x, FALSE)  OBVIOUS
  <2>3. Tries(x) = 1 \/ Tries(x) = 1 + limits.retries  BY DEF Tries
  <2>4. Cardinality(Prior(x, FALSE)) = 0  BY <2>2, FS_EmptySet
  <2>5. Tries(x) = 1 \/ Tries(x) = 2  BY <2>1, <2>3
  <2>6. ~ (0 >= 1) /\ ~ (0 >= 2)  OBVIOUS
  <2>7. ~ (0 >= Tries(x))  BY <2>5, <2>6
  <2>8. QED  BY <2>4, <2>7 DEF Exhausted
<1>8. CASE history = <<>>
  <2>1. PICK x \in Candidates : Planned(x)  BY <1>8, OfferFacts DEF Frame
  <2>2. x.action = "plan" /\ x.why \notin Correcting /\ x.why # "auxiliary-correction"
    BY <2>1 DEF Planned, Correcting
  <2>3. ~ Exhausted(x, FALSE)  BY <1>6, <1>7, <1>8
  <2>4. HeldJobs(x) = Slots  BY <1>3, <2>2 DEF HeldJobs
  <2>5. ~ (Len(history) + 1 + HeldJobs(x) > limits.tasks)
    <3>1. Len(history) = 0 /\ Slots < limits.tasks  BY <1>1, <1>8 DEF RoomForPlan
    <3>2. QED  BY <1>3, <1>5, <2>4, <3>1
  <2>6. Affordable(x) # {}
    <3> DEFINE m == Min(Costs["planner"])
    <3>1. "plan" \in Action /\ Role("plan") = "planner"  BY DEF Action, Role
    <3>2. m \in Costs["planner"] /\ m \in 1..8
      <4>1. Costs["planner"] \subseteq 1..8 /\ m \in Costs["planner"]  BY <3>1, CostFacts
      <4>2. QED  BY <4>1
    <3>3. work = limits.work
      <4>1. DOMAIN history = {}  BY <1>8
      <4>2. SumOver(Spending, DOMAIN history) = 0  BY <4>1, SumEmpty
      <4>3. QED  BY <1>5, <4>2 DEF Frame, Balanced
    <3>4. Slots * 2 * M + 2 * m <= work  BY <1>1, <3>3 DEF RoomForPlan
    <3>5. Budget(x) = work - Slots * 2 * M  BY <1>3, <2>2, BudgetFacts DEF Frame
    <3>6. Slots * 2 * M \in Nat
      <4>1. \A i \in 1..2, j \in 1..8 : i * 2 * j \in Nat  OBVIOUS
      <4>2. QED  BY <1>3, <4>1
    <3>7. 2 * m <= Budget(x)
      <4>1. \A i, w \in Nat, j \in 1..8 : i + 2 * j <= w => 2 * j <= w - i  OBVIOUS
      <4>2. QED  BY <1>5, <3>2, <3>4, <3>5, <3>6, <4>1
    <3> HIDE DEF m
    <3>8. m \in Affordable(x)  BY <2>2, <3>1, <3>2, <3>7 DEF Affordable
    <3>9. QED  BY <3>8
  <2>7. QED  BY <2>2, <2>3, <2>5, <2>6 DEF Deferral
<1>9. CASE history # <<>>
  <2>1. PICK x \in Candidates : Targeted(x)  BY <1>9, OfferFacts DEF Frame
  <2>2. x.action = "synthesize" /\ x.why \notin Correcting /\ x.why # "auxiliary-correction"
    BY <2>1 DEF Targeted, Correcting
  <2>3. ~ Exhausted(x, FALSE)  BY <1>6, <1>7, <2>2
  <2>4. HeldJobs(x) = NaturalMinus(Slots, 1)  BY <1>3, <2>2 DEF HeldJobs
  <2>5. ~ (Len(history) + 1 + HeldJobs(x) > limits.tasks)
    <3>1. NaturalMinus(Slots, 1) = Slots - 1  BY <1>3 DEF NaturalMinus
    <3>2. QED  BY <1>3, <1>4, <1>5, <2>4, <3>1
  <2>6. Affordable(x) # {}
    <3>1. 2 * M <= Budget(x)
      <4>1. \A i \in 1..2, j \in 1..8, w \in Nat :
              i * 2 * j <= w => (i = 2 => 2 * j <= w - 2 * j) /\ (i # 2 => 2 * j <= w)
        <5>1. \A i \in 1..2 : i = 1 \/ i = 2  OBVIOUS
        <5>2. \A j \in 1..8 : 2 * 2 * j = 2 * j + 2 * j /\ 1 * 2 * j = 2 * j  OBVIOUS
        <5>3. QED  BY <5>1, <5>2
      <4>2. (Slots = 2 => Budget(x) = work - 2 * M) /\ (Slots # 2 => Budget(x) = work)
        BY <1>3, <2>2, BudgetFacts DEF Frame
      <4>3. (Slots = 2 => 2 * M <= work - 2 * M) /\ (Slots # 2 => 2 * M <= work)
        BY <1>3, <1>4, <1>5, <4>1
      <4>4. QED  BY <4>2, <4>3
    <3>2. Role("synthesize") = "synthesizer"  BY DEF Role
    <3> HIDE DEF M
    <3>3. M \in Affordable(x)  BY <1>3, <2>2, <3>1, <3>2 DEF Affordable
    <3>4. QED  BY <3>3
  <2>7. QED  BY <2>2, <2>3, <2>5, <2>6 DEF Deferral
<1>10. QED  BY <1>8, <1>9

\* The operations are spent only where a proof of the target was checked.
LEMMA SpentOnTarget ==
  ASSUME Frame, Keeping, Trace, Reserved, BudgetSpent
  PROVE  Syntheses # {}
<1>1. limits.reserve = 1 /\ TailFitted  BY DEF Reserved
<1>2. TailChecks <= limits.operations - ops  BY <1>1 DEF Keeping
<1>3. ops >= limits.operations  BY DEF BudgetSpent
<1>4. Slots \in 1..2 /\ TailChecks = NaturalMinus(Slots, targetOps)  BY SynthesesFacts DEF Frame, TailChecks
<1>5. ops \in Nat /\ targetOps \in Nat /\ limits.operations \in Nat  BY OperationFacts
<1>6. targetOps # 0  BY <1>2, <1>3, <1>4, <1>5 DEF NaturalMinus
<1>7. QED  BY <1>6 DEF Trace

\* With the tail in hand and nothing in the way, something is dispatched.
LEMMA SelectGoesOn ==
  ASSUME MaxDepth >= 2, Frame, Keeping, Numbered, Descent, Syntheses = {}, Reserved, Select, hiccups' = 0
  PROVE  phase' = "frontier"
<1>1. phase = "frontier"  BY DEF Select, Running
<1>2. PICK lost \in SUBSET Candidates, bare \in BOOLEAN :
        LET admitted == {c \in Candidates : Deferrals(lost, bare)[c] = ""} IN
        /\ <<lost, bare>> = <<{}, FALSE>> \/ hiccups' = hiccups + 1
        /\ \/ admitted = {} /\ GiveUp(Deferrals(lost, bare))
           \/ First(admitted) \in admitted /\ Dispatch(First(admitted), bare)
  BY SelectOutcome
<1> DEFINE admitted == {c \in Candidates : Deferrals(lost, bare)[c] = ""}
<1>3. lost = {} /\ bare = FALSE
  <2>1. hiccups \in Nat  BY FrontierAssumption DEF Frame, Shape
  <2>2. hiccups' # hiccups + 1  BY <2>1
  <2>3. QED  BY <1>2, <2>2
<1>4. \A c \in Candidates : Deferrals({}, FALSE)[c] = Deferral(c, FALSE)  BY DEF Deferrals
<1>5. admitted = {c \in Candidates : Deferral(c, FALSE) = ""}  BY <1>3, <1>4
<1>6. admitted # {}  BY <1>5, OfferAdmitted
<1>7. PICK c \in admitted : Dispatch(c, FALSE)  BY <1>2, <1>3, <1>6
<1>8. c \in Candidates /\ Deferral(c, FALSE) = ""  BY <1>5, <1>7
<1> HIDE DEF admitted
<1>9. ~ (Len(history) >= limits.tasks)
  <2>1. TailJobs <= limits.tasks - Len(history)  BY DEF Reserved, Keeping
  <2>2. TailJobs = Slots
    <3>1. Cardinality(Syntheses) = 0  BY FS_EmptySet
    <3>2. Slots \in 1..2  BY SynthesesFacts DEF Frame
    <3>3. QED  BY <3>1, <3>2 DEF TailJobs, NaturalMinus
  <2>3. Slots \in 1..2 /\ Len(history) \in Nat  BY SynthesesFacts, JobsFinite DEF Frame
  <2>4. limits.tasks \in 1..32  BY LimitFacts DEF Frame
  <2>5. \A i \in 1..2, n \in Nat, m \in 1..32 : i <= m - n => ~ (n >= m)  OBVIOUS
  <2>6. QED  BY <2>1, <2>2, <2>3, <2>4, <2>5
<1>10. ~ (Parent(c, FALSE) # 0 /\ history[Parent(c, FALSE)].depth >= MaxDepth)
  <2>1. Parent(c, FALSE) = 0 \/ history[Parent(c, FALSE)].depth \in 0..1  BY <1>8, ParentDepth
  <2>2. \A i \in 0..1 : ~ (i >= MaxDepth)
    <3>1. MaxDepth \in Nat  BY FrontierAssumption
    <3>2. QED  BY <3>1
  <2>3. QED  BY <2>1, <2>2
<1>11. phase' = phase
  <2>1. Dispatch(c, FALSE)  BY <1>7
  <2>2. QED  BY <1>9, <1>10, <2>1 DEF Dispatch, Parent
<1>12. QED  BY <1>1, <1>11

LEMMA TryingNext ==
  ASSUME MaxDepth >= 2, Frame, Keeping, Numbered, Descent, Trace, Steady, Trying, [Next]_vars
  PROVE  Trying'
<1>1. SUFFICES ASSUME Reserved', hiccups' = 0, phase' = "stopped", reason' # "deadline", Syntheses' = {}
               PROVE  FALSE
  BY DEF Trying
<1>2. Syntheses = {} /\ targetOps' = targetOps  BY <1>1, SynthesesStay
<1>3. limits' = limits
  <2>1. Quiet => limits' = limits  BY DEF Quiet
  <2>2. \A c, bare, k : Decided(c, bare, k) => limits' = limits  BY DEF Decided
  <2>3. QED  BY <2>1, <2>2, NextStep, StutterQuiet
<1>4. Reserved  BY <1>1, <1>3 DEF Reserved, TailFitted, RoomForPlan, Slots
<1>5. ~ erred /\ ~ BudgetSpent  BY <1>2, <1>4, SpentOnTarget DEF Trace
<1>6. CASE Select  BY <1>1, <1>2, <1>4, <1>6, SelectGoesOn
<1>7. CASE Abort  BY <1>1, <1>5, <1>7 DEF Abort, Stop
<1>8. CASE Spent  BY <1>5, <1>8 DEF Spent
<1>9. ASSUME ~ Select, ~ Abort, ~ Spent
      PROVE  FALSE
  <2>1. phase' = phase /\ reason' = reason /\ hiccups = 0
    <3>1. hiccups \in Nat  BY FrontierAssumption DEF Frame, Shape
    <3>2. CASE Wait  BY <1>1, <3>2 DEF Wait
    <3>3. CASE Queue  BY <1>1, <3>3 DEF Queue, Lease, Fail, Proof, Answer
    <3>4. CASE Checks
      <4>1. \A k \in DOMAIN artifacts : \A v : Judge(k, v) => UNCHANGED <<phase, reason, hiccups>>
        BY DEF Judge
      <4>2. \A k \in DOMAIN artifacts : ~ ArtifactStops(k)
        <5>1. hiccups = 0  BY <1>1, HiccupsGrow
        <5>2. \A n \in DOMAIN history : ~ Outdated(n)  BY <5>1 DEF Steady, Outdated
        <5>3. \A k \in DOMAIN artifacts : artifacts[k].job \in DOMAIN history  BY DEF Frame, Rowed
        <5>4. QED  BY <1>5, <5>2, <5>3 DEF ArtifactStops
      <4>3. QED  BY <1>1, <1>2, <3>4, <4>1, <4>2, NothingVerifying DEF Checks
    <3>5. CASE CheckAbandoned  BY <1>1, <3>1, <3>5 DEF CheckAbandoned
    <3>6. CASE Unbind  BY <1>1, <3>1, <3>6 DEF Unbind
    <3>7. CASE Bind \/ DeadlinePasses  BY <1>1, <3>7 DEF Bind, DeadlinePasses
    <3>8. CASE UNCHANGED vars  BY <1>1, <3>8 DEF vars
    <3>9. QED  BY <1>9, <3>2, <3>3, <3>4, <3>5, <3>6, <3>7, <3>8 DEF Next, Advance
  <2>2. QED  BY <1>1, <1>2, <1>4, <2>1 DEF Trying
<1>10. QED  BY <1>6, <1>7, <1>8, <1>9

\* The reserve does what it is kept for: a group with enough for a plan besides stops without a try
\* at the target only at its deadline or because packets, models or checks failed it. Chains of tasks
\* may be two deep at least; the code allows four (advance_frontier, _admit_candidate,
\* _dispatch_frontier_task).
THEOREM TargetIsTried == ASSUME MaxDepth >= 2 PROVE Spec => []TargetTried
<1> DEFINE Inv == Numbered /\ Descent /\ Keeping /\ Trace /\ Steady /\ Trying
<1>1. Init => Inv
  <2>1. SUFFICES ASSUME Init PROVE Inv  OBVIOUS
  <2>2. Descent /\ Trace /\ Steady /\ Trying  BY <2>1 DEF Init, Descent, Trace, Steady, Trying
  <2>3. QED  BY <2>1, <2>2, StrategicInit, KeepingInit
<1>2. Frame /\ Inv /\ [Next]_vars => Inv'
  <2>1. SUFFICES ASSUME Frame, Inv, [Next]_vars PROVE Inv'  OBVIOUS
  <2>2. Trace' /\ Steady' /\ Trying'  BY <2>1, TraceNext, SteadyNext, TryingNext
  <2>3. CASE Quiet  BY <2>1, <2>2, <2>3, NumberedQuiet, DescentQuiet, KeepingQuiet
  <2>4. CASE \E c \in Candidates, bare \in BOOLEAN : \E k \in Affordable(c) : Decided(c, bare, k)
    BY <2>1, <2>2, <2>4, NumberedDecided, DescentDecided, KeepingDecided
  <2>5. QED  BY <2>1, <2>3, <2>4, NextStep, StutterQuiet
<1>3. Inv => TargetTried
  <2>1. Jobs(LAMBDA d : d.action = "synthesize") = Syntheses  BY DEF Jobs, Syntheses
  <2>2. SUFFICES ASSUME Trying, Reserved, hiccups = 0, phase = "stopped", reason # "deadline"
                 PROVE  Jobs(LAMBDA d : d.action = "synthesize") # {}
    BY DEF TargetTried, Reserved
  <2>3. QED  BY <2>1, <2>2 DEF Trying
<1> HIDE DEF Inv
<1>4. QED  BY FrameHolds, <1>1, <1>2, <1>3, PTL DEF Spec

===============================================================================
