--------------------------- MODULE VerificationProofs ---------------------------
(***************************************************************************)
(* Theorems about Verification, for any number of processes, inputs and    *)
(* checks and any verifier: who owns a check, what a verdict rests on,     *)
(* under which binding it was reached, and that the Lean budget of a graph *)
(* group and the part of it kept for the completion are never overrun.     *)
(***************************************************************************)
EXTENDS Verification, FiniteLemmas, TLAPS

Holding == {"context", "begin", "refused", "run", "probe", "rebind", "record"}
Running == {"run", "probe", "rebind", "record"}

(* The inductive invariant *)

\* A tick holds an input, the binding it was picked under, and beyond "begin" the check begun for it.
Good(t, table) ==
  /\ t.at \in Holding => t.owner \in Owner
  /\ t.at \in Holding \ {"run", "record"} => t.owner \notin Plain
  /\ t.at = "context" => t.owner \in Artifact
  /\ t.at \in Holding /\ t.owner \notin Plain => t.token.identity # NoIdentity
  /\ t.at \in Running /\ t.owner \notin Plain =>
       t.check \in Check /\ table[t.check].owner = t.owner /\ table[t.check].binding = t.token
  /\ t.at \in {"probe", "rebind", "record"} => t.result.outcome \in Outcome

InHand == \A p \in Process : Good(tick[p], check)

\* A check in use is about a submitted input, which it owns as long as it is being executed.
Rows ==
  /\ \A c \in Check :
       /\ check[c].owner = 0 <=> check[c].status = "unused"
       /\ check[c].owner # 0 => /\ check[c].owner \in Composed
                                /\ status[check[c].owner] \notin {"absent", "sent"}
       /\ check[c].committed => check[c].status \in Outcome
       /\ check[c].finished <=> check[c].status \notin {"unused", "checking"}
       /\ check[c].status = "checking" => owned[check[c].owner] = c
  /\ \A o \in Owner : owned[o] # 0 => check[owned[o]].owner = o /\ check[owned[o]].status = "checking"

\* A committed check of a target has given it its verdict.
Verdicts ==
  /\ \A c \in Check : check[c].committed /\ check[c].owner \in Target =>
       status[check[c].owner] = check[c].status
  /\ \A c, d \in Check :
       (check[c].committed /\ check[d].committed /\ check[c].owner = check[d].owner
        /\ check[c].owner \in Target)
         => c = d
  /\ \A t \in Target \ Plain : status[t] \in Outcome =>
       \E c \in Check : check[c].owner = t /\ check[c].committed

Bindings ==
  /\ \A a \in Artifact : status[a] = "verified" => ident[a] = binding.identity /\ ident[a] # NoIdentity
  /\ \A c \in Check : check[c].owner \in Correction => check[c].binding = frozen[check[c].owner]

VInv == VTypeOK /\ InHand /\ Rows /\ Verdicts /\ Bindings

LEMMA InvImplies == VInv => SoleOwner /\ VerdictHasCheck
<1> SUFFICES ASSUME VInv PROVE SoleOwner /\ VerdictHasCheck
  OBVIOUS
<1> USE DEF VInv
<1>1. \A c \in Check : check[c].owner \in Owner \cup {0}
  BY DEF VTypeOK, CheckRow
<1>2. SoleOwner
  <2>1. ASSUME NEW c \in Check, check[c].owner # 0
        PROVE  /\ check[c].status = "checking" <=> owned[check[c].owner] = c
               /\ check[c].finished <=> check[c].status # "checking"
    <3>1. c # 0 /\ check[c].owner \in Owner
      BY <1>1, <2>1, OwnerAssumption
    <3>2. QED
      BY <2>1, <3>1 DEF Rows
  <2>2. QED
    BY <2>1 DEF SoleOwner
<1>3. VerdictHasCheck
  BY DEF VerdictHasCheck, Verdicts
<1>4. QED
  BY <1>2, <1>3

-------------------------------------------------------------------------------
(* Steps of the world and of a tick that write no table *)

LEMMA PlainFacts ==
  /\ Plain \subseteq Target /\ Target \subseteq Owner /\ Artifact \subseteq Owner
  /\ Artifact \cap Target = {} /\ 0 \notin Owner /\ 0 \notin Check
  /\ Correction \subseteq Composed /\ Composed \subseteq Owner
BY OwnerAssumption DEF Composed, Owner

LEMMA GoesFacts ==
  ASSUME VInv, NEW p \in Process, NEW t \in Tick, NEW table, Good(t, table), Goes(p, t),
         \A q \in Process \ {p} : Good(tick[q], table)
  PROVE  tick' \in [Process -> Tick] /\ \A q \in Process : Good(tick'[q], table)
<1>1. tick \in [Process -> Tick]
  BY DEF VInv, VTypeOK
<1>2. tick'[p] = t /\ \A q \in Process \ {p} : tick'[q] = tick[q]
  BY <1>1 DEF Goes
<1>3. QED
  BY <1>1, <1>2 DEF Goes

\* Steps that begin and settle no check.
LEMMA TablesStep ==
  ASSUME VInv, UNCHANGED <<check, owned>>, VTypeOK', \A p \in Process : Good(tick'[p], check),
         \A o \in Owner : status[o] \notin {"absent", "sent"} => status'[o] \notin {"absent", "sent"},
         \A t \in Target \ Plain : status[t] \in Outcome \/ status'[t] \in Outcome => status'[t] = status[t],
         \A a \in Artifact : status'[a] = "verified" =>
           ident'[a] = binding'.identity /\ ident'[a] # NoIdentity,
         \A o \in Correction : frozen'[o] = frozen[o] \/ status[o] = "absent"
  PROVE  VInv'
<1> USE DEF VInv
<1>1. \A c \in Check : check[c].owner \in Owner \cup {0}
  BY DEF VTypeOK, CheckRow
<1>2. InHand'
  BY DEF InHand
<1>3. Rows'
  BY PlainFacts DEF Rows
<1>4. Verdicts'
  <2>1. ASSUME NEW c \in Check, check[c].committed, check[c].owner \in Target
        PROVE  status'[check[c].owner] = check[c].status
    BY <2>1, PlainFacts DEF Verdicts, Rows, Composed
  <2>2. ASSUME NEW t \in Target \ Plain, status'[t] \in Outcome
        PROVE  \E c \in Check : check[c].owner = t /\ check[c].committed
    BY <2>2 DEF Verdicts
  <2>3. QED
    BY <2>1, <2>2 DEF Verdicts
<1>5. Bindings'
  <2>1. ASSUME NEW c \in Check, check[c].owner \in Correction
        PROVE  check[c].binding = frozen'[check[c].owner]
    BY <2>1, PlainFacts DEF Bindings, Rows
  <2>2. QED
    BY <2>1 DEF Bindings
<1>6. QED
  BY <1>2, <1>3, <1>4, <1>5

LEMMA TickStep ==
  ASSUME VInv, UNCHANGED tableVars, tick' \in [Process -> Tick],
         \A p \in Process : Good(tick'[p], check),
         world' \in Identity \cup {NoIdentity}, changes' \in 0..MaxChanges, crashes' \in 0..MaxCrashes
  PROVE  VInv'
<1>1. VTypeOK'
  BY DEF VInv, VTypeOK, tableVars
<1>2. QED
  BY <1>1, TablesStep DEF VInv, Bindings, tableVars

LEMMA IdleFacts == Idle \in Tick /\ \A table : Good(Idle, table)
<1>1. Idle \in Tick
  BY BudgetAssumption DEF Idle, Tick, NoResult, Result, Unbound, Binding, Step
<1>2. QED
  BY <1>1 DEF Idle, Good, Holding, Running

LEMMA WorldStep ==
  ASSUME VInv, WorldReturns \/ \E i \in Identity \cup {NoIdentity} : WorldChanges(i) PROVE VInv'
<1>1. UNCHANGED <<tableVars, tick, crashes>> /\ world' \in Identity \cup {NoIdentity}
  BY DEF WorldReturns, WorldChanges
<1>2. changes' \in 0..MaxChanges
  BY BudgetAssumption DEF WorldReturns, WorldChanges, VInv, VTypeOK
<1>3. QED
  BY <1>1, <1>2, TickStep DEF VInv, VTypeOK, InHand

LEMMA CrashStep == ASSUME VInv, NEW p \in Process, Crash(p) PROVE VInv'
<1>1. tick' \in [Process -> Tick] /\ \A q \in Process : Good(tick'[q], check)
  BY GoesFacts, IdleFacts DEF Crash, Goes, VInv, InHand
<1>2. crashes' \in 0..MaxCrashes
  BY BudgetAssumption DEF Crash, VInv, VTypeOK
<1>3. QED
  BY <1>1, <1>2, TickStep DEF Crash, VInv, VTypeOK

\* The tick of one process moves on.
LEMMA MoveStep ==
  ASSUME VInv, NEW p \in Process, NEW t \in Tick, Good(t, check), Goes(p, t),
         UNCHANGED <<world, tableVars, changes, crashes>>
  PROVE  VInv'
<1>1. tick' \in [Process -> Tick] /\ \A q \in Process : Good(tick'[q], check)
  BY GoesFacts DEF VInv, InHand
<1>2. QED
  BY <1>1, TickStep DEF VInv, VTypeOK

LEMMA ClockStep == ASSUME VInv, TimePasses PROVE VInv'
<1>1. VTypeOK'
  BY DEF TimePasses, VInv, VTypeOK
<1>2. QED
  BY <1>1, TablesStep DEF TimePasses, VInv, InHand, Bindings

LEMMA SubmitStep ==
  ASSUME VInv, NEW o \in Owner, Submit(o) \/ SendCorrection(o) PROVE VInv'
<1>1. /\ status \in [Owner -> Outcome \cup {"absent", "sent", "pending", "cancelled", "incompatible"}]
      /\ frozen \in [Correction -> Binding] /\ binding \in Binding /\ context \subseteq Composed
  BY DEF VInv, VTypeOK
<1>2. /\ status' = [status EXCEPT ![o] = "pending"] \/ status' = [status EXCEPT ![o] = "sent"]
      /\ status'[o] = "sent" => status[o] = "absent"
      /\ status[o] \in {"absent", "sent"}
      /\ UNCHANGED <<check, owned, ttl, tick, binding, ident, phase, world, changes, crashes>>
  BY <1>1 DEF Submit, SendCorrection
<1>3. status'[o] \in {"pending", "sent"} /\ \A k \in Owner \ {o} : status'[k] = status[k]
  BY <1>1, <1>2
<1>4. /\ frozen' \in [Correction -> Binding] /\ context' \subseteq Composed
      /\ \A k \in Correction : frozen'[k] = frozen[k] \/ status[k] = "absent"
  BY <1>1, PlainFacts DEF Submit, SendCorrection, Composed, Owner
<1>5. VTypeOK'
  BY <1>1, <1>2, <1>3, <1>4 DEF VInv, VTypeOK
<1>6. QED
  BY <1>2, <1>3, <1>4, <1>5, TablesStep, PlainFacts DEF VInv, InHand, Bindings, Outcome

LEMMA PhaseStep ==
  ASSUME VInv, NEW g \in Group, DeadlinePasses(g) \/ StopGroup(g) PROVE VInv'
<1>1. VTypeOK'
  BY DEF DeadlinePasses, StopGroup, VInv, VTypeOK
<1>2. QED
  BY <1>1, TablesStep DEF DeadlinePasses, StopGroup, VInv, InHand, Bindings

-------------------------------------------------------------------------------
(* Steps of a tick *)

LEMMA TickFacts ==
  ASSUME VInv, NEW p \in Process
  PROVE  /\ tick[p] \in Tick /\ Good(tick[p], check) /\ world \in Identity \cup {NoIdentity}
         /\ binding \in Binding /\ tick[p].owner \in Owner \cup {0}
BY DEF VInv, VTypeOK, InHand, Tick

LEMMA StartStep == ASSUME VInv, NEW p \in Process, StartTick(p) PROVE VInv'
<1> DEFINE probed == [Idle EXCEPT !.at = "bind", !.seen = world]
           straight == [Idle EXCEPT !.at = "pick"]
<1>1. Idle \in Tick /\ world \in Identity \cup {NoIdentity}
  BY IdleFacts, TickFacts
<1>2. probed \in Tick /\ probed.at = "bind" /\ straight \in Tick /\ straight.at = "pick"
  BY <1>1 DEF Tick, Step, Idle
<1>3. Goes(p, probed) \/ Goes(p, straight)
  BY DEF StartTick
<1> HIDE DEF probed, straight
<1>4. Good(probed, check) /\ Good(straight, check)
  BY <1>2 DEF Good, Holding, Running
<1>5. QED
  BY <1>2, <1>3, <1>4, MoveStep DEF StartTick

LEMMA PickArtifactStep ==
  ASSUME VInv, NEW p \in Process, NEW a \in Artifact, PickArtifact(p, a) PROVE VInv'
<1> DEFINE t == [tick[p] EXCEPT !.at = "context", !.owner = a]
<1>1. tick[p] \in Tick /\ a \in Owner /\ a \notin Plain
  BY TickFacts, PlainFacts
<1>2. t \in Tick /\ t.at = "context" /\ t.owner = a /\ t.token = tick[p].token
  BY <1>1 DEF Tick, Step
<1>3. tick[p].token.identity # NoIdentity
  BY DEF PickArtifact, Oldest, Picks
<1>4. Goes(p, t)
  BY DEF PickArtifact
<1> HIDE DEF t
<1>5. Good(t, check)
  BY <1>1, <1>2, <1>3 DEF Good, Holding, Running
<1>6. QED
  BY <1>2, <1>4, <1>5, MoveStep DEF PickArtifact

LEMMA PickTargetStep == ASSUME VInv, NEW p \in Process, PickTarget(p) PROVE VInv'
<1>1. CASE Goes(p, Idle)
  BY <1>1, IdleFacts, MoveStep DEF PickTarget
<1>2. ASSUME NEW t \in Plain, Goes(p, [tick[p] EXCEPT !.at = "run", !.owner = t]) PROVE VInv'
  <2> DEFINE u == [tick[p] EXCEPT !.at = "run", !.owner = t]
  <2>1. tick[p] \in Tick /\ t \in Owner
    BY TickFacts, PlainFacts
  <2>2. u \in Tick /\ u.at = "run" /\ u.owner = t
    BY <2>1 DEF Tick, Step
  <2>3. Goes(p, u)
    BY <1>2
  <2> HIDE DEF u
  <2>4. Good(u, check)
    BY <2>1, <2>2 DEF Good, Holding, Running
  <2>5. QED
    BY <2>2, <2>3, <2>4, MoveStep DEF PickTarget
<1>3. ASSUME NEW t \in Target \ Plain, Goes(p, [tick[p] EXCEPT !.at = "begin", !.owner = t]),
             tick[p].token.identity # NoIdentity
      PROVE  VInv'
  <2> DEFINE u == [tick[p] EXCEPT !.at = "begin", !.owner = t]
  <2>1. tick[p] \in Tick /\ t \in Owner
    BY TickFacts, PlainFacts
  <2>2. u \in Tick /\ u.at = "begin" /\ u.owner = t /\ u.token = tick[p].token
    BY <2>1 DEF Tick, Step
  <2>3. Goes(p, u)
    BY <1>3
  <2> HIDE DEF u
  <2>4. Good(u, check)
    BY <1>3, <2>1, <2>2 DEF Good, Holding, Running
  <2>5. QED
    BY <2>2, <2>3, <2>4, MoveStep DEF PickTarget
<1>4. QED
  BY <1>1, <1>2, <1>3 DEF PickTarget

LEMMA BusyStep == ASSUME VInv, NEW p \in Process, Busy(p) PROVE VInv'
BY IdleFacts, MoveStep DEF Busy

\* A Lean run ends, or is not started, with one of the four outcomes.
LEMMA RunLeanStep == ASSUME VInv, NEW p \in Process, RunLean(p) PROVE VInv'
<1>1. /\ tick[p] \in Tick /\ tick[p].at = "run" /\ Good(tick[p], check)
      /\ tick[p].owner \in Plain => tick[p].owner \in Target
  BY TickFacts, PlainFacts DEF RunLean, At
<1>2. StaleResult \in Result /\ Raised \in Result
      /\ StaleResult.outcome \in Outcome /\ Raised.outcome \in Outcome
  BY BudgetAssumption DEF StaleResult, Raised, Result, Outcome
<1>3. PICK at \in {"probe", "record"}, r \in Result :
        /\ Goes(p, [tick[p] EXCEPT !.at = at, !.result = r])
        /\ r.outcome \in Outcome /\ (tick[p].owner \in Plain => at = "record")
  <2>1. CASE Goes(p, [tick[p] EXCEPT !.at = "probe", !.result = StaleResult])
             /\ tick[p].owner \notin Plain
    BY <1>2, <2>1
  <2>2. ASSUME NEW v \in LeanSays, NEW e \in Elapsed,
               Goes(p, [tick[p] EXCEPT !.at = IF tick[p].owner \in Plain THEN "record" ELSE "probe",
                        !.result = [outcome |-> v, elapsed |-> e, ran |-> TRUE]])
        PROVE  \E at \in {"probe", "record"}, r \in Result :
                 /\ Goes(p, [tick[p] EXCEPT !.at = at, !.result = r])
                 /\ r.outcome \in Outcome /\ (tick[p].owner \in Plain => at = "record")
    <3> DEFINE r == [outcome |-> v, elapsed |-> e, ran |-> TRUE]
    <3>1. r \in Result /\ r.outcome \in Outcome
      BY BudgetAssumption DEF Result
    <3> HIDE DEF r
    <3>2. QED
      BY <2>2, <3>1 DEF r
  <2>3. CASE Goes(p, [tick[p] EXCEPT !.at = IF tick[p].owner \in Target THEN "record" ELSE "probe",
                      !.result = Raised])
    BY <1>1, <1>2, <2>3
  <2>4. QED
    BY <2>1, <2>2, <2>3 DEF RunLean
<1> DEFINE t == [tick[p] EXCEPT !.at = at, !.result = r]
<1>4. /\ t \in Tick /\ t.at = at /\ t.result = r /\ t.owner = tick[p].owner
      /\ t.token = tick[p].token /\ t.check = tick[p].check
  BY <1>1 DEF Tick, Step
<1>5. Goes(p, t) /\ r.outcome \in Outcome
  BY <1>3
<1> HIDE DEF t
<1>6. Good(t, check)
  BY <1>1, <1>3, <1>4, <1>5 DEF Good, Holding, Running
<1>7. QED
  BY <1>4, <1>5, <1>6, MoveStep DEF RunLean

LEMMA ProbeAgainStep == ASSUME VInv, NEW p \in Process, ProbeAgain(p) PROVE VInv'
<1>1. /\ tick[p] \in Tick /\ tick[p].at = "probe" /\ Good(tick[p], check)
      /\ world \in Identity \cup {NoIdentity}
  BY TickFacts DEF ProbeAgain, At
<1>2. Raised \in Result /\ Raised.outcome \in Outcome
  BY BudgetAssumption DEF Raised, Result, Outcome
<1>3. CASE Goes(p, [tick[p] EXCEPT !.at = "record", !.result = Raised])
  <2> DEFINE t == [tick[p] EXCEPT !.at = "record", !.result = Raised]
  <2>1. /\ t \in Tick /\ t.at = "record" /\ t.result = Raised /\ t.owner = tick[p].owner
        /\ t.token = tick[p].token /\ t.check = tick[p].check
    BY <1>1, <1>2 DEF Tick, Step
  <2>2. Goes(p, t)
    BY <1>3
  <2> HIDE DEF t
  <2>3. Good(t, check)
    BY <1>1, <1>2, <2>1 DEF Good, Holding, Running
  <2>4. QED
    BY <2>1, <2>2, <2>3, MoveStep DEF ProbeAgain
<1>4. ASSUME NEW at \in {"record", "rebind"}, Goes(p, [tick[p] EXCEPT !.seen = world, !.at = at])
      PROVE  VInv'
  <2> DEFINE t == [tick[p] EXCEPT !.seen = world, !.at = at]
  <2>1. /\ t \in Tick /\ t.at = at /\ t.result = tick[p].result /\ t.owner = tick[p].owner
        /\ t.token = tick[p].token /\ t.check = tick[p].check
    BY <1>1 DEF Tick, Step
  <2>2. Goes(p, t)
    BY <1>4
  <2> HIDE DEF t
  <2>3. Good(t, check)
    BY <1>1, <2>1 DEF Good, Holding, Running
  <2>4. QED
    BY <2>1, <2>2, <2>3, MoveStep DEF ProbeAgain
<1>5. \/ Goes(p, [tick[p] EXCEPT !.at = "record", !.result = Raised])
      \/ Goes(p, [tick[p] EXCEPT !.seen = world,
                  !.at = IF tick[p].owner \in Standalone /\ world = tick[p].token.identity
                         THEN "record" ELSE "rebind"])
  BY DEF ProbeAgain
<1>6. QED
  BY <1>3, <1>4, <1>5

\* Rebinding withdraws every verification that was not made under the new identity.
LEMMA BindFacts ==
  ASSUME VInv, NEW i \in Identity \cup {NoIdentity}, Bind(i)
  PROVE  /\ binding' \in Binding
         /\ status' \in [Owner -> Outcome \cup {"absent", "sent", "pending", "cancelled", "incompatible"}]
         /\ ident' \in [Artifact -> Identity \cup {NoIdentity}]
         /\ \A o \in Owner : status'[o] = status[o]
                             \/ (o \in Artifact /\ status[o] = "verified" /\ status'[o] = "pending")
         /\ \A a \in Artifact : status'[a] = "verified" =>
              ident'[a] = binding'.identity /\ ident'[a] # NoIdentity
<1>1. /\ binding \in Binding /\ binding.revision \in Nat
      /\ status \in [Owner -> Outcome \cup {"absent", "sent", "pending", "cancelled", "incompatible"}]
      /\ ident \in [Artifact -> Identity \cup {NoIdentity}]
      /\ \A a \in Artifact : status[a] = "verified" => ident[a] = binding.identity /\ ident[a] # NoIdentity
  BY DEF VInv, VTypeOK, Bindings, Binding
<1>2. CASE i = binding.identity
  BY <1>1, <1>2 DEF Bind
<1>3. CASE i # binding.identity
  <2> DEFINE stale == {a \in Artifact : status[a] = "verified" /\ (ident[a] # i \/ i = NoIdentity)}
  <2>1. /\ binding' = [identity |-> i, revision |-> binding.revision + 1]
        /\ status' = [o \in Owner |-> IF o \in stale THEN "pending" ELSE status[o]]
        /\ ident' = [a \in Artifact |-> IF a \in stale THEN NoIdentity ELSE ident[a]]
    BY <1>3 DEF Bind
  <2>2. binding' \in Binding /\ binding'.identity = i
    BY <1>1, <2>1 DEF Binding
  <2>3. stale \subseteq Artifact /\ \A a \in stale : status[a] = "verified"
    OBVIOUS
  <2>4. \A a \in Artifact : status[a] = "verified" /\ a \notin stale => ident[a] = i /\ i # NoIdentity
    OBVIOUS
  <2> HIDE DEF stale
  <2>5. QED
    BY <1>1, <2>1, <2>2, <2>3, <2>4, PlainFacts
<1>4. QED
  BY <1>2, <1>3

LEMMA BoundStep ==
  ASSUME VInv, NEW p \in Process, NEW i \in Identity \cup {NoIdentity}, Bind(i),
         NEW t \in Tick, Good(t, check), Goes(p, t),
         UNCHANGED <<world, context, frozen, phase, check, owned, ttl, changes, crashes>>
  PROVE  VInv'
<1>1. tick' \in [Process -> Tick] /\ \A q \in Process : Good(tick'[q], check)
  BY GoesFacts DEF VInv, InHand
<1>2. VTypeOK'
  BY <1>1, BindFacts DEF VInv, VTypeOK
<1>3. QED
  BY <1>1, <1>2, BindFacts, PlainFacts, TablesStep DEF Outcome

LEMMA BindIdentityStep == ASSUME VInv, NEW p \in Process, BindIdentity(p) PROVE VInv'
<1> DEFINE t == [tick[p] EXCEPT !.at = "pick", !.seen = NoIdentity, !.token = binding']
<1>1. tick[p] \in Tick /\ tick[p].seen \in Identity \cup {NoIdentity} /\ Bind(tick[p].seen)
  BY TickFacts DEF BindIdentity, Tick
<1>2. binding' \in Binding
  BY <1>1, BindFacts
<1>3. t \in Tick /\ t.at = "pick"
  BY <1>1, <1>2 DEF Tick, Step
<1>4. Goes(p, t)
  BY DEF BindIdentity
<1> HIDE DEF t
<1>5. Good(t, check)
  BY <1>3 DEF Good, Holding, Running
<1>6. QED
  BY <1>1, <1>3, <1>4, <1>5, BoundStep DEF BindIdentity

LEMMA RebindStep == ASSUME VInv, NEW p \in Process, Rebind(p) PROVE VInv'
<1> DEFINE t == [tick[p] EXCEPT !.at = "record"]
<1>1. /\ tick[p] \in Tick /\ tick[p].seen \in Identity \cup {NoIdentity} /\ Bind(tick[p].seen)
      /\ tick[p].at = "rebind" /\ Good(tick[p], check)
  BY TickFacts DEF Rebind, Tick, At
<1>2. /\ t \in Tick /\ t.at = "record" /\ t.result = tick[p].result /\ t.owner = tick[p].owner
      /\ t.token = tick[p].token /\ t.check = tick[p].check
  BY <1>1 DEF Tick, Step
<1>3. Goes(p, t)
  BY DEF Rebind
<1> HIDE DEF t
<1>4. Good(t, check)
  BY <1>1, <1>2 DEF Good, Holding, Running
<1>5. QED
  BY <1>1, <1>2, <1>3, <1>4, BoundStep DEF Rebind

LEMMA SetAsideStep == ASSUME VInv, NEW p \in Process, SetAside(p) PROVE VInv'
<1> DEFINE a == tick[p].owner
<1>1. /\ a \in Artifact /\ a \in Owner /\ binding \in Binding
      /\ status \in [Owner -> Outcome \cup {"absent", "sent", "pending", "cancelled", "incompatible"}]
      /\ ident \in [Artifact -> Identity \cup {NoIdentity}]
  BY TickFacts, PlainFacts DEF SetAside, At, Good, Holding, VInv, VTypeOK
<1>2. tick' \in [Process -> Tick] /\ \A q \in Process : Good(tick'[q], check)
  BY IdleFacts, GoesFacts DEF SetAside, VInv, InHand
<1>3. \/ UNCHANGED <<status, ident>>
      \/ /\ status[a] = "pending" /\ status' = [status EXCEPT ![a] = "incompatible"]
         /\ ident' = [ident EXCEPT ![a] = binding.identity]
  BY DEF SetAside
<1>4. /\ UNCHANGED <<world, binding, context, frozen, phase, check, owned, ttl, changes, crashes>>
      /\ status' \in [Owner -> Outcome \cup {"absent", "sent", "pending", "cancelled", "incompatible"}]
      /\ ident' \in [Artifact -> Identity \cup {NoIdentity}]
      /\ \A o \in Owner : status'[o] = status[o] \/ (o = a /\ status'[o] = "incompatible")
      /\ \A b \in Artifact \ {a} : ident'[b] = ident[b]
      /\ (status'[a] = status[a] /\ ident'[a] = ident[a]) \/ status'[a] = "incompatible"
  BY <1>1, <1>3 DEF SetAside, Binding
<1> HIDE DEF a
<1>5. VTypeOK'
  BY <1>1, <1>2, <1>4 DEF VInv, VTypeOK
<1>6. \A b \in Artifact : status'[b] = "verified" => ident'[b] = binding'.identity /\ ident'[b] # NoIdentity
  BY <1>1, <1>4, PlainFacts DEF VInv, Bindings
<1>7. QED
  BY <1>1, <1>2, <1>4, <1>5, <1>6, PlainFacts, TablesStep DEF Outcome

LEMMA EnsureContextStep == ASSUME VInv, NEW p \in Process, EnsureContext(p) PROVE VInv'
<1> DEFINE a == tick[p].owner
           t == [tick[p] EXCEPT !.at = "begin"]
<1>1. /\ a \in Artifact /\ a \in Owner /\ a \notin Plain /\ tick[p] \in Tick
      /\ tick[p].token.identity # NoIdentity
  BY TickFacts, PlainFacts DEF EnsureContext, At, Good, Holding
<1>2. t \in Tick /\ t.at = "begin" /\ t.owner = a /\ t.token = tick[p].token
  BY <1>1 DEF Tick, Step
<1>3. Goes(p, t) \/ Goes(p, Idle)
  BY DEF EnsureContext
<1>4. context' \in {context, context \cup {a}}
  BY DEF EnsureContext
<1> HIDE DEF t
<1>5. Good(t, check)
  BY <1>1, <1>2 DEF Good, Holding, Running
<1>6. tick' \in [Process -> Tick] /\ \A q \in Process : Good(tick'[q], check)
  BY <1>2, <1>3, <1>5, IdleFacts, GoesFacts DEF VInv, InHand
<1>7. VTypeOK'
  BY <1>1, <1>4, <1>6 DEF EnsureContext, VInv, VTypeOK, Composed
<1>8. QED
  BY <1>6, <1>7, TablesStep DEF EnsureContext, VInv, Bindings

LEMMA RefusedStep == ASSUME VInv, NEW p \in Process, Refused(p) PROVE VInv'
<1> DEFINE o == tick[p].owner
<1>1. /\ o \in Owner /\ o \notin Plain /\ GroupOf[o] \in Group
      /\ status \in [Owner -> Outcome \cup {"absent", "sent", "pending", "cancelled", "incompatible"}]
      /\ phase \in [Group -> {"open", "overdue", "stopped"}]
  BY TickFacts, OwnerAssumption DEF Refused, At, Good, Holding, VInv, VTypeOK, Composed
<1>2. tick' \in [Process -> Tick] /\ \A q \in Process : Good(tick'[q], check)
  BY IdleFacts, GoesFacts DEF Refused, VInv, InHand
<1>3. \/ status' = status
      \/ o \in Artifact /\ status[o] = "pending" /\ status' = [status EXCEPT ![o] = "incompatible"]
      \/ o \in Target /\ status[o] \notin Outcome /\ status' = [status EXCEPT ![o] = "cancelled"]
  BY <1>1 DEF Refused, Drops
<1>4. phase' \in [Group -> {"open", "overdue", "stopped"}]
  BY <1>1 DEF Refused
<1>5. /\ UNCHANGED <<world, binding, ident, context, frozen, check, owned, ttl, changes, crashes>>
      /\ status' \in [Owner -> Outcome \cup {"absent", "sent", "pending", "cancelled", "incompatible"}]
      /\ \A k \in Owner : \/ status'[k] = status[k]
                          \/ k \in Artifact /\ status'[k] = "incompatible"
                          \/ k \in Target /\ status[k] \notin Outcome /\ status'[k] = "cancelled"
  BY <1>1, <1>3 DEF Refused
<1> HIDE DEF o
<1>6. VTypeOK'
  BY <1>2, <1>4, <1>5 DEF VInv, VTypeOK
<1>7. \A a \in Artifact : status'[a] = "verified" => ident'[a] = binding'.identity /\ ident'[a] # NoIdentity
  BY <1>5, PlainFacts DEF VInv, Bindings
<1>8. QED
  BY <1>2, <1>5, <1>6, <1>7, PlainFacts, TablesStep DEF Outcome

-------------------------------------------------------------------------------
(* Checks begin and end *)

\* An ownership that lapsed takes its check with it.
LEMMA AbandonFacts ==
  ASSUME VInv, NEW o \in Owner
  PROVE  /\ Abandon(o) \in [Check -> CheckRow]
         /\ \A c \in Check :
              /\ Abandon(o)[c].owner = check[c].owner /\ Abandon(o)[c].binding = check[c].binding
              /\ Abandon(o)[c].committed = check[c].committed
              /\ c # owned[o] => Abandon(o)[c] = check[c]
              /\ c = owned[o] => Abandon(o)[c].status = "abandoned" /\ Abandon(o)[c].finished
<1>1. check \in [Check -> CheckRow] /\ \A c \in Check : check[c] \in CheckRow
  BY DEF VInv, VTypeOK
<1>2. \A c \in Check : c = owned[o] =>
        Abandon(o)[c] = [check[c] EXCEPT !.status = "abandoned", !.finished = TRUE]
  BY DEF Abandon
<1>3. \A c \in Check : c # owned[o] => Abandon(o)[c] = check[c]
  BY DEF Abandon
<1>4. ASSUME NEW c \in Check
      PROVE  /\ Abandon(o)[c] \in CheckRow
             /\ Abandon(o)[c].owner = check[c].owner /\ Abandon(o)[c].binding = check[c].binding
             /\ Abandon(o)[c].committed = check[c].committed
             /\ c = owned[o] => Abandon(o)[c].status = "abandoned" /\ Abandon(o)[c].finished
  <2>1. CASE c # owned[o]
    BY <1>1, <1>3, <2>1
  <2>2. CASE c = owned[o]
    <3> DEFINE k == check[c]
               n == [k EXCEPT !.status = "abandoned", !.finished = TRUE]
    <3>1. k \in CheckRow /\ Abandon(o)[c] = n
      BY <1>1, <1>2, <2>2
    <3> HIDE DEF k
    <3>2. /\ n \in CheckRow /\ n.owner = k.owner /\ n.binding = k.binding /\ n.committed = k.committed
          /\ n.status = "abandoned" /\ n.finished
      BY <3>1 DEF CheckRow
    <3>3. QED
      BY <3>1, <3>2 DEF k
  <2>3. QED
    BY <2>1, <2>2
<1>5. Abandon(o) \in [Check -> CheckRow]
  BY <1>4 DEF Abandon
<1>6. QED
  BY <1>3, <1>4, <1>5

\* Rows in use keep their owner and binding, so what the other ticks hold stays true.
LEMMA OthersKept ==
  ASSUME VInv, NEW table,
         \A c \in Check : check[c].owner # 0 =>
           table[c].owner = check[c].owner /\ table[c].binding = check[c].binding
  PROVE  \A q \in Process : Good(tick[q], table)
BY PlainFacts DEF VInv, InHand, Good, Running, Holding

LEMMA NewCheckFacts ==
  ASSUME NEW o \in Owner, NEW token \in Binding
  PROVE  LET new == NewCheck(o, token) IN
         /\ new \in CheckRow /\ new.owner = o /\ new.binding = token /\ new.status = "checking"
         /\ ~ new.committed /\ ~ new.finished
<1>1. Deadline \in 0..Deadline /\ 0 \in 0..Deadline
  BY BudgetAssumption
<1>2. CASE GroupOf[o] \in Graph
  <2>1. (GroupOf[o] \in Graph) = TRUE /\ (IF GroupOf[o] \in Graph THEN Deadline ELSE 0) = Deadline
    BY <1>2
  <2>2. NewCheck(o, token) = [NoCheck EXCEPT !.owner = o, !.binding = token, !.status = "checking",
                                            !.reserved = TRUE, !.charge = Deadline]
    BY <2>1, Zenon DEF NewCheck
  <2>3. QED
    BY <1>1, <2>2 DEF NoCheck, CheckRow
<1>3. CASE GroupOf[o] \notin Graph
  <2>1. (GroupOf[o] \in Graph) = FALSE /\ (IF GroupOf[o] \in Graph THEN Deadline ELSE 0) = 0
    BY <1>3
  <2>2. NewCheck(o, token) = [NoCheck EXCEPT !.owner = o, !.binding = token, !.status = "checking",
                                            !.reserved = FALSE, !.charge = 0]
    BY <2>1, Zenon DEF NewCheck
  <2>3. QED
    BY <1>1, <2>2 DEF NoCheck, CheckRow
<1>4. QED
  BY <1>2, <1>3

LEMMA BeginStep == ASSUME VInv, NEW p \in Process, Begin(p) PROVE VInv'
<1> DEFINE o == tick[p].owner
           token == tick[p].token
<1>1. /\ o \in Owner /\ o \in Composed /\ o # 0 /\ token.identity # NoIdentity /\ token \in Binding
      /\ tick[p] \in Tick /\ status[o] = "pending"
      /\ UNCHANGED <<world, binding, status, ident, context, frozen, phase, changes, crashes>>
  BY TickFacts, PlainFacts DEF Begin, At, Good, Holding, Composed, Terminal, Tick
<1>2. /\ owned \in [Owner -> Check \cup {0}] /\ ttl \in [Owner -> 0..1] /\ check \in [Check -> CheckRow]
      /\ \A c \in Check : check[c].owner \in Owner \cup {0}
  BY DEF VInv, VTypeOK, CheckRow
<1>3. /\ Abandon(o) \in [Check -> CheckRow]
      /\ \A c \in Check :
           /\ Abandon(o)[c].owner = check[c].owner /\ Abandon(o)[c].binding = check[c].binding
           /\ Abandon(o)[c].committed = check[c].committed
           /\ c # owned[o] => Abandon(o)[c] = check[c]
           /\ c = owned[o] => Abandon(o)[c].status = "abandoned" /\ Abandon(o)[c].finished
  BY <1>1, AbandonFacts
<1>4. \A c \in Check : c = owned[o] => check[c].owner = o /\ check[c].status = "checking"
                                     /\ ~ check[c].committed
  BY <1>1, PlainFacts DEF VInv, Rows, Outcome
<1>5. ASSUME NEW b \in BOOLEAN, check' = Abandon(o), owned' = [owned EXCEPT ![o] = 0],
             ttl' = [ttl EXCEPT ![o] = 0], Goes(p, [tick[p] EXCEPT !.at = "refused", !.capacity = b])
      PROVE  VInv'
  <2> DEFINE t == [tick[p] EXCEPT !.at = "refused", !.capacity = b]
  <2>1. t \in Tick /\ t.at = "refused" /\ t.owner = o /\ t.token = token
    BY <1>1 DEF Tick, Step
  <2>2. Goes(p, t)
    BY <1>5
  <2> HIDE DEF t, o, token
  <2>3. Good(t, check')
    BY <1>1, <2>1, PlainFacts DEF Good, Holding, Running, Composed
  <2>4. tick' \in [Process -> Tick] /\ \A q \in Process : Good(tick'[q], check')
    BY <1>3, <1>5, <2>1, <2>2, <2>3, OthersKept, GoesFacts
  <2>5. VTypeOK'
    BY <1>1, <1>2, <1>3, <1>5, <2>4 DEF VInv, VTypeOK
  <2>6. InHand'
    BY <2>4 DEF InHand
  <2>7. Rows'
    BY <1>1, <1>2, <1>3, <1>4, <1>5, PlainFacts DEF VInv, Rows, Outcome
  <2>8. Verdicts'
    BY <1>1, <1>3, <1>4, <1>5 DEF VInv, Verdicts
  <2>9. Bindings'
    BY <1>1, <1>3, <1>5 DEF VInv, Bindings
  <2>10. QED
    BY <2>5, <2>6, <2>7, <2>8, <2>9 DEF VInv
<1>6. ASSUME NEW c \in Free, Refusals(o, token) = {},
             check' = [Abandon(o) EXCEPT ![c] = NewCheck(o, token)],
             owned' = [owned EXCEPT ![o] = c], ttl' = [ttl EXCEPT ![o] = 1],
             Goes(p, [tick[p] EXCEPT !.at = "run", !.check = c])
      PROVE  VInv'
  <2> DEFINE t == [tick[p] EXCEPT !.at = "run", !.check = c]
             new == NewCheck(o, token)
  <2>1. c \in Check /\ c # 0 /\ check[c].status = "unused" /\ check[c].owner = 0 /\ c # owned[o]
    BY <1>4, PlainFacts DEF Free, VInv, Rows
  <2>2. /\ new \in CheckRow /\ new.owner = o /\ new.binding = token /\ new.status = "checking"
        /\ ~ new.committed /\ ~ new.finished
    BY <1>1, NewCheckFacts
  <2>3. o \in Correction => token = frozen[o]
    BY OwnerAssumption, <1>6 DEF Refusals, Rebound
  <2>4. t \in Tick /\ t.at = "run" /\ t.owner = o /\ t.token = token /\ t.check = c
    BY <1>1, <2>1 DEF Tick, Step
  <2>5. Goes(p, t)
    BY <1>6
  <2>6. /\ check'[c] = new /\ check' \in [Check -> CheckRow]
        /\ \A d \in Check \ {c} : check'[d] = Abandon(o)[d]
        /\ owned'[o] = c /\ \A k \in Owner \ {o} : owned'[k] = owned[k]
        /\ owned' \in [Owner -> Check \cup {0}] /\ ttl' \in [Owner -> 0..1]
    BY <1>1, <1>2, <1>3, <1>6, <2>1, <2>2
  <2> HIDE DEF t, o, token, new
  <2>7. Good(t, check')
    BY <1>1, <2>1, <2>2, <2>4, <2>6 DEF Good, Holding, Running
  <2>8. tick' \in [Process -> Tick] /\ \A q \in Process : Good(tick'[q], check')
    <3>1. \A d \in Check : check[d].owner # 0 =>
            check'[d].owner = check[d].owner /\ check'[d].binding = check[d].binding
      BY <1>3, <2>1, <2>6
    <3>2. \A q \in Process : Good(tick[q], check')
      BY <3>1, OthersKept
    <3>3. QED
      BY <2>4, <2>5, <2>7, <3>2, GoesFacts
  <2>9. VTypeOK'
    BY <1>1, <1>2, <2>6, <2>8 DEF VInv, VTypeOK
  <2>10. InHand'
    BY <2>8 DEF InHand
  <2>11. Rows'
    <3>1. ASSUME NEW d \in Check
          PROVE  /\ check'[d].owner = 0 <=> check'[d].status = "unused"
                 /\ check'[d].owner # 0 => /\ check'[d].owner \in Composed
                                           /\ status'[check'[d].owner] \notin {"absent", "sent"}
                 /\ check'[d].committed => check'[d].status \in Outcome
                 /\ check'[d].finished <=> check'[d].status \notin {"unused", "checking"}
                 /\ check'[d].status = "checking" => owned'[check'[d].owner] = d
      <4>1. CASE d = c
        BY <1>1, <2>2, <2>6, <4>1
      <4>2. CASE d # c /\ d = owned[o]
        BY <1>1, <1>3, <1>4, <2>6, <4>2
      <4>3. CASE d # c /\ d # owned[o]
        <5>1. check'[d] = check[d]
          BY <1>3, <2>6, <4>3
        <5>2. check[d].status = "checking" => check[d].owner # o /\ check[d].owner \in Owner
          BY <1>2, <4>3 DEF VInv, Rows
        <5>3. QED
          BY <1>1, <2>6, <5>1, <5>2 DEF VInv, Rows
      <4>4. QED
        BY <4>1, <4>2, <4>3
    <3>2. ASSUME NEW k \in Owner, owned'[k] # 0
          PROVE  check'[owned'[k]].owner = k /\ check'[owned'[k]].status = "checking"
      <4>1. CASE k = o
        BY <2>2, <2>6, <4>1
      <4>2. CASE k # o
        <5>1. /\ owned'[k] = owned[k] /\ owned[k] \in Check
              /\ check[owned[k]].owner = k /\ check[owned[k]].status = "checking"
          BY <1>2, <2>6, <3>2, <4>2 DEF VInv, Rows
        <5>2. owned[k] # c /\ owned[k] # owned[o]
          BY <1>4, <2>1, <4>2, <5>1
        <5>3. QED
          BY <1>3, <2>6, <5>1, <5>2
      <4>3. QED
        BY <4>1, <4>2
    <3>3. QED
      BY <3>1, <3>2 DEF Rows
  <2>12. Verdicts'
    <3>1. \A d \in Check : check'[d].committed => d # c /\ check[d].committed /\ check'[d] = check[d]
      BY <1>3, <1>4, <2>2, <2>6
    <3>2. \A d \in Check : check[d].committed => d # c /\ check'[d] = check[d]
      BY <1>3, <1>4, <2>1, <2>6 DEF VInv, Rows, Outcome
    <3>3. QED
      BY <1>1, <3>1, <3>2 DEF VInv, Verdicts
  <2>13. Bindings'
    BY <1>1, <1>3, <2>2, <2>3, <2>6 DEF VInv, Bindings
  <2>14. QED
    BY <2>9, <2>10, <2>11, <2>12, <2>13 DEF VInv
<1>7. QED
  BY <1>5, <1>6 DEF Begin

\* A check that ends leaves every other row, and its own owner and binding, as they are.
LEMMA SettleFacts ==
  ASSUME VInv, NEW p \in Process, NEW b \in BOOLEAN, Settle(p, b),
         tick[p].check \in Check, tick[p].result.outcome \in Outcome
  PROVE  LET c == tick[p].check IN
         /\ check' \in [Check -> CheckRow]
         /\ \A d \in Check : check'[d].owner = check[d].owner /\ check'[d].binding = check[d].binding
         /\ \A d \in Check : d # c \/ check[c].status # "checking" => check'[d] = check[d]
         /\ check[c].status = "checking" =>
              /\ check'[c].status = tick[p].result.outcome /\ check'[c].finished
              /\ check'[c].committed <=> b
<1> DEFINE c == tick[p].check
           r == tick[p].result
           k == check[c]
           charge == IF k.reserved THEN r.elapsed ELSE 0
           n == [k EXCEPT !.status = r.outcome, !.charge = charge,
                          !.finished = TRUE, !.committed = b, !.ran = r.ran]
<1>1. /\ check \in [Check -> CheckRow] /\ c \in Check /\ r.outcome \in Outcome
      /\ r.elapsed \in 0..Deadline /\ r.ran \in BOOLEAN
  BY DEF VInv, VTypeOK, Tick, Result
<1>2. k \in CheckRow
  BY <1>1
<1>3. CASE k.status # "checking"
  BY <1>1, <1>3 DEF Settle
<1>4. CASE k.status = "checking"
  <2>1. check' = [check EXCEPT ![c] = n]
    BY <1>4 DEF Settle
  <2>2. charge \in 0..Deadline
    BY <1>1, BudgetAssumption
  <2> HIDE DEF charge, k, r
  <2>3. /\ n \in CheckRow /\ n.owner = k.owner /\ n.binding = k.binding
        /\ n.status = r.outcome /\ n.finished /\ (n.committed <=> b)
    <3>1. CASE b = TRUE
      BY <1>1, <1>2, <2>2, <3>1 DEF CheckRow
    <3>2. CASE b = FALSE
      BY <1>1, <1>2, <2>2, <3>2 DEF CheckRow
    <3>3. QED
      BY <3>1, <3>2
  <2> HIDE DEF n, c
  <2>4. QED
    BY <1>1, <1>4, <2>1, <2>3 DEF c, k, r
<1>5. QED
  BY <1>3, <1>4

\* The result of a composed check arrives, at the owner of its input or late.
LEMMA ResultStep ==
  ASSUME VInv, NEW p \in Process, NEW b \in BOOLEAN, tick[p].at = "record", tick[p].owner \notin Plain,
         b => /\ Current(p)
              /\ IF tick[p].owner \in Artifact THEN status[tick[p].owner] = "pending"
                 ELSE status[tick[p].owner] \notin Outcome,
         status' = IF b THEN [status EXCEPT ![tick[p].owner] = tick[p].result.outcome] ELSE status,
         ident' = IF b /\ tick[p].owner \in Artifact
                  THEN [ident EXCEPT ![tick[p].owner] = tick[p].token.identity] ELSE ident,
         phase' \in [Group -> {"open", "overdue", "stopped"}],
         Settle(p, b), Release(p), Goes(p, Idle),
         UNCHANGED <<world, binding, context, frozen, changes, crashes>>
  PROVE  VInv'
<1> DEFINE o == tick[p].owner
           c == tick[p].check
           v == tick[p].result.outcome
<1>1. /\ o \in Owner /\ o \in Composed /\ o # 0 /\ c \in Check /\ c # 0 /\ v \in Outcome
      /\ check[c].owner = o /\ check[c].binding = tick[p].token
      /\ tick[p].token.identity \in Identity /\ tick[p].token.identity # NoIdentity
  BY TickFacts, PlainFacts DEF Good, Holding, Running, Composed, Tick, Binding
<1>2. /\ owned \in [Owner -> Check \cup {0}] /\ ttl \in [Owner -> 0..1] /\ check \in [Check -> CheckRow]
      /\ status \in [Owner -> Outcome \cup {"absent", "sent", "pending", "cancelled", "incompatible"}]
      /\ ident \in [Artifact -> Identity \cup {NoIdentity}]
      /\ \A d \in Check : check[d].owner \in Owner \cup {0}
  BY DEF VInv, VTypeOK, CheckRow
<1>3. /\ check' \in [Check -> CheckRow]
      /\ \A d \in Check : check'[d].owner = check[d].owner /\ check'[d].binding = check[d].binding
      /\ \A d \in Check : d # c \/ check[c].status # "checking" => check'[d] = check[d]
      /\ check[c].status = "checking" =>
           check'[c].status = v /\ check'[c].finished /\ (check'[c].committed <=> b)
  BY <1>1, SettleFacts
<1>4. /\ owned' \in [Owner -> Check \cup {0}] /\ ttl' \in [Owner -> 0..1]
      /\ \A k \in Owner : IF owned[k] = c THEN owned'[k] = 0 ELSE owned'[k] = owned[k]
  BY <1>1, <1>2 DEF Release
<1>5. /\ status' \in [Owner -> Outcome \cup {"absent", "sent", "pending", "cancelled", "incompatible"}]
      /\ ident' \in [Artifact -> Identity \cup {NoIdentity}]
      /\ \A k \in Owner \ {o} : status'[k] = status[k]
      /\ \A k \in Artifact \ {o} : ident'[k] = ident[k]
      /\ ~ b => status' = status /\ ident' = ident
      /\ b => status'[o] = v /\ (o \in Artifact => ident'[o] = tick[p].token.identity)
  BY <1>1, <1>2
<1>6. b => owned[o] = c /\ binding = tick[p].token /\ check[c].status = "checking"
  BY <1>1 DEF Current, VInv, Rows
<1>7. \A q \in Process : Good(tick[q], check')
  BY <1>3, OthersKept
<1>8. tick' \in [Process -> Tick] /\ \A q \in Process : Good(tick'[q], check')
  BY <1>7, IdleFacts, GoesFacts
<1> HIDE DEF o, c, v
<1>9. VTypeOK'
  <2>1. \A k \in Owner : status'[k] = "incompatible" => k \in Artifact
    BY <1>1, <1>5 DEF VInv, VTypeOK, Outcome
  <2>2. QED
    BY <1>3, <1>4, <1>5, <1>8, <2>1 DEF VInv, VTypeOK
<1>10. InHand'
  BY <1>8 DEF InHand
<1>11. \A d \in Check : check[d].owner # 0 => status'[check[d].owner] \notin {"absent", "sent"}
  <2>1. ASSUME NEW d \in Check, check[d].owner # 0
        PROVE  status'[check[d].owner] \notin {"absent", "sent"}
    <3>1. check[d].owner \in Owner /\ status[check[d].owner] \notin {"absent", "sent"}
      BY <1>2, <2>1 DEF VInv, Rows
    <3>2. v \notin {"absent", "sent"}
      BY <1>1 DEF Outcome
    <3>3. QED
      BY <1>5, <3>1, <3>2
  <2>2. QED
    BY <2>1
<1>12. Rows'
  <2>1. ASSUME NEW d \in Check
        PROVE  /\ check'[d].owner = 0 <=> check'[d].status = "unused"
               /\ check'[d].owner # 0 => /\ check'[d].owner \in Composed
                                         /\ status'[check'[d].owner] \notin {"absent", "sent"}
               /\ check'[d].committed => check'[d].status \in Outcome
               /\ check'[d].finished <=> check'[d].status \notin {"unused", "checking"}
               /\ check'[d].status = "checking" => owned'[check'[d].owner] = d
    <3>1. CASE d = c /\ check[c].status = "checking"
      BY <1>1, <1>3, <1>11, <3>1 DEF Outcome
    <3>2. CASE ~ (d = c /\ check[c].status = "checking")
      <4>1. check'[d] = check[d]
        BY <1>3, <3>2
      <4>2. check[d].status = "checking" =>
              check[d].owner \in Owner /\ owned[check[d].owner] = d /\ d # c
        BY <1>2, <3>2 DEF VInv, Rows
      <4>3. QED
        BY <1>4, <1>11, <4>1, <4>2 DEF VInv, Rows
    <3>3. QED
      BY <3>1, <3>2
  <2>2. ASSUME NEW k \in Owner, owned'[k] # 0
        PROVE  check'[owned'[k]].owner = k /\ check'[owned'[k]].status = "checking"
    <3>1. owned'[k] = owned[k] /\ owned[k] # c /\ owned[k] \in Check
      BY <1>2, <1>4, <2>2
    <3>2. QED
      BY <1>3, <2>2, <3>1 DEF VInv, Rows
  <2>3. QED
    BY <2>1, <2>2 DEF Rows
<1>13. Verdicts'
  <2>1. \A d \in Check : check[d].committed => check'[d] = check[d]
    BY <1>3 DEF VInv, Rows, Outcome
  <2>2. \A d \in Check : check'[d].committed /\ ~ check[d].committed => b /\ d = c /\ check'[c].status = v
    BY <1>3
  <2>3. b /\ o \in Target => \A d \in Check : ~ (check[d].committed /\ check[d].owner = o)
    BY <1>1, PlainFacts DEF VInv, Verdicts, Rows, o
  <2>4. ASSUME NEW d \in Check, check'[d].committed, check'[d].owner \in Target
        PROVE  status'[check'[d].owner] = check'[d].status
    <3>1. CASE check[d].committed
      BY <1>3, <1>5, <2>1, <2>3, <2>4, <3>1, PlainFacts DEF VInv, Verdicts
    <3>2. CASE ~ check[d].committed
      BY <1>1, <1>3, <1>5, <2>2, <2>4, <3>2
    <3>3. QED
      BY <3>1, <3>2
  <2>5. ASSUME NEW d \in Check, NEW e \in Check, check'[d].committed, check'[e].committed,
               check'[d].owner = check'[e].owner, check'[d].owner \in Target
        PROVE  d = e
    BY <1>1, <1>3, <2>2, <2>3, <2>5 DEF VInv, Verdicts
  <2>6. ASSUME NEW t \in Target \ Plain, status'[t] \in Outcome
        PROVE  \E d \in Check : check'[d].owner = t /\ check'[d].committed
    <3>1. CASE t = o /\ b
      BY <1>1, <1>3, <1>6, <3>1
    <3>2. CASE ~ (t = o /\ b)
      <4>1. status'[t] = status[t]
        BY <1>5, <3>2, PlainFacts
      <4>2. PICK d \in Check : check[d].owner = t /\ check[d].committed
        BY <2>6, <4>1 DEF VInv, Verdicts
      <4>3. QED
        BY <2>1, <4>2
    <3>3. QED
      BY <3>1, <3>2
  <2>7. \A d \in Check : check'[d].committed /\ check'[d].owner \in Target =>
          status'[check'[d].owner] = check'[d].status
    BY <2>4
  <2>8. \A d, e \in Check :
          (check'[d].committed /\ check'[e].committed /\ check'[d].owner = check'[e].owner
           /\ check'[d].owner \in Target)
            => d = e
    BY <2>5
  <2>9. \A t \in Target \ Plain : status'[t] \in Outcome =>
          \E d \in Check : check'[d].owner = t /\ check'[d].committed
    BY <2>6
  <2>10. QED
    BY <2>7, <2>8, <2>9 DEF Verdicts
<1>14. Bindings'
  <2>1. ASSUME NEW a \in Artifact, status'[a] = "verified"
        PROVE  ident'[a] = binding'.identity /\ ident'[a] # NoIdentity
    BY <1>1, <1>5, <1>6, <2>1, PlainFacts DEF VInv, Bindings
  <2>2. QED
    BY <1>3, <2>1 DEF VInv, Bindings
<1>15. QED
  BY <1>9, <1>10, <1>12, <1>13, <1>14 DEF VInv

LEMMA RecordStep == ASSUME VInv, NEW p \in Process, Record(p) PROVE VInv'
<1> DEFINE o == tick[p].owner
           v == tick[p].result.outcome
           undecided == IF o \in Artifact THEN status[o] = "pending" ELSE status[o] \notin Outcome
<1>1. /\ tick[p].at = "record" /\ Good(tick[p], check) /\ o \in Owner /\ v \in Outcome
      /\ status \in [Owner -> Outcome \cup {"absent", "sent", "pending", "cancelled", "incompatible"}]
      /\ phase \in [Group -> {"open", "overdue", "stopped"}]
  BY TickFacts DEF Record, At, Good, Holding, VInv, VTypeOK
<1>2. Goes(p, Idle) /\ UNCHANGED <<world, binding, context, frozen, changes, crashes>>
  BY DEF Record
<1>3. CASE o \in Plain
  <2>1. /\ UNCHANGED <<check, owned, ttl, ident, phase>>
        /\ status' = status \/ status' = [status EXCEPT ![o] = v]
    BY <1>3, PlainFacts DEF Record
  <2>2. tick' \in [Process -> Tick] /\ \A q \in Process : Good(tick'[q], check)
    BY <1>2, IdleFacts, GoesFacts DEF VInv, InHand
  <2>3. /\ status' \in [Owner -> Outcome \cup {"absent", "sent", "pending", "cancelled", "incompatible"}]
        /\ \A k \in Owner \ Plain : status'[k] = status[k]
        /\ \A k \in Owner : status'[k] = status[k] \/ status'[k] \in Outcome
    BY <1>1, <1>3, <2>1
  <2>4. VTypeOK'
    BY <1>2, <2>1, <2>2, <2>3 DEF VInv, VTypeOK, Outcome
  <2>5. QED
    BY <1>2, <2>1, <2>2, <2>3, <2>4, PlainFacts, TablesStep DEF VInv, Bindings, Outcome
<1>4. CASE o \notin Plain /\ Current(p) /\ undecided
  <2>1. /\ status' = [status EXCEPT ![o] = v]
        /\ ident' = IF o \in Artifact THEN [ident EXCEPT ![o] = tick[p].token.identity] ELSE ident
        /\ phase' \in [Group -> {"open", "overdue", "stopped"}]
        /\ Release(p)
    BY <1>1, <1>4 DEF Record
  <2>2. Settle(p, TRUE)
    BY <1>4 DEF Record, Settle
  <2>3. QED
    BY <1>1, <1>2, <1>4, <2>1, <2>2, ResultStep
<1>5. CASE o \notin Plain /\ ~ (Current(p) /\ undecided)
  <2>1. UNCHANGED <<status, ident, phase>> /\ Release(p)
    BY <1>5 DEF Record
  <2>2. Settle(p, FALSE)
    BY <1>5 DEF Record, Settle
  <2>3. QED
    BY <1>1, <1>2, <1>5, <2>1, <2>2, ResultStep
<1>6. QED
  BY <1>3, <1>4, <1>5

-------------------------------------------------------------------------------
LEMMA InitInv == Init => VInv
<1> SUFFICES ASSUME Init PROVE VInv
  OBVIOUS
<1>1. NoCheck \in CheckRow /\ NoCheck.owner = 0 /\ NoCheck.status = "unused" /\ ~ NoCheck.committed
      /\ ~ NoCheck.finished /\ Unbound \in Binding
  BY BudgetAssumption DEF NoCheck, CheckRow, Unbound, Binding
<1>2. VTypeOK
  BY <1>1, IdleFacts, BudgetAssumption DEF Init, VTypeOK, Outcome
<1>3. InHand
  BY IdleFacts DEF Init, InHand
<1>4. \A c \in Check : check[c] = NoCheck
  BY DEF Init
<1>5. Rows /\ Verdicts
  BY <1>1, <1>4, PlainFacts DEF Init, Rows, Verdicts, Outcome
<1>6. Bindings
  BY <1>1, <1>4, PlainFacts DEF Init, Bindings
<1>7. QED
  BY <1>2, <1>3, <1>5, <1>6 DEF VInv

LEMMA NextInv == VInv /\ [Next]_vars => VInv'
<1> SUFFICES ASSUME VInv, [Next]_vars PROVE VInv'
  OBVIOUS
<1>1. CASE Environment
  BY <1>1, WorldStep, ClockStep, CrashStep, SubmitStep, PhaseStep DEF Environment
<1>2. ASSUME NEW p \in Process, Ticks(p) PROVE VInv'
  BY <1>2, StartStep, BindIdentityStep, PickArtifactStep, PickTargetStep, SetAsideStep,
     EnsureContextStep, BusyStep, BeginStep, RefusedStep, RunLeanStep, ProbeAgainStep, RebindStep,
     RecordStep DEF Ticks
<1>3. CASE UNCHANGED vars
  BY <1>3, TickStep DEF vars, VInv, VTypeOK, InHand
<1>4. QED
  BY <1>1, <1>2, <1>3 DEF Next

LEMMA Invariance == Spec => []VInv
<1>1. QED
  BY InitInv, NextInv, PTL DEF Spec

\* A check is being executed exactly while it owns its input, and its reservation is open exactly
\* as long, whatever ticks overlap, die or come back late (begin_composed_check, record_check).
THEOREM OneOwner == Spec => []SoleOwner
<1>1. VInv => SoleOwner
  BY InvImplies
<1>2. QED
  BY <1>1, Invariance, PTL

\* The verdict of a composed target is that of exactly one committed check (Store.verified,
\* record_check).
THEOREM VerdictsChecked == Spec => []VerdictHasCheck
<1>1. VInv => VerdictHasCheck
  BY InvImplies
<1>2. QED
  BY <1>1, Invariance, PTL

-------------------------------------------------------------------------------
(* What is offered rests on a check of the present binding *)

Grounded == \A a \in Artifact : status[a] = "verified" => \E c \in Check : Offered(a, c)

\* Nothing is verified, nothing rebound and no committed check changed.
LEMMA GroundedFrame ==
  ASSUME Grounded, UNCHANGED binding,
         \A a \in Artifact : status'[a] = "verified" => status[a] = "verified",
         \A c \in Check : check[c].committed => check'[c] = check[c]
  PROVE  Grounded'
<1> SUFFICES ASSUME NEW a \in Artifact, status'[a] = "verified"
             PROVE  \E c \in Check : Offered(a, c)'
  BY DEF Grounded
<1>1. PICK c \in Check : Offered(a, c)
  BY DEF Grounded
<1>2. check'[c] = check[c]
  BY <1>1 DEF Offered
<1>3. Offered(a, c)'
  BY <1>1, <1>2 DEF Offered
<1>4. QED
  BY <1>3

\* Rebinding to another identity withdraws everything that was verified.
LEMMA GroundedBind ==
  ASSUME VInv, Grounded, NEW i \in Identity \cup {NoIdentity}, Bind(i), UNCHANGED check
  PROVE  Grounded'
<1>1. CASE i = binding.identity
  <2>1. UNCHANGED <<binding, status>>
    BY <1>1 DEF Bind
  <2>2. QED
    BY <2>1, GroundedFrame
<1>2. CASE i # binding.identity
  <2>1. /\ status' = [o \in Owner |->
                       IF o \in {a \in Artifact : status[a] = "verified" /\ (ident[a] # i \/ i = NoIdentity)}
                       THEN "pending" ELSE status[o]]
    BY <1>2 DEF Bind
  <2>2. \A a \in Artifact : status[a] = "verified" => ident[a] = binding.identity
    BY DEF VInv, Bindings
  <2>3. \A a \in Artifact : status'[a] # "verified"
    BY <1>2, <2>1, <2>2, PlainFacts
  <2>4. QED
    BY <2>3 DEF Grounded
<1>3. QED
  BY <1>1, <1>2

LEMMA GroundedBegin ==
  ASSUME VInv, Grounded, NEW p \in Process, Begin(p) PROVE Grounded'
<1> DEFINE o == tick[p].owner
           token == tick[p].token
<1>1. /\ UNCHANGED <<binding, status>> /\ o \in Owner
      /\ \/ check' = Abandon(o)
         \/ \E c \in Free : check' = [Abandon(o) EXCEPT ![c] = NewCheck(o, token)]
  BY TickFacts DEF Begin, At, Good, Holding
<1>2. \A c \in Check : check[c].committed => check[c].status \in Outcome
  BY DEF VInv, Rows
<1>3. \A c \in Check : c = owned[o] => check[c].status = "checking"
  BY <1>1, PlainFacts DEF VInv, Rows
<1>4. \A c \in Check : check[c].committed => c \notin Free /\ c # owned[o]
  BY <1>2, <1>3 DEF Free, Outcome
<1>5. Abandon(o) \in [Check -> CheckRow] /\ \A c \in Check : c # owned[o] => Abandon(o)[c] = check[c]
  BY <1>1, AbandonFacts
<1>6. \A c \in Check : check[c].committed => check'[c] = check[c]
  <2> HIDE DEF o, token
  <2>1. QED
    BY <1>1, <1>4, <1>5
<1>7. QED
  BY <1>1, <1>6, GroundedFrame

\* A verdict is recorded by a check that owns its input and began under the binding of the moment.
LEMMA GroundedRecord ==
  ASSUME VInv, Grounded, NEW p \in Process, Record(p) PROVE Grounded'
<1> DEFINE o == tick[p].owner
           c == tick[p].check
           v == tick[p].result.outcome
           undecided == IF o \in Artifact THEN status[o] = "pending" ELSE status[o] \notin Outcome
<1>1. /\ UNCHANGED binding /\ Good(tick[p], check) /\ tick[p].at = "record" /\ o \in Owner /\ v \in Outcome
      /\ status \in [Owner -> Outcome \cup {"absent", "sent", "pending", "cancelled", "incompatible"}]
  BY TickFacts DEF Record, At, Good, Holding, VInv, VTypeOK
<1>2. CASE o \in Plain
  <2>1. UNCHANGED check /\ (status' = status \/ status' = [status EXCEPT ![o] = v])
    BY <1>2 DEF Record
  <2>2. \A a \in Artifact : status'[a] = status[a]
    BY <1>1, <1>2, <2>1, PlainFacts
  <2>3. QED
    BY <1>1, <2>1, <2>2, GroundedFrame
<1>3. CASE o \notin Plain
  <2>1. /\ c \in Check /\ check[c].owner = o /\ check[c].binding = tick[p].token
    BY <1>1, <1>3 DEF Good, Running
  <2>2. \A d \in Check : check[d].committed => check[d].status # "checking"
    BY DEF VInv, Rows, Outcome
  <2>3. CASE Current(p) /\ undecided
    <3>1. Settle(p, TRUE) /\ status' = [status EXCEPT ![o] = v]
      BY <1>3, <2>3 DEF Record, Settle
    <3>2. check[c].status = "checking" /\ binding = tick[p].token
      BY <1>1, <2>1, <2>3, PlainFacts DEF Current, VInv, Rows
    <3>3. /\ \A d \in Check : check'[d].owner = check[d].owner /\ check'[d].binding = check[d].binding
          /\ \A d \in Check : d # c => check'[d] = check[d]
          /\ check'[c].status = v /\ check'[c].committed
      BY <1>1, <2>1, <3>1, <3>2, SettleFacts
    <3> HIDE DEF o, c, v
    <3>4. ASSUME NEW a \in Artifact, status'[a] = "verified"
          PROVE  \E d \in Check : Offered(a, d)'
      <4>1. CASE a = o
        <5>1. v = "verified"
          BY <1>1, <3>1, <3>4, <4>1
        <5>2. PICK d \in Check : d = c
          BY <2>1
        <5>3. Offered(a, d)'
          BY <1>1, <2>1, <3>2, <3>3, <4>1, <5>1, <5>2 DEF Offered
        <5>4. QED
          BY <5>3
      <4>2. CASE a # o
        <5>1. status[a] = "verified"
          BY <1>1, <3>1, <3>4, <4>2, PlainFacts
        <5>2. PICK d \in Check : Offered(a, d)
          BY <5>1 DEF Grounded
        <5>3. d # c
          BY <2>2, <3>2, <5>2 DEF Offered
        <5>4. Offered(a, d)'
          BY <1>1, <3>3, <5>2, <5>3 DEF Offered
        <5>5. QED
          BY <5>4
      <4>3. QED
        BY <4>1, <4>2
    <3>5. QED
      BY <3>4 DEF Grounded
  <2>4. CASE ~ (Current(p) /\ undecided)
    <3>1. Settle(p, FALSE) /\ UNCHANGED status
      BY <1>3, <2>4 DEF Record, Settle
    <3>2. \A d \in Check : d # c \/ check[c].status # "checking" => check'[d] = check[d]
      BY <1>1, <2>1, <3>1, SettleFacts
    <3>3. \A d \in Check : check[d].committed => check'[d] = check[d]
      BY <2>2, <3>2
    <3>4. QED
      BY <1>1, <3>1, <3>3, GroundedFrame
  <2>5. QED
    BY <2>3, <2>4
<1>4. QED
  BY <1>2, <1>3

LEMMA GroundedNext == ASSUME VInv, Grounded, [Next]_vars PROVE Grounded'
<1>1. ASSUME UNCHANGED <<binding, check>>, NEW o \in Owner, NEW s \in {"pending", "sent", "incompatible", "cancelled"},
             status' = status \/ status' = [status EXCEPT ![o] = s]
      PROVE  Grounded'
  <2>1. \A a \in Artifact : status'[a] = "verified" => status[a] = "verified"
    BY <1>1, PlainFacts DEF VInv, VTypeOK
  <2>2. QED
    BY <1>1, <2>1, GroundedFrame
<1>2. ASSUME UNCHANGED <<binding, check, status>> PROVE Grounded'
  BY <1>2, GroundedFrame
<1>3. CASE Environment
  <2>1. ASSUME NEW o \in Owner, Submit(o) PROVE Grounded'
    BY <1>1, <2>1 DEF Submit
  <2>2. ASSUME NEW o \in Owner, SendCorrection(o) PROVE Grounded'
    BY <1>1, <2>2 DEF SendCorrection
  <2>3. QED
    BY <1>2, <1>3, <2>1, <2>2
    DEF Environment, WorldReturns, TimePasses, WorldChanges, Crash, DeadlinePasses, StopGroup, tableVars
<1>4. ASSUME NEW p \in Process, Ticks(p) PROVE Grounded'
  <2>1. tick[p].owner \in Owner \cup {0} /\ tick[p].seen \in Identity \cup {NoIdentity}
    BY TickFacts DEF Tick
  <2>2. CASE BindIdentity(p) \/ Rebind(p)
    BY <2>1, <2>2, GroundedBind DEF BindIdentity, Rebind
  <2>3. CASE SetAside(p)
    <3>1. tick[p].owner \in Owner
      BY <2>3, TickFacts DEF SetAside, At, Good, Holding
    <3>2. QED
      BY <1>1, <2>3, <3>1 DEF SetAside
  <2>4. CASE Refused(p)
    <3>1. tick[p].owner \in Owner
      BY <2>4, TickFacts DEF Refused, At, Good, Holding
    <3>2. UNCHANGED <<binding, check>>
      BY <2>4 DEF Refused
    <3>3. \/ status' = [status EXCEPT ![tick[p].owner] = "incompatible"]
          \/ status' = [status EXCEPT ![tick[p].owner] = "cancelled"]
          \/ status' = status
      BY <2>4 DEF Refused, VInv, VTypeOK
    <3>4. QED
      BY <1>1, <3>1, <3>2, <3>3
  <2>5. CASE Begin(p)
    BY <2>5, GroundedBegin
  <2>6. CASE Record(p)
    BY <2>6, GroundedRecord
  <2>7. CASE StartTick(p) \/ (\E a \in Artifact : PickArtifact(p, a)) \/ PickTarget(p) \/ EnsureContext(p)
             \/ Busy(p) \/ RunLean(p) \/ ProbeAgain(p)
    BY <1>2, <2>7 DEF StartTick, PickArtifact, PickTarget, EnsureContext, Busy, RunLean, ProbeAgain, tableVars
  <2>8. QED
    BY <1>4, <2>2, <2>3, <2>4, <2>5, <2>6, <2>7 DEF Ticks
<1>5. CASE UNCHANGED vars
  BY <1>2, <1>5 DEF vars, tableVars
<1>6. QED
  BY <1>3, <1>4, <1>5 DEF Next

\* What is offered as verified was verified under the identity bound now, by a check begun under
\* this revision of the binding, and a correction is judged under the binding it was sent out with
\* (bind_group_artifact_verifier, checked_group_artifact, reserve_check).
THEOREM JudgedSafely == Spec => []JudgedUnderBinding
<1>1. Init => Grounded
  BY PlainFacts DEF Init, Grounded
<1>2. VInv /\ Grounded /\ [Next]_vars => Grounded'
  BY GroundedNext
<1>3. VInv /\ Grounded => JudgedUnderBinding
  BY DEF JudgedUnderBinding, VInv, Bindings, Grounded
<1>4. QED
  BY <1>1, <1>2, <1>3, Invariance, PTL DEF Spec

-------------------------------------------------------------------------------
(* The Lean budget of a graph group: the inductive invariant *)

\* A reservation is held by a check in use, at the full deadline until the check has ended.
Books ==
  \A c \in Check :
    /\ check[c].reserved => check[c].owner # 0
    /\ check[c].reserved /\ check[c].status = "checking" => check[c].charge = Deadline

\* What is reserved is within the limits, and leaves the tail where the reserve fits.
KeptFor(g) ==
  /\ Cardinality(Reserved(g)) <= MaxOps[g]
  /\ Cost(g) < MaxLean[g] + (IF g \in Reserve THEN 1 ELSE Deadline)
  /\ ReserveFits(g) => /\ Cardinality(Reserved(g)) + Tail(g) <= MaxOps[g]
                       /\ Cost(g) + Tail(g) * CheckTime <= MaxLean[g]
Kept == \A g \in Graph : KeptFor(g)

\* A target that a tick has found refused is so because the reserved checks are spent.
Depleted(o) == ReserveFits(GroupOf[o]) => Cardinality(TargetChecks(GroupOf[o])) >= Slots[GroupOf[o]]
Refusing ==
  \A p \in Process :
    tick[p].at = "refused" /\ tick[p].owner \in Target \ Correction => Depleted(tick[p].owner)

BudgetInv == Books /\ Kept /\ Refusing /\ TargetNotCrowded

\* Sums of charges, for a table of checks.
ChargeOf(t, S) == MapThenSumSet(LAMBDA c : t[c].charge, S)

LEMMA CostIs ==
  ASSUME NEW g
  PROVE  Cost(g) = ChargeOf(check, Reserved(g)) /\ Cost(g)' = ChargeOf(check', Reserved(g)')
<1>1. Cost(g) = ChargeOf(check, Reserved(g))  BY DEF Cost, ChargeOf
<1>2. Cost(g)' = ChargeOf(check', Reserved(g)')
  BY DEF Cost, ChargeOf, MapThenSumSet, MapThenFoldSet
<1>3. QED  BY <1>1, <1>2

LEMMA ChargeSum ==
  ASSUME NEW t, NEW S \in SUBSET Check
  PROVE  ChargeOf(t, S) = SumOver([c \in Check |-> t[c].charge], S)
<1> DEFINE f == [c \in Check |-> t[c].charge]
           P(it) == it = [s \in SUBSET S |-> IF s = {} THEN 0
                                             ELSE t[Pick(s)].charge + it[s \ {Pick(s)}]]
           h == CHOOSE it : P(it)
<1>1. ChargeOf(t, S) = h[S]
  BY DEF ChargeOf, MapThenSumSet, MapThenFoldSet, Pick
<1>2. IsFiniteSet(S)  BY OwnerAssumption, FS_Subset
<1>3. \A s \in SUBSET S : s # {} => Pick(s) \in Check /\ f[Pick(s)] = t[Pick(s)].charge
  BY PickIn
<1> HIDE DEF f
<1>4. \A it : P(it) <=> Unfolds(it, f, S)
  <2>1. SUFFICES ASSUME NEW it PROVE P(it) <=> Unfolds(it, f, S)  OBVIOUS
  <2>2. [s \in SUBSET S |-> IF s = {} THEN 0 ELSE t[Pick(s)].charge + it[s \ {Pick(s)}]]
          = [s \in SUBSET S |-> IF s = {} THEN 0 ELSE f[Pick(s)] + it[s \ {Pick(s)}]]
    BY <1>3
  <2>3. QED  BY <2>2 DEF Unfolds
<1>5. \E it : P(it)  BY <1>2, <1>4, UnfoldsExists
<1>6. P(h)
  <2> HIDE DEF P
  <2>1. QED  BY <1>5
<1> HIDE DEF h, P
<1>7. h[S] = SumOver(f, S)  BY <1>2, <1>4, <1>6, SumIs
<1>8. QED  BY <1>1, <1>7 DEF f

LEMMA ReservedFacts ==
  ASSUME VInv, NEW g
  PROVE  /\ Reserved(g) \subseteq Check /\ IsFiniteSet(Reserved(g))
         /\ TargetChecks(g) \subseteq Reserved(g) /\ IsFiniteSet(TargetChecks(g))
         /\ Cardinality(Reserved(g)) \in Nat /\ Cardinality(TargetChecks(g)) \in Nat
         /\ Cost(g) \in Nat
         /\ g \in Graph => Tail(g) \in Nat /\ MaxOps[g] \in Nat /\ MaxLean[g] \in Nat /\ Slots[g] \in 1..2
<1>1. Reserved(g) \subseteq Check /\ TargetChecks(g) \subseteq Reserved(g)  BY DEF Reserved, TargetChecks
<1>2. IsFiniteSet(Reserved(g)) /\ IsFiniteSet(TargetChecks(g))  BY <1>1, OwnerAssumption, FS_Subset
<1>3. Cardinality(Reserved(g)) \in Nat /\ Cardinality(TargetChecks(g)) \in Nat
  BY <1>2, FS_CardinalityType
<1>4. Cost(g) \in Nat
  <2> DEFINE f == [c \in Check |-> check[c].charge]
  <2>1. Cost(g) = SumOver(f, Reserved(g))  BY <1>1, ChargeSum, CostIs
  <2>2. \A c \in Reserved(g) : f[c] \in Nat
    BY <1>1, BudgetAssumption DEF VInv, VTypeOK, CheckRow
  <2> HIDE DEF f
  <2>3. QED  BY <1>2, <2>1, <2>2, SumNat
<1>5. g \in Graph => /\ MaxOps[g] \in Nat /\ MaxLean[g] \in Nat /\ Slots[g] \in 1..2
  BY OwnerAssumption, BudgetAssumption
<1>6. g \in Graph => Tail(g) \in Nat
  BY <1>3, <1>5 DEF Tail
<1>7. QED  BY <1>1, <1>2, <1>3, <1>4, <1>5, <1>6

\* One slot of the tail, in time.
LEMMA SlotTime ==
  ASSUME NEW n \in Nat, n > 0
  PROVE  /\ n * CheckTime = (n - 1) * CheckTime + CheckTime /\ n * CheckTime >= CheckTime
         /\ CheckTime \in Nat /\ CheckTime > 0
         /\ (n - 1) * CheckTime \in Nat
<1>1. CheckTime \in Nat /\ CheckTime > 0  BY BudgetAssumption
<1>2. n - 1 \in Nat  OBVIOUS
<1>3. (n - 1) * CheckTime \in Nat  BY <1>1, <1>2
<1>4. n * CheckTime = (n - 1) * CheckTime + CheckTime  BY <1>1
<1>5. QED  BY <1>1, <1>3, <1>4

\* Steps that reserve nothing and charge nothing more.
LEMMA KeptFrame ==
  ASSUME VInv, VInv', Kept,
         \A c \in Check : /\ check'[c].reserved = check[c].reserved /\ check'[c].owner = check[c].owner
                          /\ check'[c].charge <= check[c].charge
  PROVE  Kept' /\ \A g \in Graph : TargetChecks(g)' = TargetChecks(g)
<1>1. \A g : Reserved(g)' = Reserved(g)  BY DEF Reserved
<1>2. \A g : TargetChecks(g)' = TargetChecks(g)  BY <1>1 DEF TargetChecks, Reserved
<1>3. SUFFICES ASSUME NEW g \in Graph PROVE KeptFor(g)'  BY <1>2 DEF Kept
<1>4. Tail(g)' = Tail(g)  BY <1>2 DEF Tail
<1>5. Cost(g)' <= Cost(g) /\ Cost(g)' \in Nat
  <2> DEFINE f == [c \in Check |-> check'[c].charge]
             h == [c \in Check |-> check[c].charge]
  <2>1. Reserved(g) \subseteq Check /\ IsFiniteSet(Reserved(g))  BY ReservedFacts
  <2>2. Cost(g)' = SumOver(f, Reserved(g)) /\ Cost(g) = SumOver(h, Reserved(g))
    BY <1>1, <2>1, ChargeSum, CostIs
  <2>3. \A c \in Reserved(g) : f[c] \in Nat /\ h[c] \in Nat /\ f[c] <= h[c]
    BY <2>1, BudgetAssumption DEF VInv, VTypeOK, CheckRow
  <2> HIDE DEF f, h
  <2>4. QED  BY <2>1, <2>2, <2>3, SumMono, SumNat
<1>6. Cost(g) \in Nat /\ Tail(g) \in Nat /\ MaxLean[g] \in Nat  BY ReservedFacts
<1>7. KeptFor(g)  BY DEF Kept
<1>8. Tail(g) * CheckTime \in Nat  BY <1>6, BudgetAssumption
<1>9. ReserveFits(g)' = ReserveFits(g)  BY DEF ReserveFits
<1>10. QED
  <2>1. Cost(g)' < MaxLean[g] + (IF g \in Reserve THEN 1 ELSE Deadline)
    BY <1>5, <1>6, <1>7, BudgetAssumption DEF KeptFor
  <2>2. ReserveFits(g) => Cost(g)' + Tail(g) * CheckTime <= MaxLean[g]
    BY <1>5, <1>6, <1>7, <1>8 DEF KeptFor
  <2>3. QED  BY <1>1, <1>4, <1>7, <1>9, <2>1, <2>2 DEF KeptFor

\* What a new reservation does to the budget of its group, and to no other.
LEMMA ReserveFrame ==
  ASSUME VInv, VInv', NEW k \in Check, NEW o \in Composed, check[k].owner = 0, Books,
         \A c \in Check \ {k} : /\ check'[c].reserved = check[c].reserved
                                /\ check'[c].owner = check[c].owner /\ check'[c].charge = check[c].charge,
         check'[k].owner = o, check'[k].reserved = (GroupOf[o] \in Graph),
         GroupOf[o] \in Graph => check'[k].charge = Deadline,
         NEW g \in Graph
  PROVE  /\ g # GroupOf[o] => /\ Reserved(g)' = Reserved(g) /\ TargetChecks(g)' = TargetChecks(g)
                              /\ Cost(g)' = Cost(g)
         /\ g = GroupOf[o] => /\ Cardinality(Reserved(g))' = Cardinality(Reserved(g)) + 1
                              /\ Cardinality(TargetChecks(g))' =
                                   Cardinality(TargetChecks(g)) + (IF o \in Target THEN 1 ELSE 0)
                              /\ Cost(g)' = Cost(g) + Deadline
<1>1. ~ check[k].reserved /\ k \notin Reserved(g) /\ k \notin TargetChecks(g)
  BY DEF Books, Reserved, TargetChecks
<1>2. /\ Reserved(g) \subseteq Check /\ IsFiniteSet(Reserved(g)) /\ IsFiniteSet(TargetChecks(g))
      /\ Reserved(g)' \subseteq Check /\ Cost(g) \in Nat
      /\ Cardinality(Reserved(g)) \in Nat /\ Cardinality(TargetChecks(g)) \in Nat
  BY ReservedFacts DEF Reserved
<1> DEFINE f == [c \in Check |-> check'[c].charge]
           h == [c \in Check |-> check[c].charge]
<1>3. /\ Cost(g) = SumOver(h, Reserved(g)) /\ Cost(g)' = SumOver(f, Reserved(g)')
  BY <1>2, ChargeSum, CostIs
<1>4. /\ \A c \in Reserved(g) : f[c] = h[c] /\ f[c] \in Nat
      /\ GroupOf[o] \in Graph => f[k] = Deadline
  BY <1>1, <1>2, BudgetAssumption DEF VInv, VTypeOK, CheckRow
<1> HIDE DEF f, h
<1>5. SumOver(f, Reserved(g)) = SumOver(h, Reserved(g))  BY <1>2, <1>4, SumAgree
<1>6. CASE g # GroupOf[o]
  <2>1. Reserved(g)' = Reserved(g)  BY <1>1, <1>6 DEF Reserved
  <2>2. TargetChecks(g)' = TargetChecks(g)
    BY <1>6, <1>1 DEF TargetChecks, Reserved
  <2>3. QED  BY <1>3, <1>5, <1>6, <2>1, <2>2
<1>7. CASE g = GroupOf[o]
  <2>1. Reserved(g)' = Reserved(g) \cup {k}
    BY <1>1, <1>7 DEF Reserved
  <2>2. TargetChecks(g)' = IF o \in Target THEN TargetChecks(g) \cup {k} ELSE TargetChecks(g)
    BY <1>1, <1>7 DEF TargetChecks, Reserved
  <2>3. Cardinality(Reserved(g) \cup {k}) = Cardinality(Reserved(g)) + 1
    BY <1>1, <1>2, FS_AddElement
  <2>4. Cardinality(TargetChecks(g) \cup {k}) = Cardinality(TargetChecks(g)) + 1
    BY <1>1, <1>2, FS_AddElement
  <2>5. SumOver(f, Reserved(g) \cup {k}) = Deadline + SumOver(f, Reserved(g))
    <3>1. f[k] = Deadline /\ f[k] \in Nat  BY <1>4, <1>7, BudgetAssumption
    <3>2. QED  BY <1>1, <1>2, <1>4, <3>1, SumAdd
  <2>6. Cost(g)' = Cost(g) + Deadline
    BY <1>2, <1>3, <1>5, <2>1, <2>5, BudgetAssumption
  <2>7. Cardinality(TargetChecks(g))' = Cardinality(TargetChecks(g)) + (IF o \in Target THEN 1 ELSE 0)
    BY <1>2, <2>2, <2>4
  <2>8. QED  BY <1>7, <2>1, <2>3, <2>6, <2>7
<1>8. QED  BY <1>6, <1>7

\* A refusal other than for the binding or the deadline means that the reserve is spent.
LEMMA RefusedDepleted ==
  ASSUME VInv, Kept, NEW o \in Target \ (Plain \cup Correction), NEW token, Refusals(o, token) # {}
  PROVE  Depleted(o)
<1> DEFINE g == GroupOf[o]
<1>1. SUFFICES ASSUME ReserveFits(g), Cardinality(TargetChecks(g)) < Slots[g] PROVE FALSE
  <2>1. g \in Graph  BY DEF Refusals
  <2>2. Cardinality(TargetChecks(g)) \in Nat /\ Slots[g] \in 1..2  BY <2>1, ReservedFacts
  <2>3. QED  BY <1>1, <2>2 DEF Depleted
<1>2. g \in Graph /\ g \in Reserve /\ Deadline <= CheckTime
  BY <1>1, OwnerAssumption DEF ReserveFits
<1>3. KeptFor(g)  BY <1>2 DEF Kept
<1>4. BudgetSpent(g) \/ TailInvaded(g, o)
  BY <1>2, OwnerAssumption DEF Refusals, Rebound
<1>5. /\ Cardinality(Reserved(g)) \in Nat /\ Cardinality(TargetChecks(g)) \in Nat
      /\ Cost(g) \in Nat /\ Tail(g) \in Nat /\ MaxOps[g] \in Nat /\ MaxLean[g] \in Nat
      /\ Slots[g] \in 1..2
  BY <1>2, ReservedFacts
<1>6. Tail(g) > 0  BY <1>1, <1>2, <1>5 DEF Tail
<1> HIDE DEF g
<1>7. /\ Tail(g) * CheckTime = (Tail(g) - 1) * CheckTime + CheckTime /\ Tail(g) * CheckTime >= CheckTime
      /\ CheckTime \in Nat /\ CheckTime > 0 /\ (Tail(g) - 1) * CheckTime \in Nat
  BY <1>5, <1>6, SlotTime
<1>8. /\ Cardinality(Reserved(g)) + Tail(g) <= MaxOps[g]
      /\ Cost(g) + Tail(g) * CheckTime <= MaxLean[g]
  BY <1>1, <1>3 DEF KeptFor
<1>9. ~ BudgetSpent(g)  BY <1>5, <1>6, <1>7, <1>8 DEF BudgetSpent
<1>10. ~ TailInvaded(g, o)
  <2>1. (IF o \in Target /\ Tail(g) > 0 THEN Tail(g) - 1 ELSE Tail(g)) = Tail(g) - 1  BY <1>6
  <2>2. ~ Cardinality(Reserved(g)) + 1 + (Tail(g) - 1) > MaxOps[g]  BY <1>5, <1>8
  <2>3. ~ Cost(g) + Deadline + (Tail(g) - 1) * CheckTime > MaxLean[g]
    BY <1>2, <1>5, <1>7, <1>8, BudgetAssumption
  <2>4. QED  BY <2>1, <2>2, <2>3 DEF TailInvaded
<1>11. QED  BY <1>4, <1>9, <1>10

\* A check that nothing refuses keeps its group within its limits.
LEMMA ReserveKept ==
  ASSUME VInv, VInv', Books, Kept, NEW k \in Check, NEW o \in Composed, NEW token, check[k].owner = 0,
         \A c \in Check \ {k} : /\ check'[c].reserved = check[c].reserved
                                /\ check'[c].owner = check[c].owner /\ check'[c].charge = check[c].charge,
         check'[k].owner = o, check'[k].reserved = (GroupOf[o] \in Graph),
         GroupOf[o] \in Graph => check'[k].charge = Deadline,
         Refusals(o, token) = {}
  PROVE  /\ Kept'
         /\ \A g \in Graph : Cardinality(TargetChecks(g))' >= Cardinality(TargetChecks(g))
<1>1. \A g \in Graph :
        /\ g # GroupOf[o] => /\ Reserved(g)' = Reserved(g) /\ TargetChecks(g)' = TargetChecks(g)
                             /\ Cost(g)' = Cost(g)
        /\ g = GroupOf[o] => /\ Cardinality(Reserved(g))' = Cardinality(Reserved(g)) + 1
                             /\ Cardinality(TargetChecks(g))' =
                                  Cardinality(TargetChecks(g)) + (IF o \in Target THEN 1 ELSE 0)
                             /\ Cost(g)' = Cost(g) + Deadline
  BY ReserveFrame
<1>2. SUFFICES ASSUME NEW g \in Graph
               PROVE  KeptFor(g)' /\ Cardinality(TargetChecks(g))' >= Cardinality(TargetChecks(g))
  BY DEF Kept
<1>3. KeptFor(g)  BY DEF Kept
<1>4. /\ Cardinality(Reserved(g)) \in Nat /\ Cardinality(TargetChecks(g)) \in Nat
      /\ Cost(g) \in Nat /\ Tail(g) \in Nat /\ MaxOps[g] \in Nat /\ MaxLean[g] \in Nat
      /\ Slots[g] \in 1..2
  BY ReservedFacts
<1>5. CASE g # GroupOf[o]
  <2>1. Tail(g)' = Tail(g)  BY <1>1, <1>5 DEF Tail
  <2>2. QED  BY <1>1, <1>3, <1>4, <1>5, <2>1 DEF KeptFor, ReserveFits
<1>6. CASE g = GroupOf[o]
  <2> DEFINE rest == IF o \in Target /\ Tail(g) > 0 THEN Tail(g) - 1 ELSE Tail(g)
  <2>1. ~ BudgetSpent(g) /\ ~ TailInvaded(g, o)
    BY <1>6 DEF Refusals
  <2>2. /\ Cardinality(Reserved(g)) < MaxOps[g] /\ Cost(g) < MaxLean[g]
    BY <1>4, <2>1 DEF BudgetSpent
  <2>3. rest \in Nat  BY <1>4
  <2>4. g \in Reserve => /\ Cardinality(Reserved(g)) + 1 + rest <= MaxOps[g]
                         /\ Cost(g) + Deadline + rest * CheckTime <= MaxLean[g]
    <3>1. rest * CheckTime \in Nat  BY <2>3, BudgetAssumption
    <3>2. g \in Reserve => /\ ~ Cardinality(Reserved(g)) + 1 + rest > MaxOps[g]
                           /\ ~ Cost(g) + Deadline + rest * CheckTime > MaxLean[g]
      BY <2>1 DEF TailInvaded
    <3> HIDE DEF rest
    <3>3. QED  BY <1>4, <2>3, <3>1, <3>2, BudgetAssumption
  <2>5. Tail(g)' = rest
    BY <1>1, <1>4, <1>6 DEF Tail
  <2>6. rest * CheckTime \in Nat  BY <2>3, BudgetAssumption
  <2> HIDE DEF rest
  <2>7. Cardinality(Reserved(g))' <= MaxOps[g]  BY <1>1, <1>4, <1>6, <2>2
  <2>8. Cost(g)' < MaxLean[g] + (IF g \in Reserve THEN 1 ELSE Deadline)
    BY <1>1, <1>4, <1>6, <2>2, <2>4, <2>6, BudgetAssumption
  <2>9. ReserveFits(g) => /\ Cardinality(Reserved(g))' + Tail(g)' <= MaxOps[g]
                          /\ Cost(g)' + Tail(g)' * CheckTime <= MaxLean[g]
    BY <1>1, <1>6, <2>3, <2>4, <2>5, <1>4 DEF ReserveFits
  <2>10. ReserveFits(g)' = ReserveFits(g)  BY DEF ReserveFits
  <2>11. Cardinality(TargetChecks(g))' >= Cardinality(TargetChecks(g))  BY <1>1, <1>4, <1>6
  <2>12. QED  BY <2>7, <2>8, <2>9, <2>10, <2>11 DEF KeptFor
<1>7. QED  BY <1>5, <1>6

-------------------------------------------------------------------------------
(* The Lean budget: no step breaks it *)

\* The reserve of a group is never given back.
LEMMA DepletedStays ==
  ASSUME VInv, VInv', NEW o,
         \A g \in Graph : Cardinality(TargetChecks(g))' >= Cardinality(TargetChecks(g)), Depleted(o)
  PROVE  Depleted(o)'
<1> DEFINE g == GroupOf[o]
<1>1. SUFFICES ASSUME ReserveFits(g) PROVE Cardinality(TargetChecks(g))' >= Slots[g]
  BY DEF Depleted, ReserveFits
<1>2. g \in Graph  BY <1>1, OwnerAssumption DEF ReserveFits
<1>3. Cardinality(TargetChecks(g)) \in Nat /\ Slots[g] \in 1..2  BY <1>2, ReservedFacts
<1>4. Cardinality(TargetChecks(g))' \in Nat
  <2>1. TargetChecks(g)' \subseteq Check  BY DEF TargetChecks, Reserved
  <2>2. QED  BY <2>1, OwnerAssumption, FS_Subset, FS_CardinalityType
<1>5. Cardinality(TargetChecks(g)) >= Slots[g]  BY <1>1 DEF Depleted
<1> HIDE DEF g
<1>6. QED  BY <1>2, <1>3, <1>4, <1>5

\* The rest of the invariant follows where targets are cancelled and found refused truthfully.
LEMMA BudgetFrame ==
  ASSUME VInv, VInv', BudgetInv, Books', Kept',
         \A g \in Graph : Cardinality(TargetChecks(g))' >= Cardinality(TargetChecks(g)),
         \A p \in Process : tick'[p].at = "refused" /\ tick'[p].owner \in Target \ Correction =>
           tick'[p] = tick[p] \/ Depleted(tick'[p].owner),
         \A t \in Target \ (Plain \cup Correction) :
           status'[t] = "cancelled" => status[t] = "cancelled" \/ Depleted(t)
  PROVE  BudgetInv'
<1>1. Refusing'
  <2>1. ASSUME NEW p \in Process, NEW o, tick'[p].at = "refused", tick'[p].owner = o,
               o \in Target \ Correction
        PROVE  Depleted(o)'
    <3>1. Depleted(o)  BY <2>1 DEF BudgetInv, Refusing
    <3>2. QED  BY <3>1, DepletedStays
  <2>2. QED  BY <2>1 DEF Refusing, Depleted, ReserveFits, TargetChecks, Reserved
<1>2. TargetNotCrowded'
  <2>1. SUFFICES ASSUME NEW t \in Target \ (Plain \cup Correction), status'[t] = "cancelled"
                 PROVE  Depleted(t)'
    BY DEF TargetNotCrowded, Depleted, ReserveFits, TargetChecks, Reserved
  <2>2. Depleted(t)
    BY <2>1 DEF BudgetInv, TargetNotCrowded, Depleted
  <2>3. QED  BY <2>2, DepletedStays
<1>3. QED  BY <1>1, <1>2 DEF BudgetInv

LEMMA SameChecks ==
  ASSUME VInv, VInv', BudgetInv, UNCHANGED check,
         \A p \in Process : tick'[p].at = "refused" => tick'[p] = tick[p],
         \A t \in Target \ (Plain \cup Correction) :
           status'[t] = "cancelled" => status[t] = "cancelled" \/ Depleted(t)
  PROVE  BudgetInv'
<1>1. Books'  BY DEF BudgetInv, Books
<1>2. \A c \in Check : check[c].charge <= check[c].charge
  BY BudgetAssumption DEF VInv, VTypeOK, CheckRow
<1>3. Kept' /\ \A g \in Graph : TargetChecks(g)' = TargetChecks(g)
  BY <1>2, KeptFrame DEF BudgetInv
<1>4. \A g \in Graph : Cardinality(TargetChecks(g))' >= Cardinality(TargetChecks(g))
  BY <1>3, ReservedFacts
<1>5. QED  BY <1>1, <1>3, <1>4, BudgetFrame

\* The tick of one process moves on to a step other than a refusal.
LEMMA GoesQuiet ==
  ASSUME VInv, NEW p \in Process, NEW t, t.at # "refused", Goes(p, t)
  PROVE  \A q \in Process : tick'[q].at = "refused" => tick'[q] = tick[q]
<1>1. tick \in [Process -> Tick]  BY DEF VInv, VTypeOK
<1>2. tick'[p] = t /\ \A q \in Process \ {p} : tick'[q] = tick[q]  BY <1>1 DEF Goes
<1>3. QED  BY <1>2

LEMMA EnvironmentBudget == ASSUME VInv, VInv', BudgetInv, Environment PROVE BudgetInv'
<1>1. UNCHANGED check
  BY DEF Environment, WorldReturns, TimePasses, WorldChanges, Crash, Submit, SendCorrection,
         DeadlinePasses, StopGroup, tableVars
<1>2. \A p \in Process : tick'[p].at = "refused" => tick'[p] = tick[p]
  <2>1. ASSUME NEW p \in Process, Crash(p)
        PROVE  \A q \in Process : tick'[q].at = "refused" => tick'[q] = tick[q]
    <3>1. Idle.at # "refused" /\ Goes(p, Idle)  BY <2>1 DEF Idle, Crash, Goes
    <3>2. QED  BY <3>1, GoesQuiet
  <2>2. UNCHANGED tick \/ \E p \in Process : Crash(p)
    BY DEF Environment, WorldReturns, TimePasses, WorldChanges, Submit, SendCorrection,
           DeadlinePasses, StopGroup
  <2>3. QED  BY <2>1, <2>2
<1>3. \A t \in Owner : status'[t] = "cancelled" => status[t] = "cancelled"
  <2>1. status \in [Owner -> Outcome \cup {"absent", "sent", "pending", "cancelled", "incompatible"}]
    BY DEF VInv, VTypeOK
  <2>2. \/ UNCHANGED status
        \/ \E o \in Owner : \/ status' = [status EXCEPT ![o] = "pending"]
                            \/ status' = [status EXCEPT ![o] = "sent"]
    BY DEF Environment, WorldReturns, TimePasses, WorldChanges, Crash, Submit, SendCorrection,
           DeadlinePasses, StopGroup, tableVars
  <2>3. QED  BY <2>1, <2>2
<1>4. QED  BY <1>1, <1>2, <1>3, PlainFacts, SameChecks

\* Steps of a tick that neither begin nor end a check, nor judge a refusal.
LEMMA TickBudget ==
  ASSUME VInv, VInv', BudgetInv, NEW p \in Process,
         \/ StartTick(p) \/ BindIdentity(p) \/ (\E a \in Artifact : PickArtifact(p, a))
         \/ PickTarget(p) \/ SetAside(p) \/ EnsureContext(p) \/ Busy(p)
         \/ RunLean(p) \/ ProbeAgain(p) \/ Rebind(p)
  PROVE  BudgetInv'
<1>1. UNCHANGED check
  BY DEF StartTick, BindIdentity, PickArtifact, PickTarget, SetAside, EnsureContext, Busy, RunLean,
         ProbeAgain, Rebind, tableVars
<1>2. tick[p] \in Tick /\ Idle \in Tick  BY TickFacts, IdleFacts
<1>3. \A u \in Tick : \A s : [u EXCEPT !.at = s].at = s  BY DEF Tick
<1>4. \E t : t.at # "refused" /\ Goes(p, t)
  <2>1. CASE StartTick(p)
    <3>1. Goes(p, [Idle EXCEPT !.at = "bind", !.seen = world]) \/ Goes(p, [Idle EXCEPT !.at = "pick"])
      BY <2>1 DEF StartTick
    <3>2. /\ [Idle EXCEPT !.at = "bind", !.seen = world].at = "bind"
          /\ [Idle EXCEPT !.at = "pick"].at = "pick"
      BY <1>2 DEF Tick
    <3>3. QED  BY <3>1, <3>2
  <2>2. CASE BindIdentity(p)
    <3>1. Goes(p, [tick[p] EXCEPT !.at = "pick", !.seen = NoIdentity, !.token = binding'])
      BY <2>2 DEF BindIdentity
    <3>2. [tick[p] EXCEPT !.at = "pick", !.seen = NoIdentity, !.token = binding'].at = "pick"
      BY <1>2 DEF Tick
    <3>3. QED  BY <3>1, <3>2
  <2>3. ASSUME NEW a, PickArtifact(p, a) PROVE \E t : t.at # "refused" /\ Goes(p, t)
    <3>1. Goes(p, [tick[p] EXCEPT !.at = "context", !.owner = a])  BY <2>3 DEF PickArtifact
    <3>2. [tick[p] EXCEPT !.at = "context", !.owner = a].at = "context"  BY <1>2 DEF Tick
    <3>3. QED  BY <3>1, <3>2
  <2>4. CASE Goes(p, Idle)  BY <2>4 DEF Idle
  <2>5. CASE PickTarget(p)
    <3>1. \/ Goes(p, Idle)
          \/ \E t \in Target : \/ Goes(p, [tick[p] EXCEPT !.at = "run", !.owner = t])
                               \/ Goes(p, [tick[p] EXCEPT !.at = "begin", !.owner = t])
      BY <2>5 DEF PickTarget
    <3>2. \A o, s : [tick[p] EXCEPT !.at = s, !.owner = o].at = s  BY <1>2 DEF Tick
    <3>3. QED  BY <2>4, <3>1, <3>2
  <2>6. CASE SetAside(p) \/ Busy(p)  BY <2>4, <2>6 DEF SetAside, Busy
  <2>7. CASE EnsureContext(p)
    <3>1. Goes(p, Idle) \/ Goes(p, [tick[p] EXCEPT !.at = "begin"])  BY <2>7 DEF EnsureContext
    <3>2. QED  BY <1>2, <1>3, <2>4, <3>1
  <2>8. CASE RunLean(p)
    <3>1. \E s \in {"probe", "record"} : \E r : Goes(p, [tick[p] EXCEPT !.at = s, !.result = r])
      BY <2>8, Zenon DEF RunLean
    <3>2. \A s, r : [tick[p] EXCEPT !.at = s, !.result = r].at = s  BY <1>2 DEF Tick
    <3>3. QED  BY <3>1, <3>2
  <2>9. CASE ProbeAgain(p)
    <3>1. \/ Goes(p, [tick[p] EXCEPT !.at = "record", !.result = Raised])
          \/ \E s \in {"record", "rebind"} : Goes(p, [tick[p] EXCEPT !.seen = world, !.at = s])
      BY <2>9 DEF ProbeAgain
    <3>2. /\ [tick[p] EXCEPT !.at = "record", !.result = Raised].at = "record"
          /\ \A s : [tick[p] EXCEPT !.seen = world, !.at = s].at = s
      BY <1>2 DEF Tick
    <3>3. QED  BY <3>1, <3>2
  <2>10. CASE Rebind(p)
    <3>1. Goes(p, [tick[p] EXCEPT !.at = "record"])  BY <2>10 DEF Rebind
    <3>2. QED  BY <1>2, <1>3, <3>1
  <2>11. QED  BY <2>1, <2>2, <2>3, <2>5, <2>6, <2>7, <2>8, <2>9, <2>10
<1>5. \A q \in Process : tick'[q].at = "refused" => tick'[q] = tick[q]  BY <1>4, GoesQuiet
<1>6. \A t \in Owner : status'[t] = "cancelled" => status[t] = "cancelled"
  <2>1. status \in [Owner -> Outcome \cup {"absent", "sent", "pending", "cancelled", "incompatible"}]
    BY DEF VInv, VTypeOK
  <2>2. tick[p].seen \in Identity \cup {NoIdentity}  BY <1>2 DEF Tick
  <2>3. CASE BindIdentity(p) \/ Rebind(p)
    <3>1. Bind(tick[p].seen)  BY <2>3 DEF BindIdentity, Rebind
    <3>2. QED  BY <2>2, <3>1, BindFacts
  <2>4. CASE SetAside(p)
    BY <2>1, <2>4 DEF SetAside
  <2>5. CASE ~ (BindIdentity(p) \/ Rebind(p) \/ SetAside(p))
    BY <2>5 DEF StartTick, PickArtifact, PickTarget, EnsureContext, Busy, RunLean, ProbeAgain, tableVars
  <2>6. QED  BY <2>3, <2>4, <2>5
<1>7. QED  BY <1>1, <1>5, <1>6, PlainFacts, SameChecks

LEMMA RefusedBudget == ASSUME VInv, VInv', BudgetInv, NEW p \in Process, Refused(p) PROVE BudgetInv'
<1> DEFINE o == tick[p].owner
<1>1. o \in Owner /\ status \in [Owner -> Outcome \cup {"absent", "sent", "pending", "cancelled", "incompatible"}]
  BY TickFacts DEF Refused, At, Good, Holding, VInv, VTypeOK
<1>2. UNCHANGED check /\ Goes(p, Idle) /\ tick[p].at = "refused"  BY DEF Refused, At
<1>3. Idle.at # "refused"  BY DEF Idle
<1>4. \A q \in Process : tick'[q].at = "refused" => tick'[q] = tick[q]  BY <1>2, <1>3, GoesQuiet
<1>5. \A t \in Owner : status'[t] = "cancelled" => status[t] = "cancelled" \/ t = o
  BY <1>1 DEF Refused
<1>6. o \in Target \ Correction => Depleted(o)  BY <1>2 DEF BudgetInv, Refusing
<1>7. QED  BY <1>2, <1>4, <1>5, <1>6, PlainFacts, SameChecks

\* An abandoned check keeps its slot, at the charge it had.
LEMMA AbandonCharge ==
  ASSUME VInv, NEW o \in Owner, NEW c \in Check
  PROVE  Abandon(o)[c].reserved = check[c].reserved /\ Abandon(o)[c].charge = check[c].charge
<1> DEFINE k == check[c]
<1>1. k \in CheckRow /\ Abandon(o)[c] \in {k, [k EXCEPT !.status = "abandoned", !.finished = TRUE]}
  BY DEF VInv, VTypeOK, Abandon
<1> HIDE DEF k
<1>2. LET n == [k EXCEPT !.status = "abandoned", !.finished = TRUE] IN
      n.reserved = k.reserved /\ n.charge = k.charge
  BY <1>1 DEF CheckRow
<1>3. QED  BY <1>1, <1>2 DEF k

LEMMA NewCharge ==
  ASSUME NEW o \in Owner, NEW token \in Binding
  PROVE  /\ NewCheck(o, token).reserved = (GroupOf[o] \in Graph)
         /\ GroupOf[o] \in Graph => NewCheck(o, token).charge = Deadline
BY DEF NewCheck, NoCheck

LEMMA BeginBudget == ASSUME VInv, VInv', BudgetInv, NEW p \in Process, Begin(p) PROVE BudgetInv'
<1> DEFINE o == tick[p].owner
           token == tick[p].token
<1>1. /\ o \in Owner /\ o \in Composed /\ o # 0 /\ token \in Binding /\ tick[p] \in Tick
      /\ tick \in [Process -> Tick] /\ UNCHANGED status
  <2>1. tick[p] \in Tick /\ o \in Owner /\ o \notin Plain
    BY TickFacts, PlainFacts DEF Begin, At, Good, Holding
  <2>2. token \in Binding  BY <2>1 DEF Tick
  <2>3. tick \in [Process -> Tick]  BY DEF VInv, VTypeOK
  <2>4. UNCHANGED status  BY DEF Begin
  <2> HIDE DEF o, token
  <2>5. QED  BY <2>1, <2>2, <2>3, <2>4, PlainFacts DEF Composed
<1>2. /\ check \in [Check -> CheckRow]
      /\ \A c \in Check : check[c].owner \in Owner \cup {0} /\ check[c].charge \in 0..Deadline
  BY DEF VInv, VTypeOK, CheckRow
<1>3. \A c \in Check : /\ Abandon(o)[c].owner = check[c].owner
                       /\ Abandon(o)[c].reserved = check[c].reserved
                       /\ Abandon(o)[c].charge = check[c].charge
                       /\ Abandon(o)[c].status \in {check[c].status, "abandoned"}
  BY <1>1, AbandonFacts, AbandonCharge
<1>4. ASSUME NEW r \in Refusals(o, token), check' = Abandon(o),
             Goes(p, [tick[p] EXCEPT !.at = "refused", !.capacity = r = "reserve"])
      PROVE  BudgetInv'
  <2> DEFINE t == [tick[p] EXCEPT !.at = "refused", !.capacity = r = "reserve"]
  <2>1. t.owner = o  BY <1>1 DEF Tick
  <2>2. tick'[p] = t /\ \A q \in Process \ {p} : tick'[q] = tick[q]  BY <1>1, <1>4 DEF Goes
  <2> HIDE DEF t, o, token
  <2>3. Books'  BY <1>3, <1>4 DEF BudgetInv, Books
  <2>4. \A c \in Check : check[c].charge <= check[c].charge  BY <1>2, BudgetAssumption
  <2>5. Kept' /\ \A g \in Graph : TargetChecks(g)' = TargetChecks(g)
    <3>1. \A c \in Check : check'[c] = Abandon(o)[c]  BY <1>4
    <3>2. QED  BY <1>3, <2>4, <3>1, KeptFrame DEF BudgetInv
  <2>6. \A g \in Graph : Cardinality(TargetChecks(g))' >= Cardinality(TargetChecks(g))
    BY <2>5, ReservedFacts
  <2>7. o \notin Plain  BY <1>1 DEF Composed
  <2>8. o \in Target \ Correction => Depleted(o)
    BY <1>4, <2>7, RefusedDepleted DEF BudgetInv
  <2>9. QED  BY <1>1, <2>1, <2>2, <2>3, <2>5, <2>6, <2>8, BudgetFrame
<1>5. ASSUME NEW c \in Free, Refusals(o, token) = {},
             check' = [Abandon(o) EXCEPT ![c] = NewCheck(o, token)],
             Goes(p, [tick[p] EXCEPT !.at = "run", !.check = c])
      PROVE  BudgetInv'
  <2> DEFINE new == NewCheck(o, token)
  <2>1. c \in Check /\ check[c].owner = 0  BY DEF Free, VInv, Rows
  <2>2. /\ new.owner = o /\ new.reserved = (GroupOf[o] \in Graph)
        /\ GroupOf[o] \in Graph => new.charge = Deadline
    BY <1>1, NewCheckFacts, NewCharge
  <2>3. check'[c] = new /\ \A d \in Check \ {c} : check'[d] = Abandon(o)[d]
    <3>1. Abandon(o) \in [Check -> CheckRow]  BY <1>1, AbandonFacts
    <3> HIDE DEF o, token
    <3>2. QED  BY <1>5, <2>1, <3>1 DEF o, token
  <2>4. [tick[p] EXCEPT !.at = "run", !.check = c].at # "refused"  BY <1>1 DEF Tick
  <2>5. \A q \in Process : tick'[q].at = "refused" => tick'[q] = tick[q]
    BY <1>5, <2>4, GoesQuiet
  <2> HIDE DEF new, o, token
  <2>6. \A d \in Check \ {c} : /\ check'[d].reserved = check[d].reserved
                               /\ check'[d].owner = check[d].owner /\ check'[d].charge = check[d].charge
    BY <1>3, <2>3
  <2>7. Books'
    <3>1. ASSUME NEW d \in Check
          PROVE  /\ check'[d].reserved => check'[d].owner # 0
                 /\ check'[d].reserved /\ check'[d].status = "checking" => check'[d].charge = Deadline
      <4>1. CASE d = c  BY <1>1, <2>2, <2>3, <4>1
      <4>2. CASE d # c
        <5>1. check'[d].status \in {check[d].status, "abandoned"}  BY <1>3, <2>3, <4>2
        <5>2. QED  BY <2>6, <4>2, <5>1 DEF BudgetInv, Books
      <4>3. QED  BY <4>1, <4>2
    <3>2. QED  BY <3>1 DEF Books
  <2>8. Kept' /\ \A g \in Graph : Cardinality(TargetChecks(g))' >= Cardinality(TargetChecks(g))
    BY <1>1, <1>5, <2>1, <2>2, <2>3, <2>6, ReserveKept DEF BudgetInv
  <2>9. QED  BY <1>1, <2>5, <2>7, <2>8, BudgetFrame
<1>6. QED
  BY <1>4, <1>5 DEF Begin

\* A check that has ended is charged at most what was reserved for it.
LEMMA SettleCharge ==
  ASSUME VInv, Books, NEW p \in Process, NEW b \in BOOLEAN, Settle(p, b), tick[p].check \in Check,
         NEW d \in Check
  PROVE  check'[d].reserved = check[d].reserved /\ check'[d].charge <= check[d].charge
<1> DEFINE c == tick[p].check
           r == tick[p].result
           k == check[c]
           charge == IF k.reserved THEN r.elapsed ELSE 0
           n == [k EXCEPT !.status = r.outcome, !.charge = charge,
                          !.finished = TRUE, !.committed = b, !.ran = r.ran]
<1>1. /\ check \in [Check -> CheckRow] /\ c \in Check /\ k \in CheckRow
      /\ r.elapsed \in 0..Deadline /\ check[d].charge \in 0..Deadline /\ k.charge \in 0..Deadline
  BY DEF VInv, VTypeOK, Tick, Result, CheckRow
<1>2. CASE k.status # "checking"
  BY <1>1, <1>2, BudgetAssumption DEF Settle
<1>3. CASE k.status = "checking"
  <2>1. check' = [check EXCEPT ![c] = n]
    BY <1>3 DEF Settle
  <2>2. charge <= k.charge
    BY <1>1, <1>3, BudgetAssumption DEF Books
  <2> HIDE DEF charge, k, r
  <2>3. n.reserved = k.reserved /\ n.charge = charge
    BY <1>1 DEF CheckRow
  <2>4. check'[c] = n /\ (d # c => check'[d] = check[d])
    <3> HIDE DEF n, c
    <3>1. QED  BY <1>1, <2>1
  <2> HIDE DEF n
  <2>5. CASE d = c  BY <2>2, <2>3, <2>4, <2>5 DEF k
  <2>6. CASE d # c  BY <1>1, <2>4, <2>6, BudgetAssumption
  <2>7. QED  BY <2>5, <2>6
<1>4. QED  BY <1>2, <1>3

LEMMA RecordBudget == ASSUME VInv, VInv', BudgetInv, NEW p \in Process, Record(p) PROVE BudgetInv'
<1> DEFINE o == tick[p].owner
           v == tick[p].result.outcome
<1>1. /\ o \in Owner /\ v \in Outcome /\ tick[p].at = "record"
      /\ o \notin Plain => tick[p].check \in Check
      /\ status \in [Owner -> Outcome \cup {"absent", "sent", "pending", "cancelled", "incompatible"}]
  BY TickFacts DEF Record, At, Good, Holding, Running, VInv, VTypeOK
<1>2. Idle.at # "refused" /\ Goes(p, Idle)  BY DEF Record, Idle
<1>3. \A q \in Process : tick'[q].at = "refused" => tick'[q] = tick[q]  BY <1>2, GoesQuiet
<1>4. \A t \in Owner : status'[t] = "cancelled" => status[t] = "cancelled"
  <2>1. UNCHANGED status \/ status' = [status EXCEPT ![o] = v]  BY DEF Record
  <2>2. v # "cancelled"  BY <1>1 DEF Outcome
  <2>3. QED  BY <1>1, <2>1, <2>2
<1>5. CASE UNCHANGED check  BY <1>3, <1>4, <1>5, PlainFacts, SameChecks
<1>6. ASSUME NEW b \in BOOLEAN, Settle(p, b), o \notin Plain PROVE BudgetInv'
  <2>1. \A d \in Check : check'[d].reserved = check[d].reserved /\ check'[d].charge <= check[d].charge
    BY <1>1, <1>6, SettleCharge DEF BudgetInv
  <2>2. /\ \A d \in Check : check'[d].owner = check[d].owner
        /\ \A d \in Check : check'[d] = check[d] \/ check'[d].status \in Outcome
    BY <1>1, <1>6, SettleFacts
  <2>3. Books'
    BY <2>1, <2>2 DEF BudgetInv, Books, Outcome
  <2>4. Kept' /\ \A g \in Graph : TargetChecks(g)' = TargetChecks(g)
    BY <2>1, <2>2, KeptFrame DEF BudgetInv
  <2>5. \A g \in Graph : Cardinality(TargetChecks(g))' >= Cardinality(TargetChecks(g))
    BY <2>4, ReservedFacts
  <2>6. QED  BY <1>3, <1>4, <2>3, <2>4, <2>5, PlainFacts, BudgetFrame
<1>7. UNCHANGED check \/ \E b \in BOOLEAN : Settle(p, b) /\ o \notin Plain
  <2>1. o \in Plain => UNCHANGED check  BY DEF Record
  <2>2. o \notin Plain => Settle(p, TRUE) \/ Settle(p, FALSE)
    <3> DEFINE accepted == Current(p) /\ IF o \in Artifact THEN status[o] = "pending" ELSE status[o] \notin Outcome
    <3>1. CASE o \notin Plain /\ accepted  BY <3>1 DEF Record, Settle
    <3>2. CASE o \notin Plain /\ ~ accepted  BY <3>2 DEF Record, Settle
    <3>3. QED  BY <3>1, <3>2
  <2>3. QED  BY <2>1, <2>2
<1>8. QED  BY <1>5, <1>6, <1>7

LEMMA InitBudget == Init => BudgetInv
<1> SUFFICES ASSUME Init PROVE BudgetInv  OBVIOUS
<1>1. VInv  BY InitInv
<1>2. \A c \in Check : check[c] = NoCheck  BY DEF Init
<1>3. ~ NoCheck.reserved  BY DEF NoCheck
<1>4. Books  BY <1>2, <1>3 DEF Books
<1>5. \A g : Reserved(g) = {} /\ TargetChecks(g) = {}  BY <1>2, <1>3 DEF Reserved, TargetChecks
<1>6. Kept
  <2>1. SUFFICES ASSUME NEW g \in Graph PROVE KeptFor(g)  BY DEF Kept
  <2>2. Cardinality(Reserved(g)) = 0 /\ Cardinality(TargetChecks(g)) = 0  BY <1>5, FS_EmptySet
  <2>3. Cost(g) = 0  BY <1>5, ChargeSum, CostIs, SumEmpty
  <2>4. /\ MaxOps[g] \in Nat \ {0} /\ MaxLean[g] \in Nat \ {0} /\ Slots[g] \in 1..2
        /\ CheckTime \in Nat /\ Deadline \in Nat \ {0}
    BY OwnerAssumption, BudgetAssumption
  <2>5. ReserveFits(g) => Tail(g) = Slots[g]  BY <2>2, <2>4 DEF ReserveFits, Tail
  <2>6. QED  BY <2>2, <2>3, <2>4, <2>5 DEF KeptFor, ReserveFits
<1>7. Refusing  BY DEF Init, Refusing, Idle
<1>8. TargetNotCrowded
  BY PlainFacts DEF Init, TargetNotCrowded
<1>9. QED  BY <1>4, <1>6, <1>7, <1>8 DEF BudgetInv

LEMMA NextBudget == VInv /\ VInv' /\ BudgetInv /\ [Next]_vars => BudgetInv'
<1> SUFFICES ASSUME VInv, VInv', BudgetInv, [Next]_vars PROVE BudgetInv'  OBVIOUS
<1>1. CASE Environment  BY <1>1, EnvironmentBudget
<1>2. ASSUME NEW p \in Process, Ticks(p) PROVE BudgetInv'
  BY <1>2, TickBudget, BeginBudget, RefusedBudget, RecordBudget DEF Ticks
<1>3. CASE UNCHANGED vars
  <2>1. UNCHANGED <<check, tick, status>>  BY <1>3 DEF vars, tableVars
  <2>2. QED  BY <2>1, SameChecks
<1>4. QED  BY <1>1, <1>2, <1>3 DEF Next

LEMMA BudgetHolds == Spec => []BudgetInv
<1>1. QED
  BY Invariance, InitBudget, NextBudget, PTL DEF Spec

\* A graph group overruns its Lean time by less than one deadline, one with a completion reserve
\* never, and no group its operations, however checks overlap, die or are abandoned (reserve_check,
\* lean_cost).
THEOREM LeanIsBounded == Spec => []WithinLean
<1>1. BudgetInv => WithinLean
  BY DEF BudgetInv, Kept, KeptFor, WithinLean
<1>2. QED
  BY <1>1, BudgetHolds, PTL

\* A target is refused its check for want of capacity only when the checks reserved for targets are
\* spent, for every reserve that fits its limits (completion_tail, reserve_check).
THEOREM TargetKeepsItsCheck == Spec => []TargetNotCrowded
<1>1. BudgetInv => TargetNotCrowded
  BY DEF BudgetInv
<1>2. QED
  BY <1>1, BudgetHolds, PTL

===============================================================================
