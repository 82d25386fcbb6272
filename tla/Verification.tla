----------------------------- MODULE Verification -----------------------------
(***************************************************************************)
(* Verification of composed proofs: Coordinator.tick (server.py) in one or *)
(* several processes, the verifier binding and the artifacts               *)
(* (group_artifacts.py), the ownership of checks (proof_context.py) and    *)
(* the Lean budget of graph groups (frontier.py).                          *)
(*                                                                         *)
(* A tick is a sequence of short transactions with probes of the verifier  *)
(* and the Lean run between them, so it is a sequence of actions here; in  *)
(* between, the process keeps what it has read in tick[p].  An owner is an *)
(* input to check: an artifact, or a target (an attempt).  Ids are rowids. *)
(***************************************************************************)
EXTENDS Naturals, FiniteSets, FiniteSetsExt

CONSTANTS
  Process,         \* coordinator processes
  Artifact,        \* rowids of group_artifacts
  Target,          \* rowids of attempts
  Plain,           \* the targets without a proof context: runs outside graph groups
  Group, GroupOf,  \* agent groups, and the group of each owner that is not plain
  Graph,           \* the groups whose loop is in graph mode
  Standalone,      \* artifacts of fixed groups without prerequisites, checked by themselves
  Foreign,         \* artifacts proposed for another environment than the target's
  Correction,      \* owners answering a correction task, tied to the binding it was sent under
  Check,           \* rowids of composed_checks
  Identity, NoIdentity,
  MaxOps, MaxLean, \* graph limits: verification_operations and lean_elapsed_ms of each group
  Deadline,        \* the verifier's operation deadline, in ticks of the coarse clock
  LeanSays,        \* bound: the outcomes of a Lean run that does not raise
  Elapsed,         \* bound: the times it may report
  Reserve,         \* the groups with completion_reserve
  Slots,           \* 1 + target_corrections of each group
  CheckTime,       \* completion_check_ms
  MaxChanges,      \* bound: changes of the verifier installation
  MaxCrashes       \* bound: process restarts

Owner    == Artifact \cup Target
Composed == Owner \ Plain
Outcome  == {"verified", "rejected", "timeout", "verifier_error"}

ASSUME OwnerAssumption ==
  /\ Artifact \cup Target \cup Check \subseteq Nat \ {0}
  /\ Artifact \cap Target = {} /\ Plain \subseteq Target /\ Correction \subseteq Composed
  /\ Foreign \subseteq Artifact
  /\ Standalone \subseteq {a \in Artifact : GroupOf[a] \notin Graph}
  /\ GroupOf \in [Composed -> Group] /\ Reserve \subseteq Graph /\ Graph \subseteq Group
  /\ \A o \in Correction : GroupOf[o] \in Graph
  /\ NoIdentity \notin Identity
  /\ IsFiniteSet(Owner) /\ IsFiniteSet(Check)
ASSUME BudgetAssumption ==
  /\ MaxOps \in [Group -> Nat \ {0}] /\ MaxLean \in [Group -> Nat \ {0}]
  /\ Slots \in [Group -> 1..2] /\ CheckTime \in Nat \ {0} /\ Deadline \in Nat \ {0}
  /\ LeanSays \subseteq Outcome /\ Elapsed \subseteq 0..Deadline
  /\ MaxChanges \in Nat /\ MaxCrashes \in Nat

VARIABLES
  world,    \* the identity a probe of the verifier finds; NoIdentity: none, or the probe raises
  binding,  \* artifact_verifier_binding
  status,   \* group_artifacts.status; for a target its verdict, "pending" before, or "cancelled"
  ident,    \* group_artifacts.verifier_identity
  context,  \* owners with a row in proof_contexts
  frozen,   \* the binding in the manifest of a correction's packet
  phase,    \* the group's loop: open, past its deadline, or stopped
  check,    \* composed_checks, each with its row in frontier_lean_reservations
  owned,    \* verification_ownership: the check that owns an input, 0 if none
  ttl,      \* clock units before the ownership expires
  tick,     \* what each process holds between the transactions of a tick
  changes, crashes

tableVars == <<binding, status, ident, context, frozen, phase, check, owned, ttl>>
vars == <<world, tableVars, tick, changes, crashes>>

Binding == [identity : Identity \cup {NoIdentity}, revision : Nat]
Unbound == [identity |-> NoIdentity, revision |-> 0]

\* charge is the elapsed time, or the deadline while or where that is unknown; ran says that Lean
\* was started for it, which the row's diagnostics tell.
CheckRow == [owner : Owner \cup {0}, binding : Binding,
             status : Outcome \cup {"unused", "checking", "abandoned"},
             reserved : BOOLEAN, finished : BOOLEAN, charge : 0..Deadline,
             committed : BOOLEAN, ran : BOOLEAN]
NoCheck == [owner |-> 0, binding |-> Unbound, status |-> "unused", reserved |-> FALSE,
            finished |-> FALSE, charge |-> 0, committed |-> FALSE, ran |-> FALSE]

Step == {"idle", "bind", "pick", "context", "begin", "refused", "run", "probe", "rebind", "record"}
Result == [outcome : Outcome \cup {"none"}, elapsed : 0..Deadline, ran : BOOLEAN]
NoResult == [outcome |-> "none", elapsed |-> 0, ran |-> FALSE]
StaleResult == [outcome |-> "rejected", elapsed |-> 0, ran |-> FALSE]
Raised      == [outcome |-> "verifier_error", elapsed |-> Deadline, ran |-> FALSE]
Tick == [at : Step, seen : Identity \cup {NoIdentity}, token : Binding, owner : Owner \cup {0},
         check : Check \cup {0}, result : Result, capacity : BOOLEAN]
Idle == [at |-> "idle", seen |-> NoIdentity, token |-> Unbound, owner |-> 0, check |-> 0,
         result |-> NoResult, capacity |-> FALSE]

VTypeOK ==
  /\ world \in Identity \cup {NoIdentity} /\ binding \in Binding
  /\ status \in [Owner -> Outcome \cup {"absent", "sent", "pending", "cancelled", "incompatible"}]
  /\ \A o \in Owner : status[o] = "incompatible" => o \in Artifact
  /\ ident \in [Artifact -> Identity \cup {NoIdentity}]
  /\ context \subseteq Composed /\ frozen \in [Correction -> Binding]
  /\ phase \in [Group -> {"open", "overdue", "stopped"}]
  /\ check \in [Check -> CheckRow]
  /\ owned \in [Owner -> Check \cup {0}] /\ ttl \in [Owner -> 0..1]
  /\ tick \in [Process -> Tick]
  /\ changes \in 0..MaxChanges /\ crashes \in 0..MaxCrashes

-------------------------------------------------------------------------------
(* The Lean budget of a graph group *)

Reserved(g)    == {c \in Check : check[c].reserved /\ GroupOf[check[c].owner] = g}
TargetChecks(g) == {c \in Reserved(g) : check[c].owner \in Target}

\* Fault: only settled checks are paid for.
CostSettled(g) == MapThenSumSet(LAMBDA c : check[c].charge, {c \in Reserved(g) : check[c].finished})
\* lean_cost.
Cost(g) == MapThenSumSet(LAMBDA c : check[c].charge, Reserved(g))

\* completion_tail: target checks the reserve still has to leave room for.
Tail(g) == IF g \in Reserve /\ Cardinality(TargetChecks(g)) < Slots[g]
           THEN Slots[g] - Cardinality(TargetChecks(g)) ELSE 0

\* A correction is checked under the very binding its task was dispatched with.
Rebound(o, token) == o \in Correction /\ (frozen[o] # binding \/ token # frozen[o])

BudgetSpent(g) == Cardinality(Reserved(g)) >= MaxOps[g] \/ Cost(g) >= MaxLean[g]

\* Fault: the tail is counted in operations only.
TailIgnoresTime(g, o) ==
  /\ g \in Reserve
  /\ Cardinality(Reserved(g)) + 1 + Tail(g) - (IF o \in Target /\ Tail(g) > 0 THEN 1 ELSE 0) > MaxOps[g]

\* The check of o would take an operation or time kept for the completion.
TailInvaded(g, o) ==
  LET rest == IF o \in Target /\ Tail(g) > 0 THEN Tail(g) - 1 ELSE Tail(g) IN
  /\ g \in Reserve
  /\ \/ Cardinality(Reserved(g)) + 1 + rest > MaxOps[g]
     \/ Cost(g) + Deadline + rest * CheckTime > MaxLean[g]

\* reserve_check raises FrontierLimit.  Only a dispatched target may drain after the deadline.
Refusals(o, token) ==
  LET g == GroupOf[o] IN
  IF g \notin Graph THEN {}
  ELSE {r \in {"binding", "budget", "reserve", "deadline"} :
          \/ r = "binding"  /\ Rebound(o, token)
          \/ r = "budget"   /\ ~ Rebound(o, token) /\ BudgetSpent(g)
          \/ r = "reserve"  /\ ~ Rebound(o, token) /\ ~ BudgetSpent(g) /\ TailInvaded(g, o)
          \/ r = "deadline" /\ o \in Artifact /\ phase[g] = "overdue"}

-------------------------------------------------------------------------------
(* The world around the loop *)

\* The installation changes, vanishes for a while or comes back.
WorldChanges(i) ==
  /\ i # world /\ changes < MaxChanges
  /\ world' = i /\ changes' = changes + 1
  /\ UNCHANGED <<tableVars, tick, crashes>>

\* An absent identity comes back: not counted, so that it always may.
WorldReturns ==
  /\ world = NoIdentity /\ world' \in Identity
  /\ UNCHANGED <<tableVars, tick, changes, crashes>>

TimePasses ==
  /\ \E o \in Owner : ttl[o] > 0
  /\ ttl' = [o \in Owner |-> 0]
  /\ UNCHANGED <<world, binding, status, ident, context, frozen, phase, check, owned, tick, changes, crashes>>

\* A process dies at any point of its tick; a new one starts over from the tables.
Crash(p) ==
  /\ tick[p] # Idle /\ crashes < MaxCrashes
  /\ tick' = [tick EXCEPT ![p] = Idle]
  /\ crashes' = crashes + 1
  /\ UNCHANGED <<world, tableVars, changes>>

\* A correction task is sent out with the current binding in its manifest.
SendCorrection(o) ==
  /\ o \in Correction /\ status[o] = "absent" /\ phase[GroupOf[o]] = "open"
  /\ binding.identity # NoIdentity
  /\ status' = [status EXCEPT ![o] = "sent"]
  /\ frozen' = [frozen EXCEPT ![o] = binding]
  /\ UNCHANGED <<world, binding, ident, context, phase, check, owned, ttl, tick, changes, crashes>>

\* A worker's answer inserts the attempt or the artifact; a target's context was frozen at dispatch.
Submit(o) ==
  /\ status[o] = IF o \in Correction THEN "sent" ELSE "absent"
  /\ status' = [status EXCEPT ![o] = "pending"]
  /\ context' = IF o \in Target \ Plain THEN context \cup {o} ELSE context
  /\ UNCHANGED <<world, binding, ident, frozen, phase, check, owned, ttl, tick, changes, crashes>>

DeadlinePasses(g) ==
  /\ phase[g] = "open"
  /\ phase' = [phase EXCEPT ![g] = "overdue"]
  /\ UNCHANGED <<world, binding, status, ident, context, frozen, check, owned, ttl, tick, changes, crashes>>

\* advance_groups stops the group for a reason of its own.
StopGroup(g) ==
  /\ phase[g] # "stopped"
  /\ phase' = [phase EXCEPT ![g] = "stopped"]
  /\ UNCHANGED <<world, binding, status, ident, context, frozen, check, owned, ttl, tick, changes, crashes>>

-------------------------------------------------------------------------------
(* A tick *)

At(p, step) == tick[p].at = step
Goes(p, t)  == tick' = [tick EXCEPT ![p] = t]

Waiting(a) == status[a] = "pending" /\ phase[GroupOf[a]] # "stopped"

\* needs_artifact_identity.
NeedsIdentity ==
  \/ \E a \in Artifact : Waiting(a)
  \/ \E t \in Target \ Plain : status[t] \in {"pending", "cancelled"}
  \/ \E g \in Graph : phase[g] # "stopped"
\* A fixed group asks for it only when its synthesis is about to use verified artifacts.
MayNeedIdentity == \E g \in Group \ Graph : phase[g] # "stopped"

\* The probe runs before the transaction that stores its answer.
StartTick(p) ==
  /\ At(p, "idle")
  /\ \/ /\ NeedsIdentity \/ MayNeedIdentity
        /\ Goes(p, [Idle EXCEPT !.at = "bind", !.seen = world])
     \/ /\ ~ NeedsIdentity
        /\ Goes(p, [Idle EXCEPT !.at = "pick"])
  /\ UNCHANGED <<world, tableVars, changes, crashes>>

\* bind_group_artifact_verifier: another identity is another revision, and what was verified under
\* a former one is pending again.
Bind(identity) ==
  IF identity = binding.identity THEN UNCHANGED <<binding, status, ident>>
  ELSE LET stale == {a \in Artifact : status[a] = "verified" /\ (ident[a] # identity \/ identity = NoIdentity)} IN
       /\ binding' = [identity |-> identity, revision |-> binding.revision + 1]
       /\ status' = [o \in Owner |-> IF o \in stale THEN "pending" ELSE status[o]]
       /\ ident' = [a \in Artifact |-> IF a \in stale THEN NoIdentity ELSE ident[a]]

BindIdentity(p) ==
  /\ At(p, "bind")
  /\ Bind(tick[p].seen)
  /\ Goes(p, [tick[p] EXCEPT !.at = "pick", !.seen = NoIdentity, !.token = binding'])
  /\ UNCHANGED <<world, context, frozen, phase, check, owned, ttl, changes, crashes>>

Oldest(o, set) == o \in set /\ \A k \in set : o <= k
Unchecked == {a \in Artifact : Waiting(a)}
Unjudged  == {t \in Target : status[t] = "pending"}
Picks(p)  == IF tick[p].token.identity # NoIdentity THEN Unchecked ELSE {}

PickArtifact(p, a) ==
  /\ At(p, "pick") /\ Oldest(a, Picks(p))
  /\ Goes(p, [tick[p] EXCEPT !.at = "context", !.owner = a])
  /\ UNCHANGED <<world, tableVars, changes, crashes>>

\* The oldest target is the only one considered: without a binding, or while another process
\* holds it, the tick ends.
PickTarget(p) ==
  /\ At(p, "pick") /\ Picks(p) = {}
  /\ \/ Unjudged = {} /\ Goes(p, Idle)
     \/ \E t \in Target :
          /\ Oldest(t, Unjudged)
          /\ Goes(p, IF t \in Plain THEN [tick[p] EXCEPT !.at = "run", !.owner = t]
                     ELSE IF tick[p].token.identity = NoIdentity THEN Idle
                     ELSE [tick[p] EXCEPT !.at = "begin", !.owner = t])
  /\ UNCHANGED <<world, tableVars, changes, crashes>>

\* An artifact of another environment is set aside under the binding of the tick.
SetAside(p) ==
  LET a == tick[p].owner IN
  /\ At(p, "context") /\ a \in Foreign
  /\ IF status[a] = "pending" /\ binding = tick[p].token
     THEN /\ status' = [status EXCEPT ![a] = "incompatible"]
          /\ ident' = [ident EXCEPT ![a] = binding.identity]
     ELSE UNCHANGED <<status, ident>>
  /\ Goes(p, Idle)
  /\ UNCHANGED <<world, binding, context, frozen, phase, check, owned, ttl, changes, crashes>>

\* ensure_artifact_context.  Without a current binding no context is selected, and the rejection
\* that follows finds the binding changed and is not stored.
EnsureContext(p) ==
  LET a == tick[p].owner IN
  /\ At(p, "context") /\ a \notin Foreign
  /\ IF a \in context \/ binding.identity # NoIdentity
     THEN context' = context \cup {a} /\ Goes(p, [tick[p] EXCEPT !.at = "begin"])
     ELSE UNCHANGED context /\ Goes(p, Idle)
  /\ UNCHANGED <<world, binding, status, ident, frozen, phase, check, owned, ttl, changes, crashes>>

Terminal(o) == status[o] # "pending"
\* Fault: an ownership never lapses.
HeldForEver(o) == owned[o] # 0
Held(o) == owned[o] # 0 /\ ttl[o] > 0

\* An expired owner's check is abandoned: its slot stays spent, its time unknown.
Abandon(o) ==
  [c \in Check |-> IF c = owned[o] THEN [check[c] EXCEPT !.status = "abandoned", !.finished = TRUE]
                   ELSE check[c]]

Free == {c \in Check : check[c].status = "unused"}

NewCheck(o, token) ==
  [NoCheck EXCEPT !.owner = o, !.binding = token, !.status = "checking",
                  !.reserved = GroupOf[o] \in Graph,
                  !.charge = IF GroupOf[o] \in Graph THEN Deadline ELSE 0]

Busy(p) ==
  /\ At(p, "begin") /\ (Terminal(tick[p].owner) \/ Held(tick[p].owner))
  /\ Goes(p, Idle)
  /\ UNCHANGED <<world, tableVars, changes, crashes>>

\* begin_composed_check for an input nobody holds.  The abandonment is kept when the new check is
\* refused; abandoning changes neither the operations nor the time charged.
Begin(p) ==
  /\ At(p, "begin")
  /\ LET o == tick[p].owner
         token == tick[p].token
         refusals == Refusals(o, token)
     IN /\ ~ Terminal(o) /\ ~ Held(o)
        /\ \/ \E r \in refusals :
                /\ r = "deadline" => refusals = {"deadline"}
                /\ check' = Abandon(o)
                /\ owned' = [owned EXCEPT ![o] = 0] /\ ttl' = [ttl EXCEPT ![o] = 0]
                /\ Goes(p, [tick[p] EXCEPT !.at = "refused", !.capacity = r = "reserve"])
           \/ /\ refusals = {}
              /\ \E c \in Free :
                   /\ \A k \in Free : c <= k
                   /\ check' = [Abandon(o) EXCEPT ![c] = NewCheck(o, token)]
                   /\ owned' = [owned EXCEPT ![o] = c] /\ ttl' = [ttl EXCEPT ![o] = 1]
                   /\ Goes(p, [tick[p] EXCEPT !.at = "run", !.check = c])
  /\ UNCHANGED <<world, binding, status, ident, context, frozen, phase, changes, crashes>>

Drops(p) == tick[p].capacity /\ tick[p].owner \in Artifact

\* FrontierLimit: an artifact refused for the reserve is dropped, a target without verdict or owner
\* is cancelled (stop_unchecked_target), and every other refusal stops the group.
Refused(p) ==
  /\ At(p, "refused")
  /\ LET o == tick[p].owner
         g == GroupOf[o]
     IN IF Drops(p)
        THEN /\ status' = [status EXCEPT ![o] = IF @ = "pending" THEN "incompatible" ELSE @]
             /\ UNCHANGED phase
        ELSE IF o \in Target /\ (owned[o] # 0 \/ status[o] \in Outcome)
        THEN UNCHANGED <<status, phase>>
        ELSE /\ status' = IF o \in Target THEN [status EXCEPT ![o] = "cancelled"] ELSE status
             /\ phase' = [phase EXCEPT ![g] = "stopped"]
  /\ Goes(p, Idle)
  /\ UNCHANGED <<world, binding, ident, context, frozen, check, owned, ttl, changes, crashes>>

\* LeanVerifier.verify_composed: it probes the identity itself before Lean is started.  A target
\* whose check raises is not probed again.
RunLean(p) ==
  /\ At(p, "run")
  /\ LET o == tick[p].owner
         stale == o \notin Plain \cup Standalone /\ tick[p].token.identity # world
     IN \/ /\ stale
           /\ Goes(p, [tick[p] EXCEPT !.at = "probe", !.result = StaleResult])
        \/ /\ ~ stale
           /\ \E v \in LeanSays, e \in Elapsed :
                Goes(p, [tick[p] EXCEPT !.at = IF o \in Plain THEN "record" ELSE "probe",
                         !.result = [outcome |-> v, elapsed |-> e, ran |-> TRUE]])
        \/ Goes(p, [tick[p] EXCEPT !.at = IF o \in Target THEN "record" ELSE "probe", !.result = Raised])
  /\ UNCHANGED <<world, tableVars, changes, crashes>>

\* The identity is probed after the run.  A probe that raises replaces a target's result; for an
\* artifact it finds no identity.  A standalone check rebinds only an identity that changed.
ProbeAgain(p) ==
  /\ At(p, "probe")
  /\ \/ /\ tick[p].owner \in Target /\ world = NoIdentity
        /\ Goes(p, [tick[p] EXCEPT !.at = "record", !.result = Raised])
     \/ Goes(p, [tick[p] EXCEPT !.seen = world,
                 !.at = IF tick[p].owner \in Standalone /\ world = tick[p].token.identity
                        THEN "record" ELSE "rebind"])
  /\ UNCHANGED <<world, tableVars, changes, crashes>>

Rebind(p) ==
  /\ At(p, "rebind")
  /\ Bind(tick[p].seen)
  /\ Goes(p, [tick[p] EXCEPT !.at = "record"])
  /\ UNCHANGED <<world, context, frozen, phase, check, owned, ttl, changes, crashes>>

\* Faults: whoever comes back commits; the identity is compared, and not its revision.
CurrentUnowned(p) == binding = tick[p].token
CurrentIdentity(p) ==
  owned[tick[p].owner] = tick[p].check /\ binding.identity = tick[p].token.identity

\* A result is committed by the owner of the check under the binding the check began with.  The
\* frozen inputs cannot have changed meanwhile: contexts and candidates are immutable.
Current(p) == owned[tick[p].owner] = tick[p].check /\ binding = tick[p].token

\* Fault: the ownership is deleted whoever holds it.
ReleaseAnyone(p) ==
  /\ owned' = [owned EXCEPT ![tick[p].owner] = 0]
  /\ ttl' = [ttl EXCEPT ![tick[p].owner] = 0]
\* record_check ends the ownership of its own check only.
Release(p) ==
  /\ owned' = [o \in Owner |-> IF owned[o] = tick[p].check THEN 0 ELSE owned[o]]
  /\ ttl' = [o \in Owner |-> IF owned[o] = tick[p].check THEN 0 ELSE ttl[o]]

\* finish_check and record_check: an abandoned check stays as it is.
Settle(p, committed) ==
  LET c == tick[p].check
      r == tick[p].result
  IN check' = IF check[c].status # "checking" THEN check
              ELSE [check EXCEPT ![c] =
                     [@ EXCEPT !.status = r.outcome, !.charge = IF check[c].reserved THEN r.elapsed ELSE 0,
                               !.finished = TRUE, !.committed = committed, !.ran = r.ran]]

\* Store.verified and checked_group_artifact.  A plain target has no check and no binding.
Record(p) ==
  /\ At(p, "record")
  /\ LET o == tick[p].owner
         v == tick[p].result.outcome
         current == o \in Plain \/ Current(p)
         accepted == current /\ IF o \in Artifact THEN status[o] = "pending" ELSE status[o] \notin Outcome
         solves == accepted /\ o \in Target \ Plain /\ v = "verified"
     IN /\ status' = IF accepted THEN [status EXCEPT ![o] = v] ELSE status
        /\ ident' = IF accepted /\ o \in Artifact THEN [ident EXCEPT ![o] = tick[p].token.identity] ELSE ident
        /\ phase' = IF solves THEN [phase EXCEPT ![GroupOf[o]] = "stopped"] ELSE phase
        /\ IF o \in Plain THEN UNCHANGED <<check, owned, ttl>>
           ELSE Settle(p, accepted) /\ Release(p)
  /\ Goes(p, Idle)
  /\ UNCHANGED <<world, binding, context, frozen, changes, crashes>>

-------------------------------------------------------------------------------
Init ==
  /\ world \in Identity /\ binding = Unbound
  /\ status = [o \in Owner |-> "absent"]
  /\ ident = [a \in Artifact |-> NoIdentity]
  /\ context = {} /\ frozen = [o \in Correction |-> Unbound]
  /\ phase \in [Group -> {"open", "stopped"}]
  /\ check = [c \in Check |-> NoCheck]
  /\ owned = [o \in Owner |-> 0] /\ ttl = [o \in Owner |-> 0]
  /\ tick = [p \in Process |-> Idle]
  /\ changes = 0 /\ crashes = 0

Environment ==
  \/ WorldReturns \/ TimePasses
  \/ \E i \in Identity \cup {NoIdentity} : WorldChanges(i)
  \/ \E p \in Process : Crash(p)
  \/ \E o \in Owner : Submit(o) \/ SendCorrection(o)
  \/ \E g \in Group : DeadlinePasses(g) \/ StopGroup(g)

Ticks(p) ==
  \/ StartTick(p) \/ BindIdentity(p)
  \/ (\E a \in Artifact : PickArtifact(p, a)) \/ PickTarget(p)
  \/ SetAside(p) \/ EnsureContext(p) \/ Busy(p) \/ Begin(p) \/ Refused(p)
  \/ RunLean(p) \/ ProbeAgain(p) \/ Rebind(p) \/ Record(p)

Next == Environment \/ \E p \in Process : Ticks(p)

Spec == Init /\ [][Next]_vars

\* Every scheduler thread goes on with its tick, clocks advance, and an installation that has
\* vanished comes back.
Fairness ==
  /\ \A p \in Process : WF_vars(Ticks(p))
  /\ WF_vars(TimePasses) /\ WF_vars(WorldReturns)

LiveSpec == Spec /\ Fairness

-------------------------------------------------------------------------------
(* Properties *)

\* A check is being executed exactly while its input is owned by it, and its budget slot is open
\* exactly as long: overlapping ticks, restarts, lapsed ownerships and late results never leave a
\* check without an owner or a reservation that nobody will settle
\* (begin_composed_check, record_check, finish_check).
SoleOwner ==
  /\ VTypeOK
  /\ \A c \in Check : check[c].owner # 0 =>
       /\ check[c].status = "checking" <=> owned[check[c].owner] = c
       /\ check[c].finished <=> check[c].status # "checking"

\* What is offered as verified was verified under the identity bound now, by a check that began under
\* this very revision of the binding: however probes, checks and rebindings of several processes
\* interleave, no check decides across a change of the verifier, also not one that was undone.  And
\* a correction is only ever judged under the binding its task was sent out with, though the verifier
\* may be rebound, and back, while it is away
\* (bind_group_artifact_verifier, checked_group_artifact, reserve_check).
Offered(a, c) ==
  /\ check[c].owner = a /\ check[c].committed /\ check[c].status = "verified"
  /\ check[c].binding = binding
JudgedUnderBinding ==
  /\ \A a \in Artifact : status[a] = "verified" =>
       ident[a] = binding.identity /\ ident[a] # NoIdentity /\ \E c \in Check : Offered(a, c)
  /\ \A c \in Check : check[c].committed /\ check[c].owner \in Correction
       => check[c].binding = frozen[check[c].owner]

\* The verdict of a composed target is that of exactly one committed check: an abandoned check or a
\* second process never contributes (Store.verified, record_check).
VerdictHasCheck ==
  \A t \in Target \ Plain : status[t] \in Outcome =>
    \E c \in Check : /\ check[c].owner = t /\ check[c].committed /\ check[c].status = status[t]
                     /\ \A d \in Check \ {c} : ~ (check[d].owner = t /\ check[d].committed)

\* A graph group overruns its Lean time by less than one deadline and its operations not at all,
\* overlapping, abandoned and unknown checks included (docs/graph-frontier.md:160); one that
\* keeps a completion reserve never overruns (reserve_check, lean_cost).
WithinLean ==
  \A g \in Graph : /\ Cardinality(Reserved(g)) <= MaxOps[g]
                   /\ Cost(g) < MaxLean[g] + (IF g \in Reserve THEN 1 ELSE Deadline)

\* A configured reserve suffices for the completion it is kept for.
ReserveFits(g) ==
  g \in Reserve /\ Deadline <= CheckTime /\ Slots[g] <= MaxOps[g] /\ Slots[g] * CheckTime <= MaxLean[g]

\* Auxiliary proofs never crowd out the completion: a target is refused its check for want of
\* capacity only when the reserved target checks have been spent (completion_tail, reserve_check).
TargetNotCrowded ==
  \A t \in Target \ (Plain \cup Correction) :
    status[t] = "cancelled" /\ ReserveFits(GroupOf[t])
      => Cardinality(TargetChecks(GroupOf[t])) >= Slots[GroupOf[t]]

Awaits(o) == IF o \in Artifact THEN Waiting(o) ELSE status[o] = "pending"
\* Every candidate is judged or cancelled and no artifact stays pending in a group that goes on, though
\* the verifier may be away for a while, an earlier input may hold up the queue and processes die
\* holding checks (Coordinator.tick).
InputsSettled == \A o \in Owner : Awaits(o) ~> ~ Awaits(o)

\* An identity that changes and changes back during a check must not decide it: "protecting against
\* A->B->A changes" (docs/ticket-g3-composed-proofs.md:98), and "if identity is temporarily
\* unavailable, artifact checks stay pending" (docs/group-loop.md:86).  A rejection is Lean's.
OnlyLeanRejects ==
  \A c \in Check : check[c].committed /\ check[c].status = "rejected" => check[c].ran

===============================================================================
