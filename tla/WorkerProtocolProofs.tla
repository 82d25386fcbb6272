------------------------- MODULE WorkerProtocolProofs -------------------------
(***************************************************************************)
(* Theorems about WorkerProtocol: served over a network that loses, delays *)
(* and repeats, the queue keeps all its promises, and the answer to every  *)
(* lease behaves as AnswerDelivery says, for any number of daemons.        *)
(***************************************************************************)
EXTENDS WorkerProtocol, JobQueueProofs

Busy(w) == worker[w].at \in {"working", "submitting"}
Grants  == {p \in replies : p.kind = "claim" /\ p.code = 200}
Answers == {r \in requests : r.kind = "result"}
Told    == {p \in replies : p.kind = "result"}
Issued(l) == l \in Lease /\ leaseStatus[l] # "absent"

(* The inductive invariant of the wires *)

\* What travels names leases of the table, and what is submitted is an answer.
WireRows ==
  /\ WorkerTypeOK
  /\ \A r \in requests : /\ r.kind # "claim" => Issued(r.lease)
                         /\ r.kind = "result" => r.payload \in Payload
  /\ \A p \in Grants : Issued(p.lease)
  /\ \A w \in Worker : /\ Busy(w) => Issued(worker[w].lease)
                       /\ worker[w].at = "submitting" => worker[w].payload \in Payload
                       /\ worker[w].waiting => worker[w].at = "submitting"
  /\ \A l \in Lease : heard[l] # "none" => Issued(l)

\* A lease is on its way to one daemon, or with one, and only before that one has heard of it.
Holders ==
  /\ \A v, w \in Worker : Busy(v) /\ Busy(w) /\ worker[v].lease = worker[w].lease => v = w
  /\ \A p, q \in Grants : p.lease = q.lease => p = q
  /\ \A p \in Grants, w \in Worker : Busy(w) => worker[w].lease # p.lease
  /\ \A w \in Worker : Busy(w) => heard[worker[w].lease] = "none"
  /\ \A p \in Grants : heard[p.lease] = "none"

\* All copies of the answer to a lease are equal, and none is about before the daemon submits it.
Copies ==
  /\ \A r \in Answers : leaseResult[r.lease] \in {"none", r.payload}
  /\ \A r, q \in Answers : r.lease = q.lease => r.payload = q.payload
  /\ \A r \in Answers, w \in Worker : Busy(w) /\ worker[w].lease = r.lease =>
       worker[w].at = "submitting" /\ worker[w].payload = r.payload
  /\ \A r \in Answers, p \in Grants : r.lease # p.lease
  /\ \A w \in Worker : /\ worker[w].at = "working" => leaseResult[worker[w].lease] = "none"
                       /\ worker[w].at = "submitting" =>
                            leaseResult[worker[w].lease] \in {"none", worker[w].payload}
  /\ \A p \in Grants : leaseResult[p.lease] = "none"

\* A response to a submission is on its way to the daemon that waits for it, and is true.
Truths ==
  /\ \A r \in Answers : r.live => worker[r.from].waiting /\ worker[r.from].lease = r.lease
  /\ \A p \in Told : /\ worker[p.to].waiting /\ worker[p.to].lease = p.lease
                     /\ p.code \in {200, 409}
                     /\ p.code = 200 => leaseResult[p.lease] # "none"
                     /\ p.code = 409 => Fate(p.lease) = "void"

\* A lease that is closed has a result.
ClosedLeases ==
  \A l \in Lease : leaseStatus[l] \in {"completed", "rejected"} => leaseResult[l] # "none"

WireInv == WireRows /\ Holders /\ Copies /\ Truths /\ ClosedLeases

-------------------------------------------------------------------------------
(* What the queue's steps do to leases *)

\* No lease is forgotten, answered or voided.
Quiet ==
  /\ leaseResult' = leaseResult
  /\ \A l \in Lease : leaseStatus[l] # "absent" => leaseStatus'[l] # "absent"
  /\ \A l \in Lease : Fate(l)' = Fate(l)
  /\ ClosedLeases'

LEMMA KeptLeasesQuiet ==
  ASSUME ClosedLeases, UNCHANGED <<leaseStatus, leaseResult, ttl>> PROVE Quiet
BY DEF Quiet, ClosedLeases, Fate

LEMMA LoopsQuiet ==
  ASSUME ClosedLeases, Requests \/ Groups \/ Loops PROVE Quiet
<1>1. Requests => UNCHANGED leaseVars
  BY DEF Requests, Submit, EnqueueTask, EnqueueGroupJob
<1>2. Groups => UNCHANGED leaseVars
  BY DEF Groups, StartLoop, DeadlinePasses, StopGroup, StopUncheckedTarget
<1>3. Loops => UNCHANGED leaseVars
  BY DEF Loops, PickNext, Pick, Abandon, Check, Verified, VerifiedAgain
<1>4. QED
  BY <1>1, <1>2, <1>3, KeptLeasesQuiet DEF leaseVars

LEMMA SweepQuiet ==
  ASSUME IInv, NEW l \in Lease
  PROVE  SweptLeases[l] = IF leaseStatus[l] = "active" /\ ttl[l] = 0 THEN "expired" ELSE leaseStatus[l]
BY DEF SweptLeases, Lapsed

LEMMA ExpireQuiet == ASSUME IInv, ClosedLeases, Expire PROVE Quiet
<1>1. leaseStatus' = SweptLeases /\ leaseResult' = leaseResult /\ ttl' = ttl
  BY DEF Expire
<1>2. \A l \in Lease : Fate(l)' = Fate(l)
  BY <1>1, SweepQuiet DEF Fate
<1>3. QED
  BY <1>1, <1>2, SweepQuiet DEF Quiet, ClosedLeases

LEMMA ClaimQuiet ==
  ASSUME IInv, ClosedLeases, NEW kinds, NEW j, NEW l \in Lease, Claim(kinds, j, l)
  PROVE  Quiet /\ leaseStatus[l] = "absent" /\ leaseStatus'[l] = "active"
<1>1. /\ leaseStatus' = [SweptLeases EXCEPT ![l] = "active"]
      /\ leaseResult' = leaseResult /\ ttl' = [ttl EXCEPT ![l] = LeaseTicks]
      /\ leaseStatus[l] = "absent"
  BY DEF Claim, NextRows, LeaseRows
<1>2. /\ SweptLeases \in [Lease -> LeaseStatus] /\ ttl \in [Lease -> 0..LeaseTicks]
      /\ LeaseTicks \in Nat \ {0}
  BY SweepFacts, LimitAssumption DEF IInv, TypeOK
<1>3. leaseStatus'[l] = "active" /\ ttl'[l] = LeaseTicks
  BY <1>1, <1>2
<1>4. \A m \in Lease \ {l} : leaseStatus'[m] = SweptLeases[m] /\ ttl'[m] = ttl[m]
  BY <1>1, <1>2
<1>5. leaseResult[l] = "none"
  BY <1>1 DEF IInv, RowInv
<1>6. \A m \in Lease : Fate(m)' = Fate(m)
  BY <1>1, <1>2, <1>3, <1>4, <1>5, SweepQuiet DEF Fate
<1>7. QED
  BY <1>1, <1>3, <1>4, <1>6, SweepQuiet DEF Quiet, ClosedLeases

LEMMA HeartbeatQuiet ==
  ASSUME IInv, ClosedLeases, NEW l \in Lease, Heartbeat(l) PROVE Quiet
<1>1. /\ leaseStatus' = leaseStatus /\ leaseResult' = leaseResult
      /\ ttl' = [ttl EXCEPT ![l] = LeaseTicks] /\ ttl[l] > 0 /\ ttl \in [Lease -> 0..LeaseTicks]
      /\ LeaseTicks \in Nat \ {0}
  BY LimitAssumption DEF Heartbeat, Holds, IInv, TypeOK
<1>2. \A m \in Lease : Fate(m)' = Fate(m)
  BY <1>1 DEF Fate
<1>3. QED
  BY <1>1, <1>2 DEF Quiet, ClosedLeases

\* Time voids open answers, of any number of leases at once.
LEMMA ClockVoids ==
  ASSUME IInv, ClosedLeases, TimePasses
  PROVE  /\ UNCHANGED <<leaseStatus, leaseResult>> /\ ClosedLeases'
         /\ \A l \in Lease : Fate(l)' = Fate(l) \/ (Fate(l) = "open" /\ Fate(l)' = "void")
<1>1. /\ UNCHANGED <<leaseStatus, leaseResult>> /\ ttl \in [Lease -> 0..LeaseTicks]
      /\ LeaseTicks \in Nat
      /\ ttl' = [l \in Lease |-> IF ttl[l] > 0 THEN ttl[l] - 1 ELSE 0]
  BY LimitAssumption DEF TimePasses, IInv, TypeOK
<1>2. \A l \in Lease : Fate(l)' = Fate(l) \/ (Fate(l) = "open" /\ Fate(l)' = "void")
  BY <1>1 DEF Fate
<1>3. QED
  BY <1>1, <1>2 DEF ClosedLeases

LEMMA ResultRecords ==
  ASSUME IInv, ClosedLeases, NEW l \in Lease, NEW p \in Payload, Result(l, p)
  PROVE  /\ Fate(l) = "open" /\ Fate(l)' = "recorded" /\ leaseResult'[l] = p
         /\ leaseResult[l] = "none"
         /\ \A m \in Lease \ {l} : leaseResult'[m] = leaseResult[m] /\ Fate(m)' = Fate(m)
         /\ \A m \in Lease : leaseStatus[m] # "absent" => leaseStatus'[m] # "absent"
         /\ ClosedLeases'
<1>1. /\ leaseStatus \in [Lease -> LeaseStatus] /\ leaseResult \in [Lease -> Payload \cup {"none"}]
      /\ ttl \in [Lease -> 0..LeaseTicks] /\ leaseResult[l] = "none"
      /\ leaseStatus[l] = "active" /\ ttl[l] > 0
      /\ leaseStatus' = [leaseStatus EXCEPT ![l] = IF p = "rejected" THEN "rejected" ELSE "completed"]
      /\ leaseResult' = [leaseResult EXCEPT ![l] = p] /\ ttl' = [ttl EXCEPT ![l] = 0]
  BY DEF Result, Holds, IInv, TypeOK
<1>2. leaseResult'[l] = p /\ p # "none"
  BY <1>1 DEF Payload
<1>3. \A m \in Lease \ {l} : leaseResult'[m] = leaseResult[m] /\ leaseStatus'[m] = leaseStatus[m] /\ ttl'[m] = ttl[m]
  BY <1>1
<1>4. Fate(l) = "open" /\ Fate(l)' = "recorded"
  BY <1>1, <1>2 DEF Fate
<1>5. QED
  BY <1>1, <1>2, <1>3, <1>4 DEF Fate, ClosedLeases

-------------------------------------------------------------------------------
(* Steps that record nothing and hand out no lease *)

Calm ==
  /\ leaseResult' = leaseResult
  /\ \A l \in Lease : leaseStatus[l] # "absent" => leaseStatus'[l] # "absent"
  /\ \A l \in Lease : Fate(l) = "void" => Fate(l)' = "void"
  /\ ClosedLeases'

DaemonsKeep ==
  \A w \in Worker :
    /\ Busy(w)' =>
         /\ Busy(w) /\ worker'[w].lease = worker[w].lease
         /\ \/ worker'[w].at = worker[w].at /\ worker'[w].payload = worker[w].payload
            \/ worker[w].at = "working" /\ worker'[w].at = "submitting" /\ worker'[w].payload \in Payload
    /\ worker'[w].waiting => worker'[w].at = "submitting"

WillAwait(w, l) == worker'[w].waiting /\ worker'[w].lease = l

SentKeeps ==
  \A r \in requests' :
    \/ r.kind = "claim"
    \/ r.kind = "heartbeat" /\ Issued(r.lease)
    \/ /\ r.kind = "result" /\ worker[r.from].at = "submitting"
       /\ worker[r.from].lease = r.lease /\ worker[r.from].payload = r.payload
       /\ WillAwait(r.from, r.lease)
    \/ /\ r.kind = "result" /\ (r.live => WillAwait(r.from, r.lease))
       /\ \E q \in Answers : q.lease = r.lease /\ q.payload = r.payload

RepliesKeep ==
  \A p \in replies' :
    /\ p.kind = "claim" /\ p.code = 200 => p \in replies
    /\ p.kind = "result" => /\ WillAwait(p.to, p.lease) /\ p.code \in {200, 409}
                            /\ p.code = 200 => leaseResult'[p.lease] # "none"
                            /\ p.code = 409 => Fate(p.lease)' = "void"

HeardKeeps ==
  \A l \in Lease : heard'[l] = heard[l] \/ \E w \in Worker : Busy(w) /\ worker[w].lease = l /\ ~ Busy(w)'

LEMMA KeepStep ==
  ASSUME WireInv, WorkerTypeOK', Calm, DaemonsKeep, SentKeeps, RepliesKeep, HeardKeeps
  PROVE  WireInv'
<1> USE DEF WireInv, WireRows, Holders, Copies, Truths
<1>1. /\ \A l : Issued(l) => Issued(l)'
      /\ Grants' \subseteq Grants
  BY DEF Issued, Calm, RepliesKeep, Grants
<1>2. \A w \in Worker : Busy(w)' => Busy(w) /\ worker'[w].lease = worker[w].lease
  BY DEF DaemonsKeep
<1>3. \A r \in Answers' :
        /\ r.payload \in Payload /\ Issued(r.lease)
        /\ \/ \E q \in Answers : q.lease = r.lease /\ q.payload = r.payload
           \/ worker[r.from].at = "submitting" /\ worker[r.from].lease = r.lease
              /\ worker[r.from].payload = r.payload /\ r.from \in Worker
        /\ r.live => WillAwait(r.from, r.lease)
  BY DEF SentKeeps, Answers, Request, WorkerTypeOK, Busy
<1>4. \A w \in Worker : Busy(w)' =>
         /\ heard'[worker[w].lease] = "none"
         /\ \A v \in Worker : Busy(v) /\ worker[v].lease = worker[w].lease => v = w
  BY <1>2 DEF HeardKeeps, Issued
<1>5. WireRows'
  <2>1. \A r \in requests' : /\ r.kind # "claim" => Issued(r.lease)'
                             /\ r.kind = "result" => r.payload \in Payload
    BY <1>1, <1>3 DEF SentKeeps, Answers
  <2>2. \A w \in Worker : /\ Busy(w)' => Issued(worker[w].lease)'
                          /\ worker'[w].at = "submitting" => worker'[w].payload \in Payload
                          /\ worker'[w].waiting => worker'[w].at = "submitting"
    BY <1>1, <1>2 DEF DaemonsKeep, Busy
  <2>3. \A l \in Lease : heard'[l] # "none" => Issued(l)'
    BY <1>1 DEF HeardKeeps
  <2>4. QED
    BY <1>1, <2>1, <2>2, <2>3
<1>6. Holders'
  <2>1. \A p \in Grants' : heard'[p.lease] = "none"
    BY <1>1 DEF HeardKeeps, Issued
  <2>2. QED
    BY <1>1, <1>2, <1>4, <2>1
<1>7. Copies'
  <2>1. \A r \in Answers' : leaseResult'[r.lease] \in {"none", r.payload}
    BY <1>3 DEF Calm
  <2>2. \A r, q \in Answers' : r.lease = q.lease => r.payload = q.payload
    BY <1>3 DEF Busy
  <2>3. \A r \in Answers', w \in Worker : Busy(w)' /\ worker'[w].lease = r.lease =>
           worker'[w].at = "submitting" /\ worker'[w].payload = r.payload
    <3> SUFFICES ASSUME NEW r \in Answers', NEW w \in Worker, Busy(w)', worker'[w].lease = r.lease
                 PROVE  worker'[w].at = "submitting" /\ worker'[w].payload = r.payload
      OBVIOUS
    <3>1. worker[w].at = "submitting" /\ worker[w].payload = r.payload
      BY <1>2, <1>3, <1>4 DEF Busy
    <3>2. QED
      BY <3>1 DEF DaemonsKeep
  <2>4. \A r \in Answers', p \in Grants' : r.lease # p.lease
    BY <1>1, <1>3 DEF Busy
  <2>5. \A w \in Worker : /\ worker'[w].at = "working" => leaseResult'[worker'[w].lease] = "none"
                          /\ worker'[w].at = "submitting" =>
                               leaseResult'[worker'[w].lease] \in {"none", worker'[w].payload}
    BY DEF DaemonsKeep, Calm, Busy
  <2>6. \A p \in Grants' : leaseResult'[p.lease] = "none"
    BY <1>1 DEF Calm
  <2>7. QED
    BY <2>1, <2>2, <2>3, <2>4, <2>5, <2>6
<1>8. Truths'
  BY <1>3 DEF RepliesKeep, Told, WillAwait
<1>9. QED
  BY <1>5, <1>6, <1>7, <1>8 DEF Calm

-------------------------------------------------------------------------------
(* Steps of the daemons *)

LEMMA StrayFacts ==
  ASSUME requests \subseteq Request, NEW w \in Worker, NEW kinds, NEW r \in Strays(w, kinds)
  PROVE  /\ r \in Request
         /\ \E q \in requests :
              /\ q.kind = r.kind /\ q.from = r.from /\ q.lease = r.lease /\ q.payload = r.payload
              /\ r.live => q.live /\ ~ (q.from = w /\ q.kind \in kinds)
<1>1. PICK q \in requests : r = IF q.from = w /\ q.kind \in kinds THEN [q EXCEPT !.live = FALSE] ELSE q
  BY DEF Strays
<1>2. q \in Request
  OBVIOUS
<1>3. CASE q.from = w /\ q.kind \in kinds
  BY <1>1, <1>2, <1>3 DEF Request
<1>4. QED
  BY <1>1, <1>2, <1>3

\* The exchanges of some kinds end, and the daemon goes where d says.
LEMMA GiveUpStep ==
  ASSUME WireInv, NEW w \in Worker, NEW kinds, NEW d \in Daemon,
         UNCHANGED <<leaseStatus, leaseResult, ttl>>,
         worker' = [worker EXCEPT ![w] = d],
         requests' = Strays(w, kinds), replies' \subseteq Dropped(w, kinds),
         faults' \in 0..MaxFaults,
         heard' = heard \/ \E h \in {"accepted", "refused", "unknown"} :
           heard' = [heard EXCEPT ![worker[w].lease] = h] /\ Busy(w) /\ d.at = "idle",
         d.beats # "off" => d.at \in {"working", "submitting"},
         d.at \in {"working", "submitting"} =>
           /\ Busy(w) /\ d.lease = worker[w].lease
           /\ \/ d.at = worker[w].at /\ d.payload = worker[w].payload
              \/ worker[w].at = "working" /\ d.at = "submitting" /\ d.payload \in Payload,
         d.waiting => d.at = "submitting",
         "result" \notin kinds => (worker[w].waiting => d.waiting /\ d.lease = worker[w].lease)
  PROVE  WireInv'
<1> USE DEF WireInv
<1>1. WorkerTypeOK
  BY DEF WireRows
<1>2. /\ \A v \in Worker \ {w} : worker'[v] = worker[v]
      /\ worker'[w] = d
  BY <1>1 DEF WorkerTypeOK
<1>3. \A r \in Strays(w, kinds) :
        /\ r \in Request
        /\ \E q \in requests :
             /\ q.kind = r.kind /\ q.from = r.from /\ q.lease = r.lease /\ q.payload = r.payload
             /\ r.live => q.live /\ ~ (q.from = w /\ q.kind \in kinds)
  BY <1>1, StrayFacts DEF WorkerTypeOK
<1>4. WorkerTypeOK'
  BY <1>1, <1>2, <1>3 DEF WorkerTypeOK, Dropped
<1>5. Calm
  BY KeptLeasesQuiet DEF Quiet, Calm
<1>6. DaemonsKeep
  BY <1>2 DEF DaemonsKeep, Busy, WireRows
<1>7. SentKeeps
  <2> SUFFICES ASSUME NEW r \in Strays(w, kinds)
               PROVE  \/ r.kind = "claim"
                      \/ r.kind = "heartbeat" /\ Issued(r.lease)
                      \/ /\ r.kind = "result" /\ (r.live => WillAwait(r.from, r.lease))
                         /\ \E q \in Answers : q.lease = r.lease /\ q.payload = r.payload
    BY DEF SentKeeps
  <2>1. PICK q \in requests :
             /\ q.kind = r.kind /\ q.from = r.from /\ q.lease = r.lease /\ q.payload = r.payload
             /\ r.live => q.live /\ ~ (q.from = w /\ q.kind \in kinds)
    BY <1>3
  <2>2. r.kind \in {"claim", "heartbeat", "result"} /\ r.from \in Worker
    BY <1>3 DEF Request
  <2>3. CASE r.kind = "heartbeat"
    BY <2>1, <2>3 DEF WireRows
  <2>4. CASE r.kind = "result"
    BY <1>2, <2>1, <2>2, <2>4 DEF Answers, Truths, WillAwait
  <2>5. QED
    BY <2>2, <2>3, <2>4
<1>8. RepliesKeep
  <2> SUFFICES ASSUME NEW p \in Dropped(w, kinds), p \in replies, p.kind = "result"
               PROVE  /\ WillAwait(p.to, p.lease) /\ p.code \in {200, 409}
                      /\ p.code = 200 => leaseResult[p.lease] # "none"
                      /\ p.code = 409 => Fate(p.lease)' = "void"
    BY DEF RepliesKeep, Dropped
  <2>1. /\ worker[p.to].waiting /\ worker[p.to].lease = p.lease /\ p.code \in {200, 409} /\ p.to \in Worker
        /\ p.code = 200 => leaseResult[p.lease] # "none"
        /\ p.code = 409 => Fate(p.lease) = "void"
    BY <1>1 DEF Truths, Told, WorkerTypeOK, Reply
  <2>2. Fate(p.lease)' = Fate(p.lease)
    BY DEF Fate
  <2>3. p.to = w => "result" \notin kinds
    BY DEF Dropped
  <2>4. QED
    BY <1>2, <2>1, <2>2, <2>3 DEF WillAwait
<1>9. HeardKeeps
  BY <1>1, <1>2 DEF HeardKeeps, Busy, WorkerTypeOK
<1>10. QED
  BY <1>4, <1>5, <1>6, <1>7, <1>8, <1>9, KeepStep

LEMMA NoStrays == ASSUME NEW w PROVE Strays(w, {}) = requests /\ Dropped(w, {}) = replies
BY DEF Strays, Dropped

LEMMA ClaimFailsStep == ASSUME WireInv, NEW w \in Worker, ClaimFails(w) PROVE WireInv'
<1>1. faults' \in 0..MaxFaults
  BY WorkerAssumption DEF ClaimFails, WireInv, WireRows, WorkerTypeOK
<1>2. IdleDaemon \in Daemon
  BY WorkerAssumption DEF IdleDaemon, Daemon
<1>3. ~ worker[w].waiting
  BY DEF ClaimFails, WireInv, WireRows
<1>4. QED
  BY <1>1, <1>2, <1>3, GiveUpStep DEF ClaimFails, IdleDaemon, vars, leaseVars

LEMMA KillStep == ASSUME WireInv, NEW w \in Worker, Kill(w) PROVE WireInv'
<1>1. faults' \in 0..MaxFaults
  BY WorkerAssumption DEF Kill, WireInv, WireRows, WorkerTypeOK
<1>2. IdleDaemon \in Daemon
  BY WorkerAssumption DEF IdleDaemon, Daemon
<1>3. replies' \subseteq Dropped(w, {"claim", "heartbeat", "result"})
  BY DEF Kill, Dropped
<1>4. QED
  BY <1>1, <1>2, <1>3, GiveUpStep DEF Kill, IdleDaemon, vars, leaseVars

LEMMA HeartbeatFailsStep == ASSUME WireInv, NEW w \in Worker, HeartbeatFails(w) PROVE WireInv'
<1> DEFINE d == [worker[w] EXCEPT !.beats = "on"]
<1>1. faults' \in 0..MaxFaults /\ WorkerTypeOK
  BY WorkerAssumption DEF HeartbeatFails, WireInv, WireRows, WorkerTypeOK
<1>2. worker[w] \in Daemon /\ worker[w].at \in {"working", "submitting"}
  BY <1>1 DEF WorkerTypeOK, HeartbeatFails
<1>3. /\ d \in Daemon /\ d.at = worker[w].at /\ d.lease = worker[w].lease
      /\ d.payload = worker[w].payload /\ d.waiting = worker[w].waiting
  BY <1>2 DEF Daemon
<1>4. worker' = [worker EXCEPT ![w] = d]
  BY DEF HeartbeatFails
<1>5. d.waiting => d.at = "submitting"
  BY <1>3 DEF WireInv, WireRows
<1> HIDE DEF d
<1>6. QED
  BY <1>1, <1>2, <1>3, <1>4, <1>5, GiveUpStep DEF HeartbeatFails, Busy, vars, leaseVars

LEMMA ExecuteStep == ASSUME WireInv, NEW w \in Worker, NEW p \in Payload, Execute(w, p) PROVE WireInv'
<1> DEFINE d == [worker[w] EXCEPT !.at = "submitting", !.payload = p]
<1>1. WorkerTypeOK /\ faults' \in 0..MaxFaults
  BY DEF Execute, WireInv, WireRows, WorkerTypeOK
<1>2. worker[w] \in Daemon /\ worker[w].at = "working"
  BY <1>1 DEF WorkerTypeOK, Execute
<1>3. /\ d \in Daemon /\ d.at = "submitting" /\ d.lease = worker[w].lease
      /\ d.payload = p /\ d.waiting = worker[w].waiting
  BY <1>2 DEF Daemon
<1>4. worker' = [worker EXCEPT ![w] = d]
  BY <1>1 DEF Execute, WorkerTypeOK
<1> HIDE DEF d
<1>5. QED
  BY <1>1, <1>2, <1>3, <1>4, NoStrays, GiveUpStep DEF Execute, Busy, vars, leaseVars

LEMMA HeartbeatAnsweredStep ==
  ASSUME WireInv, NEW w \in Worker, NEW p \in replies, HeartbeatAnswered(w, p) PROVE WireInv'
<1>1. WorkerTypeOK /\ faults' \in 0..MaxFaults
  BY DEF HeartbeatAnswered, WireInv, WireRows, WorkerTypeOK
<1>2. worker[w] \in Daemon /\ worker[w].at \in {"working", "submitting"}
  BY <1>1 DEF WorkerTypeOK, HeartbeatAnswered
<1>3. PICK b \in {"on", "off"} : worker' = [worker EXCEPT ![w].beats = b]
  BY DEF HeartbeatAnswered, HeartStops
<1> DEFINE d == [worker[w] EXCEPT !.beats = b]
<1>4. /\ d \in Daemon /\ d.at = worker[w].at /\ d.lease = worker[w].lease
      /\ d.payload = worker[w].payload /\ d.waiting = worker[w].waiting
  BY <1>2 DEF Daemon
<1>5. worker' = [worker EXCEPT ![w] = d]
  BY <1>3
<1>6. d.waiting => d.at = "submitting"
  BY <1>4 DEF WireInv, WireRows
<1>7. /\ requests' = requests /\ heard' = heard /\ replies' \subseteq replies
      /\ UNCHANGED <<leaseStatus, leaseResult, ttl>>
  BY DEF HeartbeatAnswered, HeartStops, Dropped, vars, leaseVars
<1>8. requests' = Strays(w, {}) /\ replies' \subseteq Dropped(w, {})
  BY <1>7, NoStrays
<1> HIDE DEF d
<1>9. QED
  BY <1>1, <1>2, <1>4, <1>5, <1>6, <1>7, <1>8, GiveUpStep DEF Busy

LEMMA ReturnStep ==
  ASSUME WireInv, NEW w \in Worker, NEW h \in {"accepted", "refused", "unknown"}, worker[w].waiting,
         Return(w, h), UNCHANGED vars, faults' \in 0..MaxFaults
  PROVE  WireInv'
<1>1. IdleDaemon \in Daemon
  BY WorkerAssumption DEF IdleDaemon, Daemon
<1>2. worker[w].at = "submitting"
  BY DEF WireInv, WireRows
<1>3. QED
  BY <1>1, <1>2, GiveUpStep DEF Return, Done, Busy, IdleDaemon, vars, leaseVars

LEMMA ResultFailsStep == ASSUME WireInv, NEW w \in Worker, ResultFails(w) PROVE WireInv'
<1> DEFINE d == [worker[w] EXCEPT !.waiting = FALSE]
<1>1. WorkerTypeOK /\ faults' \in 0..MaxFaults
  BY WorkerAssumption DEF ResultFails, WireInv, WireRows, WorkerTypeOK
<1>2. worker[w] \in Daemon /\ worker[w].at = "submitting"
  BY <1>1 DEF WorkerTypeOK, ResultFails, WireInv, WireRows
<1>3. /\ d \in Daemon /\ d.at = worker[w].at /\ d.lease = worker[w].lease
      /\ d.payload = worker[w].payload /\ ~ d.waiting
  BY <1>2 DEF Daemon
<1>4. CASE worker[w].tries < MaxTries
  <2>1. worker' = [worker EXCEPT ![w] = d]
    BY <1>4 DEF ResultFails
  <2> HIDE DEF d
  <2>2. QED
    BY <1>1, <1>2, <1>3, <1>4, <2>1, GiveUpStep DEF ResultFails, Busy, vars, leaseVars
<1>5. CASE ~ (worker[w].tries < MaxTries)
  BY <1>1, <1>5, ReturnStep DEF ResultFails
<1>6. QED
  BY <1>4, <1>5

LEMMA ResultAnsweredStep ==
  ASSUME WireInv, NEW w \in Worker, NEW p \in replies, ResultAnswered(w, p) PROVE WireInv'
BY ReturnStep DEF ResultAnswered, WireInv, WireRows, WorkerTypeOK

\* Something is sent.
LEMMA SendStep ==
  ASSUME WireInv, NEW w \in Worker, NEW d \in Daemon, NEW new \in Request,
         UNCHANGED <<leaseStatus, leaseResult, ttl, replies, heard, faults>>,
         worker' = [worker EXCEPT ![w] = d], requests' = requests \cup {new},
         d.at = worker[w].at \/ (d.at = "claiming" /\ worker[w].at = "idle"),
         d.lease = worker[w].lease, d.payload = worker[w].payload,
         d.beats # "off" => d.at \in {"working", "submitting"},
         d.waiting => d.at = "submitting",
         worker[w].waiting => d.waiting,
         \/ new.kind = "claim"
         \/ new.kind = "heartbeat" /\ Issued(new.lease)
         \/ /\ new.kind = "result" /\ new.from = w /\ d.waiting
            /\ new.lease = d.lease /\ new.payload = d.payload
  PROVE  WireInv'
<1> USE DEF WireInv
<1>1. WorkerTypeOK
  BY DEF WireRows
<1>2. /\ \A v \in Worker \ {w} : worker'[v] = worker[v]
      /\ worker'[w] = d
  BY <1>1 DEF WorkerTypeOK
<1>3. WorkerTypeOK'
  BY <1>1, <1>2 DEF WorkerTypeOK
<1>4. Calm
  BY KeptLeasesQuiet DEF Quiet, Calm
<1>5. DaemonsKeep
  BY <1>2 DEF DaemonsKeep, Busy, WireRows
<1>6. SentKeeps
  <2>1. ASSUME NEW r \in requests, r.kind = "heartbeat" PROVE Issued(r.lease)
    BY <2>1 DEF WireRows
  <2>2. ASSUME NEW r \in requests, r.kind = "result", r.live PROVE WillAwait(r.from, r.lease)
    BY <1>1, <1>2, <2>2 DEF Truths, Answers, WillAwait, WorkerTypeOK, Request
  <2>3. \A r \in requests : r.kind \in {"claim", "heartbeat", "result"}
    BY <1>1 DEF WorkerTypeOK, Request
  <2>4. new.kind = "result" => WillAwait(w, new.lease) /\ worker[w].at = "submitting"
    BY <1>2 DEF WillAwait
  <2>5. QED
    BY <2>1, <2>2, <2>3, <2>4 DEF SentKeeps, Answers
<1>7. RepliesKeep
  <2>1. ASSUME NEW p \in replies, p.kind = "result"
        PROVE  /\ WillAwait(p.to, p.lease) /\ p.code \in {200, 409}
               /\ p.code = 200 => leaseResult[p.lease] # "none"
               /\ p.code = 409 => Fate(p.lease)' = "void"
    BY <1>1, <1>2, <2>1 DEF Truths, Told, WorkerTypeOK, Reply, WillAwait, Fate
  <2>2. QED
    BY <2>1 DEF RepliesKeep
<1>8. HeardKeeps
  BY DEF HeardKeeps
<1>9. QED
  BY <1>3, <1>4, <1>5, <1>6, <1>7, <1>8, KeepStep

LEMMA SendClaimStep == ASSUME WireInv, NEW w \in Worker, SendClaim(w) PROVE WireInv'
<1> DEFINE d == [worker[w] EXCEPT !.at = "claiming"]
           new == [kind |-> "claim", from |-> w, lease |-> NoLease, payload |-> "none", live |-> TRUE]
<1>1. WorkerTypeOK /\ worker[w] \in Daemon /\ worker[w].at = "idle"
  BY DEF SendClaim, WireInv, WireRows, WorkerTypeOK
<1>2. /\ d \in Daemon /\ d.at = "claiming" /\ d.lease = worker[w].lease
      /\ d.payload = worker[w].payload /\ d.waiting = worker[w].waiting /\ d.beats = worker[w].beats
  BY <1>1 DEF Daemon
<1>3. new \in Request /\ new.kind = "claim"
  BY DEF Request
<1>4. worker[w].beats = "off" /\ ~ worker[w].waiting
  BY <1>1 DEF WireInv, WireRows, WorkerTypeOK
<1>5. worker' = [worker EXCEPT ![w] = d] /\ requests' = requests \cup {new}
  BY DEF SendClaim, Send
<1>6. UNCHANGED <<leaseStatus, leaseResult, ttl, replies, heard, faults>>
  BY DEF SendClaim, vars, leaseVars
<1>7. d.beats = "off" /\ ~ d.waiting
  BY <1>2, <1>4
<1> HIDE DEF d, new
<1>8. QED
  BY <1>1, <1>2, <1>3, <1>4, <1>5, <1>6, <1>7, SendStep

LEMMA SendHeartbeatStep == ASSUME WireInv, NEW w \in Worker, SendHeartbeat(w) PROVE WireInv'
<1> DEFINE d == [worker[w] EXCEPT !.beats = "waiting"]
           new == [kind |-> "heartbeat", from |-> w, lease |-> worker[w].lease, payload |-> "none",
                   live |-> TRUE]
<1>1. WorkerTypeOK /\ worker[w] \in Daemon /\ worker[w].at \in {"working", "submitting"}
  BY DEF SendHeartbeat, WireInv, WireRows, WorkerTypeOK
<1>2. /\ d \in Daemon /\ d.at = worker[w].at /\ d.lease = worker[w].lease
      /\ d.payload = worker[w].payload /\ d.waiting = worker[w].waiting
  BY <1>1 DEF Daemon
<1>3. new \in Request /\ new.kind = "heartbeat" /\ Issued(new.lease)
  BY <1>1 DEF Request, WireInv, WireRows, Busy, Daemon
<1>4. worker[w].waiting => worker[w].at = "submitting"
  BY DEF WireInv, WireRows
<1>5. worker' = [worker EXCEPT ![w] = d] /\ requests' = requests \cup {new}
  BY DEF SendHeartbeat, Send
<1>6. UNCHANGED <<leaseStatus, leaseResult, ttl, replies, heard, faults>>
  BY DEF SendHeartbeat, vars, leaseVars
<1> HIDE DEF d, new
<1>7. QED
  BY <1>1, <1>2, <1>3, <1>4, <1>5, <1>6, SendStep

LEMMA SendResultStep == ASSUME WireInv, NEW w \in Worker, SendResult(w) PROVE WireInv'
<1> DEFINE n == worker[w].tries + 1
           d == [worker[w] EXCEPT !.waiting = TRUE, !.tries = n]
           new == [kind |-> "result", from |-> w, lease |-> worker[w].lease,
                   payload |-> worker[w].payload, live |-> TRUE]
<1>1. WorkerTypeOK /\ worker[w] \in Daemon /\ worker[w].at = "submitting"
  BY DEF SendResult, WireInv, WireRows, WorkerTypeOK
<1>2. n \in 0..MaxTries
  BY <1>1, WorkerAssumption DEF Daemon, SendResult
<1> HIDE DEF n
<1>3. /\ d \in Daemon /\ d.at = worker[w].at /\ d.lease = worker[w].lease
      /\ d.payload = worker[w].payload /\ d.waiting
  BY <1>1, <1>2 DEF Daemon
<1>4. /\ new \in Request /\ new.kind = "result" /\ new.from = w
      /\ new.lease = worker[w].lease /\ new.payload = worker[w].payload
  BY <1>1 DEF Request, Daemon
<1>5. worker' = [worker EXCEPT ![w] = d] /\ requests' = requests \cup {new}
  BY <1>1 DEF SendResult, Send, WorkerTypeOK, n
<1>6. UNCHANGED <<leaseStatus, leaseResult, ttl, replies, heard, faults>>
  BY DEF SendResult, vars, leaseVars
<1> HIDE DEF d, new
<1>7. QED
  BY <1>1, <1>3, <1>4, <1>5, <1>6, SendStep

-------------------------------------------------------------------------------
(* Steps of the coordinator and of the network *)

\* Requests are served, lost or left; what is answered is true.
LEMMA ServedStep ==
  ASSUME WireInv, Calm, UNCHANGED <<worker, heard, faults>>, requests' \subseteq requests,
         \A p \in replies' \ replies :
           /\ p \in Reply
           /\ p.kind = "claim" => p.code # 200
           /\ p.kind = "result" => /\ worker[p.to].waiting /\ worker[p.to].lease = p.lease
                                   /\ p.code = 200 => leaseResult'[p.lease] # "none"
                                   /\ p.code # 200 => p.code = 409 /\ Fate(p.lease)' = "void"
  PROVE  WireInv'
<1> USE DEF WireInv
<1>1. WorkerTypeOK
  BY DEF WireRows
<1>2. WorkerTypeOK'
  BY <1>1 DEF WorkerTypeOK
<1>3. DaemonsKeep
  BY DEF DaemonsKeep, Busy, WireRows
<1>4. SentKeeps
  BY <1>1 DEF SentKeeps, WireRows, Truths, Answers, WillAwait, WorkerTypeOK, Request
<1>5. RepliesKeep
  <2>1. ASSUME NEW p \in replies, p.kind = "result"
        PROVE  /\ WillAwait(p.to, p.lease) /\ p.code \in {200, 409}
               /\ p.code = 200 => leaseResult'[p.lease] # "none"
               /\ p.code = 409 => Fate(p.lease)' = "void"
    <3>1. worker[p.to].lease \in Lease
      BY <1>1, <2>1 DEF Truths, Told, WorkerTypeOK, Reply, WireRows, Busy, Issued
    <3>2. QED
      BY <1>1, <2>1, <3>1 DEF Truths, Told, WillAwait, Calm
  <2>2. QED
    BY <2>1 DEF RepliesKeep, WillAwait
<1>6. HeardKeeps
  BY DEF HeardKeeps
<1>7. QED
  BY <1>2, <1>3, <1>4, <1>5, <1>6, KeepStep

LEMMA QuietIsCalm == Quiet => Calm
BY DEF Quiet, Calm

LEMMA InternalStep ==
  ASSUME IInv, WireInv, Requests \/ Groups \/ TimePasses \/ Expire \/ Loops, UNCHANGED wireVars
  PROVE  WireInv'
<1>1. CASE TimePasses
  <2>1. Calm
    BY <1>1, ClockVoids DEF Calm, WireInv
  <2>2. QED
    BY <2>1, ServedStep DEF wireVars
<1>2. CASE Requests \/ Groups \/ Expire \/ Loops
  <2>1. Calm
    BY <1>2, LoopsQuiet, ExpireQuiet, QuietIsCalm DEF WireInv
  <2>2. QED
    BY <2>1, ServedStep DEF wireVars
<1>3. QED
  BY <1>1, <1>2

LEMMA LoseStep == ASSUME WireInv, NEW r \in requests, LoseRequest(r) PROVE WireInv'
<1>1. Calm
  BY KeptLeasesQuiet, QuietIsCalm DEF LoseRequest, vars, leaseVars, WireInv
<1>2. QED
  BY <1>1, ServedStep DEF LoseRequest

LEMMA ServeHeartbeatStep ==
  ASSUME IInv, WireInv, NEW r \in requests, ServeHeartbeat(r) PROVE WireInv'
<1>1. r \in Request /\ r.lease \in Lease /\ r.kind = "heartbeat"
  BY DEF ServeHeartbeat, WireInv, WireRows, WorkerTypeOK, Issued
<1>2. Calm
  BY <1>1, HeartbeatQuiet, KeptLeasesQuiet, QuietIsCalm DEF ServeHeartbeat, vars, leaseVars, WireInv
<1>3. /\ requests' \subseteq requests
      /\ \A p \in replies' \ replies : p \in Reply /\ p.kind = "heartbeat"
  BY <1>1 DEF ServeHeartbeat, Respond, Reply, Request
<1>4. QED
  BY <1>2, <1>3, ServedStep DEF ServeHeartbeat

\* A claim that finds no job, a repeated answer, and an answer that comes too late.
LEMMA NoContentStep ==
  ASSUME IInv, WireInv, NEW r \in requests, r.kind = "claim", Expire \/ UNCHANGED vars,
         Respond(r, NoLease, 204), UNCHANGED <<worker, heard, faults>>
  PROVE  WireInv'
<1>1. r \in Request
  BY DEF WireInv, WireRows, WorkerTypeOK
<1>2. Calm
  BY ExpireQuiet, KeptLeasesQuiet, QuietIsCalm DEF vars, leaseVars, WireInv
<1>3. /\ requests' \subseteq requests
      /\ \A p \in replies' \ replies : p \in Reply /\ p.kind = "claim" /\ p.code # 200
  BY <1>1 DEF Respond, Reply, Request
<1>4. QED
  BY <1>2, <1>3, ServedStep

LEMMA RepeatedStep ==
  ASSUME IInv, WireInv, NEW r \in requests, r.kind = "result", NEW code \in {200, 409},
         IF code = 200 THEN Repeats(r.lease, r.payload)
         ELSE ~ Repeats(r.lease, r.payload) /\ (leaseResult[r.lease] # "none" \/ ~ Holds(r.lease)),
         UNCHANGED <<vars, worker, heard, faults>>, Respond(r, r.lease, code)
  PROVE  WireInv'
<1>1. r \in Request /\ Issued(r.lease) /\ r.payload \in Payload /\ r \in Answers
  BY DEF WireInv, WireRows, WorkerTypeOK, Answers
<1>2. Calm
  BY KeptLeasesQuiet, QuietIsCalm DEF vars, leaseVars, WireInv
<1>3. code = 200 => leaseResult[r.lease] # "none"
  BY <1>1 DEF Repeats, Payload
<1>4. code = 409 => Fate(r.lease) = "void"
  <2> SUFFICES ASSUME code = 409 PROVE Fate(r.lease) = "void"
    OBVIOUS
  <2>1. leaseResult[r.lease] = "none" /\ ~ Holds(r.lease)
    BY <1>1 DEF Repeats, WireInv, Copies
  <2>2. leaseStatus[r.lease] \in LeaseStatus /\ ttl[r.lease] \in Nat
    BY <1>1, LimitAssumption DEF IInv, TypeOK, Issued
  <2>3. leaseStatus[r.lease] \in {"active", "expired"}
    BY <1>1, <2>1, <2>2 DEF WireInv, ClosedLeases, Issued, LeaseStatus
  <2>4. QED
    BY <2>1, <2>2, <2>3 DEF Fate, Holds
<1>5. leaseResult' = leaseResult /\ Fate(r.lease)' = Fate(r.lease)
  BY DEF vars, leaseVars, Fate
<1>6. /\ requests' \subseteq requests
      /\ \A p \in replies' \ replies :
           p \in Reply /\ p.kind = "result" /\ p.code = code /\ p.lease = r.lease /\ p.to = r.from /\ r.live
  BY <1>1 DEF Respond, Reply, Request
<1>7. r.live => worker[r.from].waiting /\ worker[r.from].lease = r.lease
  BY <1>1 DEF WireInv, Truths
<1>8. QED
  BY <1>2, <1>3, <1>4, <1>5, <1>6, <1>7, ServedStep

\* An answer is recorded: every copy of it, and the daemon that submits it, carry the same.
LEMMA RecordStep ==
  ASSUME IInv, WireInv, NEW r \in requests, r.kind = "result", Result(r.lease, r.payload),
         Respond(r, r.lease, 200), UNCHANGED <<worker, heard, faults>>
  PROVE  WireInv'
<1> USE DEF WireInv, WireRows, Holders, Copies, Truths
<1> DEFINE l == r.lease
<1>1. /\ r \in Request /\ l \in Lease /\ r.payload \in Payload /\ r \in Answers /\ WorkerTypeOK
  BY DEF WorkerTypeOK, Answers, Issued
<1>2. /\ Fate(l) = "open" /\ leaseResult'[l] = r.payload
      /\ \A m \in Lease \ {l} : leaseResult'[m] = leaseResult[m] /\ Fate(m)' = Fate(m)
      /\ \A m \in Lease : leaseStatus[m] # "absent" => leaseStatus'[m] # "absent"
      /\ ClosedLeases'
  BY <1>1, ResultRecords
<1>3. /\ requests' = requests \ {r} /\ Answers' \subseteq Answers /\ Grants' = Grants
      /\ worker' = worker /\ heard' = heard
      /\ \A m : Issued(m) => Issued(m)'
  BY <1>1, <1>2 DEF Respond, Answers, Grants, Issued
<1>4. WireRows'
  <2>1. WorkerTypeOK'
    BY <1>1 DEF WorkerTypeOK, Respond, Request, Reply
  <2>2. QED
    BY <1>3, <2>1 DEF Busy
<1>5. Holders'
  BY <1>3 DEF Busy
<1>6. Copies'
  <2>1. \A q \in Answers' : leaseResult'[q.lease] \in {"none", q.payload}
    BY <1>1, <1>2, <1>3 DEF Answers, Issued
  <2>2. \A w \in Worker : worker[w].at = "submitting" => leaseResult'[worker[w].lease] \in {"none", worker[w].payload}
    BY <1>1, <1>2 DEF Busy, Issued
  <2>3. \A w \in Worker : worker[w].at = "working" => leaseResult'[worker[w].lease] = "none"
    BY <1>1, <1>2 DEF Busy, Issued
  <2>4. \A p \in Grants : leaseResult'[p.lease] = "none"
    BY <1>1, <1>2 DEF Issued
  <2>5. QED
    BY <1>3, <2>1, <2>2, <2>3, <2>4 DEF Busy
<1>7. Truths'
  <2>1. \A q \in Answers' : q.live => worker'[q.from].waiting /\ worker'[q.from].lease = q.lease
    BY <1>3
  <2>2. ASSUME NEW p \in Told'
        PROVE  /\ worker'[p.to].waiting /\ worker'[p.to].lease = p.lease
               /\ p.code \in {200, 409}
               /\ p.code = 200 => leaseResult'[p.lease] # "none"
               /\ p.code = 409 => Fate(p.lease)' = "void"
    <3>1. CASE p \in Told
      <4>1. p.lease \in Lease /\ worker[p.to].waiting /\ worker[p.to].lease = p.lease
        BY <1>1, <3>1 DEF Told, WorkerTypeOK, Reply, Busy, Issued
      <4>2. CASE p.lease = l
        BY <1>1, <1>2, <1>3, <3>1, <4>1, <4>2 DEF Payload
      <4>3. CASE p.lease # l
        BY <1>2, <1>3, <3>1, <4>1, <4>3
      <4>4. QED
        BY <4>2, <4>3
    <3>2. CASE p \notin Told
      <4>1. r.live /\ p.to = r.from /\ p.lease = l /\ p.code = 200
        BY <3>2 DEF Told, Respond
      <4>2. QED
        BY <1>1, <1>2, <1>3, <4>1 DEF Payload
    <3>3. QED
      BY <3>1, <3>2
  <2>3. QED
    BY <2>1, <2>2
<1>8. QED
  BY <1>2, <1>4, <1>5, <1>6, <1>7

\* A lease is granted: it is new, so nothing on the wires names it yet.
LEMMA GrantStep ==
  ASSUME IInv, WireInv, NEW r \in requests, r.kind = "claim",
         NEW j, NEW l \in Lease, Claim(Offers[r.from], j, l),
         Respond(r, l, 200), UNCHANGED <<worker, heard, faults>>
  PROVE  WireInv'
<1> USE DEF WireInv, WireRows, Holders, Copies, Truths
<1> DEFINE q == [kind |-> "claim", to |-> r.from, lease |-> l, code |-> 200]
<1>1. r \in Request /\ q \in Reply /\ q.lease = l /\ q.kind = "claim" /\ WorkerTypeOK
  BY DEF WorkerTypeOK, Request, Reply
<1>2. Quiet /\ leaseStatus[l] = "absent" /\ leaseStatus'[l] = "active"
  BY ClaimQuiet
<1>3. leaseResult' = leaseResult /\ leaseResult[l] = "none"
  BY <1>2 DEF Quiet, IInv, RowInv
<1>4. /\ requests' = requests \ {r} /\ replies \subseteq replies' /\ replies' \subseteq replies \cup {q}
      /\ worker' = worker /\ heard' = heard
      /\ \A m : Issued(m) => Issued(m)' /\ m # l
      /\ Issued(l)'
  BY <1>2 DEF Respond, Issued, Quiet
<1> HIDE DEF q
<1>5. Answers' = Answers /\ Told' = Told /\ Grants \subseteq Grants' /\ Grants' \subseteq Grants \cup {q}
  BY <1>1, <1>4 DEF Answers, Told, Grants
<1>6. WireRows'
  <2>1. WorkerTypeOK'
    BY <1>1, <1>4 DEF WorkerTypeOK
  <2>2. QED
    BY <1>1, <1>4, <1>5, <2>1 DEF Busy
<1>7. Holders'
  BY <1>1, <1>4, <1>5 DEF Busy
<1>8. Copies'
  <2>1. \A a \in Answers : a.lease # l
    BY <1>4 DEF Answers
  <2>2. QED
    BY <1>1, <1>3, <1>4, <1>5, <2>1 DEF Busy
<1>9. Truths'
  <2>1. \A p \in Told : p.lease \in Lease
    BY <1>1 DEF Told, WorkerTypeOK, Reply, Busy, Issued
  <2>2. \A m \in Lease : Fate(m)' = Fate(m)
    BY <1>2 DEF Quiet
  <2>3. QED
    BY <1>3, <1>4, <1>5, <2>1, <2>2
<1>10. QED
  BY <1>2, <1>6, <1>7, <1>8, <1>9 DEF Quiet

\* A lease is taken up by the daemon it was granted to.
LEMMA TakenStep ==
  ASSUME WireInv, NEW w \in Worker, NEW p \in Grants, NEW d \in Daemon, worker[w].at = "claiming",
         d.lease = p.lease, ~ d.waiting,
         d.at = "working" \/ (d.at = "submitting" /\ d.payload \in Payload),
         worker' = [worker EXCEPT ![w] = d], replies' = replies \ {p},
         UNCHANGED <<vars, requests, heard, faults>>
  PROVE  WireInv'
<1> USE DEF WireInv, WireRows, Holders, Copies, Truths
<1>1. /\ WorkerTypeOK /\ ~ Busy(w) /\ ~ worker[w].waiting /\ p \in replies /\ Issued(p.lease)
      /\ leaseResult[p.lease] = "none" /\ heard[p.lease] = "none"
  BY DEF Grants, Busy
<1>2. /\ \A v \in Worker \ {w} : worker'[v] = worker[v]
      /\ worker'[w] = d /\ Busy(w)'
  BY <1>1 DEF WorkerTypeOK, Busy
<1>3. /\ Answers' = Answers /\ Told' = Told /\ Grants' = Grants \ {p} /\ leaseResult' = leaseResult
      /\ \A m : Issued(m)' <=> Issued(m)
  BY DEF Answers, Told, Grants, vars, leaseVars, Issued
<1>4. \A v \in Worker \ {w} : Busy(v)' <=> Busy(v)
  BY <1>2 DEF Busy
<1>5. WireRows'
  <2>1. WorkerTypeOK'
    BY <1>1, <1>2 DEF WorkerTypeOK
  <2>2. \A v \in Worker : /\ Busy(v)' => Issued(worker[v].lease)'
                          /\ worker'[v].at = "submitting" => worker'[v].payload \in Payload
                          /\ worker'[v].waiting => worker'[v].at = "submitting"
    BY <1>1, <1>2, <1>3, <1>4
  <2>3. QED
    BY <1>1, <1>3, <2>1, <2>2
<1>6. Holders'
  BY <1>1, <1>2, <1>3, <1>4
<1>7. Copies'
  <2>1. \A r \in Answers, v \in Worker : Busy(v)' /\ worker'[v].lease = r.lease =>
           worker'[v].at = "submitting" /\ worker'[v].payload = r.payload
    BY <1>2, <1>4
  <2>2. \A v \in Worker : /\ worker'[v].at = "working" => leaseResult[worker'[v].lease] = "none"
                          /\ worker'[v].at = "submitting" =>
                               leaseResult[worker'[v].lease] \in {"none", worker'[v].payload}
    BY <1>1, <1>2
  <2>3. QED
    BY <1>3, <2>1, <2>2
<1>8. Truths'
  <2>1. \A v \in Worker : worker[v].waiting => worker'[v] = worker[v]
    BY <1>1, <1>2
  <2>2. \A r \in Answers : r.from \in Worker
    BY <1>1 DEF Answers, WorkerTypeOK, Request
  <2>3. \A a \in Told : a.to \in Worker
    BY <1>1 DEF Told, WorkerTypeOK, Reply
  <2>4. \A m : Fate(m)' = Fate(m)
    BY DEF Fate, vars, leaseVars
  <2>5. QED
    BY <1>3, <2>1, <2>2, <2>3, <2>4
<1>9. QED
  BY <1>5, <1>6, <1>7, <1>8 DEF ClosedLeases, vars, leaseVars

LEMMA ClaimAnsweredStep ==
  ASSUME WireInv, NEW w \in Worker, NEW p \in replies, ClaimAnswered(w, p) PROVE WireInv'
<1> DEFINE taken == [IdleDaemon EXCEPT !.at = "working", !.lease = p.lease, !.beats = "on"]
           refused == [IdleDaemon EXCEPT !.at = "submitting", !.lease = p.lease, !.payload = "rejected"]
<1>1. /\ p \in Reply /\ p.kind = "claim" /\ replies' = replies \ {p} /\ faults' \in 0..MaxFaults
      /\ worker[w].at = "claiming" /\ UNCHANGED <<vars, requests, heard, faults>>
  BY DEF ClaimAnswered, Received, WireInv, WireRows, WorkerTypeOK
<1>2. IdleDaemon \in Daemon
  BY WorkerAssumption DEF IdleDaemon, Daemon
<1>3. /\ taken \in Daemon /\ taken.at = "working" /\ taken.lease = p.lease /\ ~ taken.waiting
      /\ refused \in Daemon /\ refused.at = "submitting" /\ refused.lease = p.lease
      /\ ~ refused.waiting /\ refused.payload \in Payload
  <2>1. p.lease \in Lease \cup {NoLease} /\ 0 \in 0..MaxTries /\ "rejected" \in Payload
    BY <1>1, WorkerAssumption DEF Reply, Payload
  <2>2. taken \in Daemon /\ taken.at = "working" /\ taken.lease = p.lease /\ ~ taken.waiting
    BY <2>1 DEF Daemon, IdleDaemon
  <2>3. /\ refused \in Daemon /\ refused.at = "submitting" /\ refused.lease = p.lease
        /\ ~ refused.waiting /\ refused.payload = "rejected"
    BY <2>1 DEF Daemon, IdleDaemon
  <2>4. QED
    BY <2>1, <2>2, <2>3
<1>4. \/ worker' = [worker EXCEPT ![w] = IdleDaemon]
      \/ p.code = 200 /\ worker' = [worker EXCEPT ![w] = taken]
      \/ p.code = 200 /\ worker' = [worker EXCEPT ![w] = refused]
  BY DEF ClaimAnswered
<1> HIDE DEF taken, refused
<1>5. p.code = 200 => p \in Grants
  BY <1>1 DEF Grants
<1>6. CASE worker' = [worker EXCEPT ![w] = IdleDaemon]
  <2>1. requests' = Strays(w, {}) /\ replies' \subseteq Dropped(w, {})
    BY <1>1, NoStrays
  <2>2. ~ worker[w].waiting /\ IdleDaemon.at = "idle" /\ IdleDaemon.beats = "off" /\ ~ IdleDaemon.waiting
    BY <1>1 DEF WireInv, WireRows, IdleDaemon
  <2>3. UNCHANGED <<leaseStatus, leaseResult, ttl, heard>>
    BY <1>1 DEF vars, leaseVars
  <2>4. QED
    BY <1>1, <1>2, <1>6, <2>1, <2>2, <2>3, GiveUpStep
<1>7. CASE p.code = 200 /\ worker' = [worker EXCEPT ![w] = taken]
  BY <1>1, <1>3, <1>5, <1>7, TakenStep
<1>8. CASE p.code = 200 /\ worker' = [worker EXCEPT ![w] = refused]
  BY <1>1, <1>3, <1>5, <1>8, TakenStep
<1>9. QED
  BY <1>4, <1>6, <1>7, <1>8

LEMMA ServeClaimStep ==
  ASSUME IInv, WireInv, NEW r \in requests, ServeClaim(r) PROVE WireInv' /\ [Next]_vars
<1>1. r \in Request
  BY DEF WireInv, WireRows, WorkerTypeOK
<1>2. Offers[r.from] \in SUBSET Kind
  BY <1>1, WorkerAssumption DEF Request
<1>3. ASSUME NEW j \in Claimable(Offers[r.from]), NEW l \in Lease \ LeaseRows,
             Claim(Offers[r.from], j, l), Respond(r, l, 200)
      PROVE  WireInv' /\ [Next]_vars
  <2>1. WireInv'
    BY <1>3, GrantStep DEF ServeClaim
  <2>2. ClaimAny(Offers[r.from])
    BY <1>3 DEF ClaimAny
  <2>3. QED
    BY <1>2, <2>1, <2>2 DEF Next, Workers
<1>4. ASSUME Expire \/ UNCHANGED vars, Respond(r, NoLease, 204) PROVE WireInv' /\ [Next]_vars
  BY <1>4, NoContentStep DEF ServeClaim, Next, Workers
<1>5. QED
  BY <1>3, <1>4 DEF ServeClaim

LEMMA ServeResultStep ==
  ASSUME IInv, WireInv, NEW r \in requests, ServeResult(r) PROVE WireInv' /\ [Next]_vars
<1>1. r.kind = "result" /\ r.lease \in Lease /\ r.payload \in Payload
  BY DEF ServeResult, WireInv, WireRows, Issued
<1>2. CASE Repeats(r.lease, r.payload) /\ UNCHANGED vars /\ Respond(r, r.lease, 200)
  BY <1>1, <1>2, RepeatedStep DEF ServeResult
<1>3. CASE Within(r.payload) /\ Result(r.lease, r.payload) /\ Respond(r, r.lease, 200)
  <2>1. WireInv'
    BY <1>1, <1>3, RecordStep DEF ServeResult
  <2>2. Answer(r.lease)
    BY <1>1, <1>3 DEF Answer
  <2>3. QED
    BY <1>1, <2>1, <2>2 DEF Next, Workers
<1>4. CASE /\ ~ Repeats(r.lease, r.payload)
           /\ leaseResult[r.lease] # "none" \/ ~ Holds(r.lease)
           /\ UNCHANGED vars /\ Respond(r, r.lease, 409)
  BY <1>1, <1>4, RepeatedStep DEF ServeResult
<1>5. QED
  BY <1>2, <1>3, <1>4 DEF ServeResult

LEMMA DaemonsStep ==
  ASSUME IInv, WireInv, NEW w \in Worker, Daemons(w) PROVE WireInv' /\ UNCHANGED vars
<1>1. CASE SendClaim(w) \/ SendHeartbeat(w) \/ SendResult(w)
  BY <1>1, SendClaimStep, SendHeartbeatStep, SendResultStep DEF SendClaim, SendHeartbeat, SendResult
<1>2. CASE ClaimFails(w) \/ HeartbeatFails(w) \/ ResultFails(w) \/ Kill(w)
  BY <1>2, ClaimFailsStep, HeartbeatFailsStep, ResultFailsStep, KillStep
     DEF ClaimFails, HeartbeatFails, ResultFails, Kill
<1>3. ASSUME NEW p \in replies, ClaimAnswered(w, p) \/ HeartbeatAnswered(w, p) \/ ResultAnswered(w, p)
      PROVE  WireInv' /\ UNCHANGED vars
  BY <1>3, ClaimAnsweredStep, HeartbeatAnsweredStep, ResultAnsweredStep
     DEF ClaimAnswered, HeartbeatAnswered, ResultAnswered
<1>4. ASSUME NEW p \in Payload, Execute(w, p) PROVE WireInv' /\ UNCHANGED vars
  BY <1>4, ExecuteStep DEF Execute
<1>5. QED
  BY <1>1, <1>2, <1>3, <1>4 DEF Daemons

\* Whatever the wires do, the queue takes a step of its own or none.
LEMMA ProtocolStep ==
  ASSUME IInv, WireInv, [WorkerNext]_protoVars PROVE WireInv' /\ [Next]_vars
<1>1. CASE UNCHANGED protoVars
  <2>1. UNCHANGED <<leaseStatus, leaseResult, ttl>> /\ UNCHANGED vars /\ UNCHANGED wireVars
    BY <1>1 DEF protoVars, vars, leaseVars
  <2>2. Calm
    BY <2>1, KeptLeasesQuiet, QuietIsCalm DEF WireInv
  <2>3. WireInv'
    BY <2>1, <2>2, ServedStep DEF wireVars
  <2>4. QED
    BY <2>1, <2>3
<1>2. CASE (Requests \/ Groups \/ TimePasses \/ Expire \/ Loops) /\ UNCHANGED wireVars
  BY <1>2, InternalStep DEF Next, Workers
<1>3. ASSUME NEW r \in requests, ServeHeartbeat(r) PROVE WireInv' /\ [Next]_vars
  <2>1. r.lease \in Lease
    BY <1>3 DEF ServeHeartbeat, WireInv, WireRows, Issued
  <2>2. QED
    BY <1>3, <2>1, ServeHeartbeatStep DEF ServeHeartbeat, Next, Workers
<1>4. ASSUME NEW r \in requests, LoseRequest(r) PROVE WireInv' /\ UNCHANGED vars
  BY <1>4, LoseStep DEF LoseRequest
<1>5. QED
  BY <1>1, <1>2, <1>3, <1>4, ServeClaimStep, ServeResultStep, DaemonsStep DEF WorkerNext, Serve

LEMMA WireInit == WorkerInit => Init /\ WireInv
<1> SUFFICES ASSUME WorkerInit PROVE Init /\ WireInv
  OBVIOUS
<1>1. IdleDaemon \in Daemon /\ IdleDaemon.at = "idle" /\ IdleDaemon.beats = "off" /\ ~ IdleDaemon.waiting
  BY WorkerAssumption DEF IdleDaemon, Daemon
<1>2. \A w \in Worker : worker[w] = IdleDaemon
  BY DEF WorkerInit
<1>3. WorkerTypeOK
  BY <1>1, <1>2, WorkerAssumption DEF WorkerInit, WorkerTypeOK
<1>4. WireRows /\ Holders /\ Copies /\ Truths
  BY <1>1, <1>2, <1>3 DEF WorkerInit, WireRows, Holders, Copies, Truths, Answers, Grants, Told, Busy
<1>5. ClosedLeases
  BY DEF WorkerInit, Init, ClosedLeases
<1>6. QED
  BY <1>4, <1>5 DEF WireInv, WorkerInit

LEMMA WireHolds == WorkerSpec => [](IInv /\ WireInv)
<1>1. WorkerInit => IInv /\ WireInv
  BY WireInit, InitInv
<1>2. IInv /\ WireInv /\ [WorkerNext]_protoVars => (IInv /\ WireInv)'
  BY ProtocolStep, NextInv
<1>3. QED
  BY <1>1, <1>2, PTL DEF WorkerSpec

-------------------------------------------------------------------------------
(* What an unknown answer has cost *)

\* Every attempt to submit but the one under way has failed; heard of as unknown after the last.
Effort ==
  /\ \A w \in Worker : worker[w].tries <= faults + (IF worker[w].waiting THEN 1 ELSE 0)
  /\ \A l \in Lease : heard[l] = "unknown" => faults >= MaxTries

LEMMA EffortReturn ==
  ASSUME WireInv, Effort, NEW w \in Worker, NEW h \in {"accepted", "refused", "unknown"}, Return(w, h),
         worker[w].waiting, faults' \in 0..MaxFaults, faults' >= faults,
         h = "unknown" => faults' = faults + 1 /\ ~ (worker[w].tries < MaxTries)
  PROVE  Effort'
<1>1. /\ worker \in [Worker -> Daemon] /\ heard \in [Lease -> {"none", "accepted", "refused", "unknown"}]
      /\ faults \in Nat /\ faults' \in Nat /\ MaxTries \in Nat
  BY WorkerAssumption DEF WireInv, WireRows, WorkerTypeOK
<1>2. \A v \in Worker : worker[v].tries \in Nat
  BY <1>1, WorkerAssumption DEF Daemon
<1>3. /\ \A v \in Worker \ {w} : worker'[v] = worker[v]
      /\ worker'[w].tries = 0
      /\ \A l \in Lease : heard'[l] = heard[l] \/ heard'[l] = h
  BY <1>1 DEF Return, Done, IdleDaemon
<1>4. h = "unknown" => faults' >= MaxTries
  BY <1>1, <1>2 DEF Effort
<1>5. \A v \in Worker : worker'[v].tries <= faults' + (IF worker'[v].waiting THEN 1 ELSE 0)
  <2>1. ASSUME NEW v \in Worker \ {w} PROVE worker'[v].tries <= faults' + (IF worker'[v].waiting THEN 1 ELSE 0)
    BY <1>1, <1>2, <1>3 DEF Effort
  <2>2. QED
    BY <1>1, <1>3, <2>1
<1>6. \A l \in Lease : heard'[l] = "unknown" => faults' >= MaxTries
  BY <1>1, <1>3, <1>4 DEF Effort
<1>7. QED
  BY <1>5, <1>6 DEF Effort

LEMMA EffortKept ==
  ASSUME WireInv, Effort, NEW w \in Worker, NEW d \in Daemon, worker' = [worker EXCEPT ![w] = d],
         heard' = heard, faults' \in 0..MaxFaults, faults' >= faults,
         d.tries <= faults' + (IF d.waiting THEN 1 ELSE 0)
  PROVE  Effort'
<1>1. worker \in [Worker -> Daemon] /\ faults \in Nat /\ faults' \in Nat /\ MaxTries \in Nat
  BY WorkerAssumption DEF WireInv, WireRows, WorkerTypeOK
<1>2. \A v \in Worker : worker[v].tries \in Nat
  BY <1>1, WorkerAssumption DEF Daemon
<1>3. worker'[w] = d /\ \A v \in Worker \ {w} : worker'[v] = worker[v]
  BY <1>1
<1>4. \A v \in Worker \ {w} : worker'[v].tries <= faults' + (IF worker'[v].waiting THEN 1 ELSE 0)
  BY <1>1, <1>2, <1>3 DEF Effort
<1>5. QED
  BY <1>1, <1>3, <1>4 DEF Effort

LEMMA EffortStep ==
  ASSUME IInv, WireInv, WireInv', Effort, [WorkerNext]_protoVars PROVE Effort'
<1>1. /\ worker \in [Worker -> Daemon] /\ worker' \in [Worker -> Daemon]
      /\ faults \in 0..MaxFaults /\ faults' \in 0..MaxFaults
  BY DEF WireInv, WireRows, WorkerTypeOK
<1>2. CASE UNCHANGED <<worker, heard, faults>>
  BY <1>2 DEF Effort
<1>3. ASSUME NEW w \in Worker, Daemons(w) PROVE Effort'
  <2>1. /\ worker[w] \in Daemon /\ worker'[w] \in Daemon /\ worker[w].tries \in Nat
        /\ IdleDaemon.tries = 0 /\ faults \in Nat
        /\ worker[w].tries <= faults + (IF worker[w].waiting THEN 1 ELSE 0)
    BY <1>1, WorkerAssumption DEF Daemon, Effort, IdleDaemon
  <2>2. ASSUME heard' = heard, faults' >= faults, worker' = [worker EXCEPT ![w] = worker'[w]],
               worker'[w].tries <= faults' + (IF worker'[w].waiting THEN 1 ELSE 0)
        PROVE  Effort'
    BY <1>1, <2>1, <2>2, EffortKept
  <2>3. CASE SendClaim(w) \/ SendHeartbeat(w) \/ \E p \in Payload : Execute(w, p)
    <3>1. heard' = heard /\ faults' = faults /\ worker' = [worker EXCEPT ![w] = worker'[w]]
      BY <1>1, <2>3 DEF SendClaim, SendHeartbeat, Execute
    <3>2. worker'[w].tries = worker[w].tries /\ worker'[w].waiting = worker[w].waiting
      BY <1>1, <2>1, <2>3 DEF SendClaim, SendHeartbeat, Execute, Daemon
    <3>3. QED
      BY <2>1, <2>2, <3>1, <3>2
  <2>4. CASE SendResult(w)
    <3>1. heard' = heard /\ faults' = faults /\ worker' = [worker EXCEPT ![w] = worker'[w]]
      BY <1>1, <2>4 DEF SendResult
    <3>2. worker'[w].tries = worker[w].tries + 1 /\ worker'[w].waiting /\ ~ worker[w].waiting
      BY <1>1, <2>1, <2>4 DEF SendResult, Daemon
    <3>3. QED
      BY <2>1, <2>2, <3>1, <3>2
  <2>5. CASE ClaimFails(w) \/ Kill(w)
    <3>1. heard' = heard /\ faults' = faults + 1 /\ worker' = [worker EXCEPT ![w] = IdleDaemon]
      BY <2>5 DEF ClaimFails, Kill
    <3>2. worker'[w] = IdleDaemon
      BY <1>1, <3>1
    <3>3. QED
      BY <1>1, <2>1, <2>2, <3>1, <3>2
  <2>6. ASSUME NEW p \in replies, ClaimAnswered(w, p) PROVE Effort'
    <3> DEFINE taken == [IdleDaemon EXCEPT !.at = "working", !.lease = p.lease, !.beats = "on"]
               refused == [IdleDaemon EXCEPT !.at = "submitting", !.lease = p.lease, !.payload = "rejected"]
    <3>1. heard' = heard /\ faults' = faults
      BY <2>6 DEF ClaimAnswered
    <3>2. \E d \in {IdleDaemon, taken, refused} : worker' = [worker EXCEPT ![w] = d]
      BY <2>6 DEF ClaimAnswered
    <3>3. taken.tries = 0 /\ refused.tries = 0
      BY DEF IdleDaemon
    <3> HIDE DEF taken, refused
    <3>4. worker' = [worker EXCEPT ![w] = worker'[w]] /\ worker'[w].tries = 0
      BY <1>1, <2>1, <3>2, <3>3
    <3>5. QED
      BY <1>1, <2>1, <2>2, <3>1, <3>4
  <2>7. CASE HeartbeatFails(w) \/ \E p \in replies : HeartbeatAnswered(w, p)
    <3>1. heard' = heard /\ faults' >= faults /\ worker' = [worker EXCEPT ![w] = worker'[w]]
      BY <1>1, <2>1, <2>7 DEF HeartbeatFails, HeartbeatAnswered, HeartStops
    <3>2. worker'[w].tries = worker[w].tries /\ worker'[w].waiting = worker[w].waiting
      BY <1>1, <2>1, <2>7 DEF HeartbeatFails, HeartbeatAnswered, HeartStops, Daemon
    <3>3. QED
      BY <1>1, <2>1, <2>2, <3>1, <3>2
  <2>8. CASE ResultFails(w)
    <3>1. faults' = faults + 1 /\ worker[w].waiting
      BY <2>8 DEF ResultFails
    <3>2. CASE worker[w].tries < MaxTries
      <4>1. heard' = heard /\ worker' = [worker EXCEPT ![w] = worker'[w]]
        BY <1>1, <2>1, <2>8, <3>2 DEF ResultFails
      <4>2. worker'[w].tries = worker[w].tries /\ ~ worker'[w].waiting
        BY <1>1, <2>1, <2>8, <3>2 DEF ResultFails, Daemon
      <4>3. QED
        BY <1>1, <2>1, <2>2, <3>1, <4>1, <4>2
    <3>3. CASE ~ (worker[w].tries < MaxTries)
      BY <1>1, <2>1, <2>8, <3>1, <3>3, EffortReturn DEF ResultFails
    <3>4. QED
      BY <3>2, <3>3
  <2>9. ASSUME NEW p \in replies, ResultAnswered(w, p) PROVE Effort'
    BY <1>1, <2>1, <2>9, EffortReturn DEF ResultAnswered
  <2>10. QED
    BY <1>3, <2>3, <2>4, <2>5, <2>6, <2>7, <2>8, <2>9 DEF Daemons
<1>4. QED
  BY <1>2, <1>3 DEF WorkerNext, Serve, ServeClaim, ServeHeartbeat, ServeResult, LoseRequest, wireVars,
                    protoVars

-------------------------------------------------------------------------------
(* The fate of an answer, step by step *)

Fates == [l \in Lease |-> Fate(l)]
PromiseNext == [Promise!Next]_<<Fates, heard>>

LEMMA QuietPromise == ASSUME Quiet, heard' = heard PROVE PromiseNext
<1>1. Fates' = Fates
  BY DEF Quiet, Fates
<1>2. QED
  BY <1>1 DEF PromiseNext

LEMMA ClockPromise == ASSUME IInv, ClosedLeases, TimePasses, heard' = heard PROVE PromiseNext
<1> DEFINE lapsed == {l \in Lease : Fate(l) = "open" /\ Fate(l)' = "void"}
<1>1. \A l \in lapsed : Fates[l] = "open"
  BY DEF Fates
<1>2. \A l \in Lease : Fate(l)' = IF l \in lapsed THEN "void" ELSE Fate(l)
  BY ClockVoids
<1>3. Fates' = [l \in Lease |-> IF l \in lapsed THEN "void" ELSE Fates[l]]
  BY <1>2 DEF Fates
<1>4. lapsed \in SUBSET Lease
  OBVIOUS
<1> HIDE DEF lapsed
<1>5. QED
  BY <1>1, <1>3, <1>4 DEF PromiseNext, Promise!Next, Promise!Void, Fates

LEMMA RecordPromise ==
  ASSUME IInv, ClosedLeases, NEW l \in Lease, NEW p \in Payload, Result(l, p), heard' = heard
  PROVE  PromiseNext
<1>1. Fates[l] = "open" /\ Fates' = [Fates EXCEPT ![l] = "recorded"]
  BY ResultRecords DEF Fates
<1>2. QED
  BY <1>1 DEF PromiseNext, Promise!Next, Promise!Close, Fates

LEMMA HearPromise ==
  ASSUME WireInv, NEW w \in Worker, worker[w].waiting, NEW h \in {"accepted", "refused", "unknown"},
         Return(w, h), UNCHANGED vars,
         h = "accepted" => leaseResult[worker[w].lease] # "none",
         h = "refused" => Fate(worker[w].lease) = "void"
  PROVE  PromiseNext
<1> DEFINE l == worker[w].lease
<1>1. l \in Lease /\ heard[l] = "none"
  BY DEF WireInv, WireRows, Holders, Busy, Issued
<1>2. Fates' = Fates
  BY DEF Fates, Fate, vars, leaseVars
<1>3. h = "accepted" => Fates[l] = "recorded"
  BY <1>1 DEF Fates, Fate
<1>4. h = "refused" => Fates[l] = "void"
  BY <1>1 DEF Fates
<1>5. heard' = [heard EXCEPT ![l] = h]
  BY DEF Return
<1>6. QED
  BY <1>1, <1>2, <1>3, <1>4, <1>5 DEF PromiseNext, Promise!Next, Promise!Hear, Fates

LEMMA DaemonsPromise ==
  ASSUME IInv, WireInv, NEW w \in Worker, Daemons(w) PROVE PromiseNext
<1>1. UNCHANGED vars
  BY DaemonsStep
<1>2. heard' = heard => PromiseNext
  BY <1>1, KeptLeasesQuiet, QuietPromise DEF WireInv, vars, leaseVars
<1>3. ASSUME NEW p \in replies, ResultAnswered(w, p) PROVE PromiseNext
  <2>1. /\ worker[w].waiting /\ p \in Told /\ p.to = w
        /\ Return(w, IF p.code = 200 THEN "accepted" ELSE "refused")
    BY <1>3 DEF ResultAnswered, Told
  <2>2. /\ worker[w].lease = p.lease /\ p.code \in {200, 409}
        /\ p.code = 200 => leaseResult[p.lease] # "none"
        /\ p.code = 409 => Fate(p.lease) = "void"
    BY <2>1 DEF WireInv, Truths
  <2>3. QED
    BY <1>1, <2>1, <2>2, HearPromise
<1>4. ASSUME ResultFails(w), ~ (worker[w].tries < MaxTries) PROVE PromiseNext
  BY <1>1, <1>4, HearPromise DEF ResultFails
<1>5. QED
  BY <1>2, <1>3, <1>4 DEF Daemons, SendClaim, SendHeartbeat, SendResult, ClaimFails, HeartbeatFails,
     ResultFails, Kill, ClaimAnswered, HeartbeatAnswered, HeartStops, Execute

LEMMA PromiseStep == ASSUME IInv, WireInv, [WorkerNext]_protoVars PROVE PromiseNext
<1>1. ClosedLeases
  BY DEF WireInv
<1>2. UNCHANGED vars /\ heard' = heard => PromiseNext
  BY <1>1, KeptLeasesQuiet, QuietPromise DEF vars, leaseVars
<1>3. CASE (Requests \/ Groups \/ TimePasses \/ Expire \/ Loops) /\ UNCHANGED wireVars
  BY <1>1, <1>3, LoopsQuiet, ExpireQuiet, QuietPromise, ClockPromise DEF wireVars
<1>4. ASSUME NEW r \in requests, ServeClaim(r) PROVE PromiseNext
  <2>1. ASSUME NEW j, NEW l \in Lease, Claim(Offers[r.from], j, l) PROVE PromiseNext
    BY <1>1, <1>4, <2>1, ClaimQuiet, QuietPromise DEF ServeClaim
  <2>2. Expire => PromiseNext
    BY <1>1, <1>4, ExpireQuiet, QuietPromise DEF ServeClaim
  <2>3. QED
    BY <1>2, <1>4, <2>1, <2>2 DEF ServeClaim
<1>5. ASSUME NEW r \in requests, ServeHeartbeat(r) PROVE PromiseNext
  <2>1. r.lease \in Lease
    BY <1>5 DEF ServeHeartbeat, WireInv, WireRows, Issued
  <2>2. QED
    BY <1>1, <1>2, <1>5, <2>1, HeartbeatQuiet, QuietPromise DEF ServeHeartbeat
<1>6. ASSUME NEW r \in requests, ServeResult(r) PROVE PromiseNext
  <2>1. r.lease \in Lease /\ r.payload \in Payload
    BY <1>6 DEF ServeResult, WireInv, WireRows, Issued
  <2>2. QED
    BY <1>1, <1>2, <1>6, <2>1, RecordPromise DEF ServeResult
<1>7. QED
  BY <1>2, <1>3, <1>4, <1>5, <1>6, DaemonsPromise
     DEF WorkerNext, Serve, LoseRequest, wireVars, protoVars

-------------------------------------------------------------------------------
(* Theorems *)

\* A bad network, late copies and killed daemons do nothing to the queue that its operations do not:
\* WorkerSpec implements Spec, so all its invariants and step properties hold here (Store, daemon.go).
THEOREM WorkerImplementsQueue == WorkerSpec => Spec
<1>1. WorkerInit => Init
  BY WireInit
<1>2. IInv /\ WireInv /\ [WorkerNext]_protoVars => [Next]_vars
  BY ProtocolStep
<1>3. QED
  BY <1>1, <1>2, WireHolds, PTL DEF WorkerSpec, Spec

\* A daemon is left without an answer only after MaxTries failures, for any number of daemons,
\* leases and losses: AnswerHeard (submitResult).
THEOREM AnswersAreHeard == WorkerSpec => []AnswerHeard
<1>1. WorkerInit => Effort
  <2> SUFFICES ASSUME WorkerInit PROVE Effort
    OBVIOUS
  <2>1. \A w \in Worker : worker[w].tries = 0
    BY DEF WorkerInit, IdleDaemon
  <2>2. QED
    BY <2>1 DEF WorkerInit, Effort
<1>2. IInv /\ WireInv /\ WireInv' /\ Effort /\ [WorkerNext]_protoVars => Effort'
  BY EffortStep
<1>3. WireInv /\ Effort => AnswerHeard
  BY DEF WireInv, WireRows, Effort, AnswerHeard
<1>4. QED
  BY <1>1, <1>2, <1>3, WireHolds, PTL DEF WorkerSpec

\* Between any number of daemons and the queue the answer to a lease behaves as AnswerDelivery
\* promises: AnswerPromise (submitResult, Store.result).
THEOREM AnswersDelivered == WorkerSpec => AnswerPromise
<1>1. WorkerInit => Promise!Open
  BY DEF WorkerInit, Init, Promise!Open, Fate
<1>2. IInv /\ WireInv /\ [WorkerNext]_protoVars => [Promise!Next]_<<[l \in Lease |-> Fate(l)], heard>>
  BY PromiseStep DEF PromiseNext, Fates
<1>3. QED
  BY <1>1, <1>2, WireHolds, PTL DEF WorkerSpec, AnswerPromise, Promise!Spec

===============================================================================
