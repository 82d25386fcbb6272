---------------------------- MODULE WorkerProtocol ----------------------------
(***************************************************************************)
(* Worker daemons (daemon.go) and the job queue over HTTP.  Each daemon    *)
(* runs Once in a loop: claim, execute while a second goroutine renews the *)
(* lease, submit the answer at most MaxTries times.  A request may be lost,*)
(* its response may be lost, and a request whose sender has given up may   *)
(* still be served much later.  The queue changes only by the operations   *)
(* of JobQueue, each served for a request.                                 *)
(*                                                                         *)
(* A connection carries one exchange: the response to a request that was   *)
(* given up is dropped.  Stray copies of equal requests count as one.      *)
(***************************************************************************)
EXTENDS JobQueue

CONSTANTS
  Worker,     \* worker daemons
  Offers,     \* the kinds of job each of them offers to run
  MaxTries,   \* submitResult's attempts
  MaxFaults   \* bound: requests lost, exchanges given up, daemons killed

ASSUME WorkerAssumption ==
  /\ Offers \in [Worker -> SUBSET Kind]
  /\ MaxTries \in Nat \ {0} /\ MaxFaults \in Nat

VARIABLES
  worker,    \* where each daemon is in Once
  requests,  \* requests on their way; live while the sender waits for the response
  replies,   \* responses on their way
  heard,     \* what the daemon holding a lease was told of its answer
  faults

wireVars  == <<worker, requests, replies, heard, faults>>
protoVars == <<vars, wireVars>>

Daemon == [at : {"idle", "claiming", "working", "submitting"}, lease : Lease \cup {NoLease},
           payload : Payload \cup {"none"}, tries : 0..MaxTries, waiting : BOOLEAN,
           beats : {"off", "on", "waiting"}]
IdleDaemon == [at |-> "idle", lease |-> NoLease, payload |-> "none", tries |-> 0,
               waiting |-> FALSE, beats |-> "off"]

Request == [kind : {"claim", "heartbeat", "result"}, from : Worker, lease : Lease \cup {NoLease},
            payload : Payload \cup {"none"}, live : BOOLEAN]
Reply == [kind : {"claim", "heartbeat", "result"}, to : Worker, lease : Lease \cup {NoLease},
          code : {200, 204, 409}]

WorkerTypeOK ==
  /\ worker \in [Worker -> Daemon]
  /\ requests \subseteq Request /\ replies \subseteq Reply
  /\ heard \in [Lease -> {"none", "accepted", "refused", "unknown"}]
  /\ faults \in 0..MaxFaults
  /\ \A w \in Worker : worker[w].beats # "off" => worker[w].at \in {"working", "submitting"}

-------------------------------------------------------------------------------
(* Exchanges *)

Send(w, kind, lease, payload) ==
  requests' = requests \cup {[kind |-> kind, from |-> w, lease |-> lease, payload |-> payload, live |-> TRUE]}

\* The request is served; only a sender that still waits gets the response.
Respond(r, lease, code) ==
  /\ requests' = requests \ {r}
  /\ replies' = IF r.live
                THEN replies \cup {[kind |-> r.kind, to |-> r.from, lease |-> lease, code |-> code]}
                ELSE replies

\* The exchange of the given kinds ends without a response: a timeout, or a cancelled context.
Strays(w, kinds) ==
  {IF r.from = w /\ r.kind \in kinds THEN [r EXCEPT !.live = FALSE] ELSE r : r \in requests}
Dropped(w, kinds) == {p \in replies : p.to # w \/ p.kind \notin kinds}

Received(p) == p \in replies /\ replies' = replies \ {p}

Done(w) == IdleDaemon

\* Once returns: what the daemon was told, and its heartbeat goroutine stopped.
Return(w, h) ==
  /\ worker' = [worker EXCEPT ![w] = Done(w)]
  /\ heard' = [heard EXCEPT ![worker[w].lease] = h]
  /\ requests' = Strays(w, {"heartbeat", "result"})
  /\ replies' = Dropped(w, {"heartbeat", "result"})

-------------------------------------------------------------------------------
(* Claiming *)

SendClaim(w) ==
  /\ worker[w].at = "idle"
  /\ worker' = [worker EXCEPT ![w].at = "claiming"]
  /\ Send(w, "claim", NoLease, "none")
  /\ UNCHANGED <<vars, replies, heard, faults>>

ServeClaim(r) ==
  /\ r \in requests /\ r.kind = "claim"
  /\ \/ \E j \in Claimable(Offers[r.from]), l \in Lease \ LeaseRows :
          Claim(Offers[r.from], j, l) /\ Respond(r, l, 200)
     \/ /\ Claimable(Offers[r.from]) = {}
        /\ IF Lapsed # {} THEN Expire ELSE UNCHANGED vars
        /\ Respond(r, NoLease, 204)
  /\ UNCHANGED <<worker, heard, faults>>

\* A valid assignment is executed; one that fails validation is rejected if its credentials can be
\* read, and left to expire otherwise.
ClaimAnswered(w, p) ==
  /\ worker[w].at = "claiming" /\ p.to = w /\ p.kind = "claim" /\ Received(p)
  /\ \/ p.code = 204 /\ worker' = [worker EXCEPT ![w] = IdleDaemon]
     \/ /\ p.code = 200
        /\ worker' = [worker EXCEPT ![w] = [IdleDaemon EXCEPT !.at = "working", !.lease = p.lease,
                                                              !.beats = "on"]]
     \/ /\ p.code = 200
        /\ \E d \in {IdleDaemon, [IdleDaemon EXCEPT !.at = "submitting", !.lease = p.lease,
                                                    !.payload = "rejected"]} :
             worker' = [worker EXCEPT ![w] = d]
        /\ Within("rejected")
  /\ UNCHANGED <<vars, requests, heard, faults>>

ClaimFails(w) ==
  /\ worker[w].at = "claiming" /\ faults < MaxFaults
  /\ worker' = [worker EXCEPT ![w] = IdleDaemon]
  /\ requests' = Strays(w, {"claim"}) /\ replies' = Dropped(w, {"claim"})
  /\ faults' = faults + 1
  /\ UNCHANGED <<vars, heard>>

-------------------------------------------------------------------------------
(* Executing, with the lease kept alive beside *)

\* The executor returns within the job's timeout: an output, or an error of either class.
Execute(w, p) ==
  /\ worker[w].at = "working" /\ p \in {"completed", "transient", "permanent"}
  /\ worker' = [worker EXCEPT ![w].at = "submitting", ![w].payload = p]
  /\ UNCHANGED <<vars, requests, replies, heard, faults>>

SendHeartbeat(w) ==
  /\ worker[w].beats = "on"
  /\ worker' = [worker EXCEPT ![w].beats = "waiting"]
  /\ Send(w, "heartbeat", worker[w].lease, "none")
  /\ UNCHANGED <<vars, replies, heard, faults>>

ServeHeartbeat(r) ==
  /\ r \in requests /\ r.kind = "heartbeat"
  /\ IF Holds(r.lease) THEN Heartbeat(r.lease) /\ Respond(r, r.lease, 200)
     ELSE UNCHANGED vars /\ Respond(r, r.lease, 409)
  /\ UNCHANGED <<worker, heard, faults>>

\* Fault: a refused heartbeat cancels the submission as well.
AbortSubmission(w) ==
  IF worker[w].at = "submitting" THEN Return(w, "unknown")
  ELSE worker' = [worker EXCEPT ![w].beats = "off"] /\ UNCHANGED <<requests, heard>>
       /\ replies' = Dropped(w, {"heartbeat"})
\* A refusal ends the heartbeats and cancels the execution, which then returns as any other may;
\* an answer on its way is left alone.
HeartStops(w) ==
  /\ worker' = [worker EXCEPT ![w].beats = "off"]
  /\ UNCHANGED <<requests, heard>>
  /\ replies' = Dropped(w, {"heartbeat"})

HeartbeatAnswered(w, p) ==
  /\ p \in replies /\ worker[w].beats = "waiting" /\ p.to = w /\ p.kind = "heartbeat"
  /\ IF p.code = 409 THEN HeartStops(w)
     ELSE /\ worker' = [worker EXCEPT ![w].beats = "on"]
          /\ replies' = replies \ {p}
          /\ UNCHANGED <<requests, heard>>
  /\ UNCHANGED <<vars, faults>>

HeartbeatFails(w) ==
  /\ worker[w].beats = "waiting" /\ faults < MaxFaults
  /\ worker' = [worker EXCEPT ![w].beats = "on"]
  /\ requests' = Strays(w, {"heartbeat"}) /\ replies' = Dropped(w, {"heartbeat"})
  /\ faults' = faults + 1
  /\ UNCHANGED <<vars, heard>>

-------------------------------------------------------------------------------
(* Submitting *)

SendResult(w) ==
  /\ worker[w].at = "submitting" /\ ~ worker[w].waiting /\ worker[w].tries < MaxTries
  /\ worker' = [worker EXCEPT ![w].waiting = TRUE, ![w].tries = @ + 1]
  /\ Send(w, "result", worker[w].lease, worker[w].payload)
  /\ UNCHANGED <<vars, replies, heard, faults>>

Repeats(l, p) == leaseResult[l] = p

ServeResult(r) ==
  /\ r \in requests /\ r.kind = "result"
  /\ \/ Repeats(r.lease, r.payload) /\ UNCHANGED vars /\ Respond(r, r.lease, 200)
     \/ ~ Repeats(r.lease, r.payload) /\ Within(r.payload) /\ Result(r.lease, r.payload) /\ Respond(r, r.lease, 200)
     \/ /\ ~ Repeats(r.lease, r.payload)
        /\ leaseResult[r.lease] # "none" \/ ~ Holds(r.lease)
        /\ UNCHANGED vars /\ Respond(r, r.lease, 409)
  /\ UNCHANGED <<worker, heard, faults>>

ResultAnswered(w, p) ==
  /\ p \in replies /\ worker[w].waiting /\ p.to = w /\ p.kind = "result"
  /\ Return(w, IF p.code = 200 THEN "accepted" ELSE "refused")
  /\ UNCHANGED <<vars, faults>>

\* No response, or a server error: tried again, and given up after the last attempt.
ResultFails(w) ==
  /\ worker[w].waiting /\ faults < MaxFaults
  /\ IF worker[w].tries < MaxTries
     THEN /\ worker' = [worker EXCEPT ![w].waiting = FALSE]
          /\ requests' = Strays(w, {"result"}) /\ replies' = Dropped(w, {"result"})
          /\ UNCHANGED heard
     ELSE Return(w, "unknown")
  /\ faults' = faults + 1
  /\ UNCHANGED vars

-------------------------------------------------------------------------------
LoseRequest(r) ==
  /\ r \in requests /\ ~ r.live
  /\ requests' = requests \ {r}
  /\ UNCHANGED <<vars, worker, replies, heard, faults>>

\* The daemon is killed; what it sent may still arrive.
Kill(w) ==
  /\ worker[w].at # "idle" /\ faults < MaxFaults
  /\ worker' = [worker EXCEPT ![w] = IdleDaemon]
  /\ requests' = Strays(w, {"claim", "heartbeat", "result"})
  /\ replies' = {p \in replies : p.to # w}
  /\ faults' = faults + 1
  /\ UNCHANGED <<vars, heard>>

Serve == \E r \in requests : ServeClaim(r) \/ ServeHeartbeat(r) \/ ServeResult(r)

Daemons(w) ==
  \/ SendClaim(w) \/ SendHeartbeat(w) \/ SendResult(w)
  \/ ClaimFails(w) \/ HeartbeatFails(w) \/ ResultFails(w) \/ Kill(w)
  \/ \E p \in replies : ClaimAnswered(w, p) \/ HeartbeatAnswered(w, p) \/ ResultAnswered(w, p)
  \/ \E p \in Payload : Execute(w, p)

WorkerInit ==
  /\ Init
  /\ worker = [w \in Worker |-> IdleDaemon]
  /\ requests = {} /\ replies = {} /\ heard = [l \in Lease |-> "none"] /\ faults = 0

WorkerNext ==
  \/ (Requests \/ Groups \/ TimePasses \/ Expire \/ Loops) /\ UNCHANGED wireVars
  \/ Serve
  \/ \E r \in requests : LoseRequest(r)
  \/ \E w \in Worker : Daemons(w)

WorkerSpec == WorkerInit /\ [][WorkerNext]_protoVars

\* Executors return within the job's timeout, daemons read their responses and go on submitting,
\* clients time out, and the coordinator serves what arrives and keeps expiring leases.  Nobody has
\* to claim, and no heartbeat has to be sent.
WorkerFairness ==
  /\ \A w \in Worker :
       /\ WF_protoVars(\E p \in Payload : Execute(w, p))
       /\ WF_protoVars(SendResult(w))
       /\ WF_protoVars(\E p \in replies : ClaimAnswered(w, p) \/ ResultAnswered(w, p))
  /\ WF_protoVars(\E r \in requests : ServeClaim(r))
  /\ WF_protoVars(\E r \in requests : ServeResult(r))
  /\ WF_protoVars(TimePasses /\ UNCHANGED wireVars)
  /\ WF_protoVars(Expire /\ UNCHANGED wireVars)

WorkerLiveSpec == WorkerSpec /\ WorkerFairness

-------------------------------------------------------------------------------
(* Properties *)

\* A daemon learns what became of its answer unless the network failed every attempt: neither a
\* lapsed lease nor a refused heartbeat, racing the submission, makes it give up (Once, submitResult).
AnswerHeard ==
  /\ WorkerTypeOK
  /\ \A l \in Lease : heard[l] = "unknown" => faults >= MaxTries

\* The answer to a lease, as the queue and the worker see it, behaves as AnswerDelivery promises: an
\* answer that was recorded is never refused to its worker on a retry, and of one that was refused
\* no copy, however late, is recorded (submitResult, Store.result).
Fate(l) ==
  IF leaseResult[l] # "none" THEN "recorded"
  ELSE IF leaseStatus[l] = "expired" \/ (leaseStatus[l] = "active" /\ ttl[l] = 0) THEN "void"
  ELSE "open"
Promise == INSTANCE AnswerDelivery WITH answer <- [l \in Lease |-> Fate(l)]
AnswerPromise == Promise!Spec

\* A lease never outlives the daemon's interest in it: one whose claim got lost, whose daemon was
\* killed or gave up, or whose assignment could not be read ends in the end, so that its job can be
\* handed out again.  Heartbeats extend it only while Once is running (Once, Store.heartbeat).
LeaseEnds == \A l \in Lease : leaseStatus[l] = "active" ~> leaseStatus[l] # "active"

===============================================================================
