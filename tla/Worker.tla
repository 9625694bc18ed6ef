------------------------------- MODULE Worker -------------------------------
(***************************************************************************)
(* The workers: internal/worker/worker.go, with cmd/worker/main.go's start *)
(* and the provisioner and the xDS registry as the worker sees them.       *)
(*                                                                         *)
(* A worker process runs two goroutines over the same handler: the main    *)
(* loop, fed by Dequeue, and the reclaim loop, fed by Reclaim.  A handler  *)
(* reads the job record once and works on that copy to the end.  One       *)
(* action is one call (to Redis, Docker or xDS) with the local steps up to *)
(* the next call; the label of a handler is the call it makes next.        *)
(*                                                                         *)
(* Docker: a job owns at most one container per deterministic name.        *)
(* provisionPostgres and provisionHTTP are each one step (reuse or create, *)
(* or fail having created the container or not), and so is Deprovision.    *)
(* The registry is the set of (service, port) pairs Envoy routes to.       *)
(*                                                                         *)
(* A graceful stop cancels the context of every call, so no later call of  *)
(* a handler takes effect: it is the same step as a crash.                 *)
(***************************************************************************)
EXTENDS JobQueue, Faults

CONSTANTS
  Workers,       \* worker processes
  Services,      \* service names
  ServiceOf,     \* ServiceOf[j]: the service_name in j's request
  MaxAttempts,   \* Worker.MaxAttempts
  SlowHandlers   \* whether a handler may outlast ReclaimMinIdle

ASSUME WorkerAssumption ==
  /\ ServiceOf \in [Jobs -> Services]
  /\ MaxAttempts \in Nat
  /\ SlowHandlers \in BOOLEAN

VARIABLES
  pc,       \* pc[h]: the call handler h makes next
  cur,      \* cur[h]: the id of the message h handles, 0 if none
  loc,      \* loc[h]: h's copy of the job record
  batch,    \* batch[h]: ids h reclaimed and has not begun to handle
  prompt,   \* prompt[h]: h began its message as soon as it got it
  pg,       \* pg[j]: container infraforge-pg-<j> exists
  svc,      \* svc[j]: the port of container infraforge-svc-<j>, if it exists
  routes,   \* the registry of the xDS server
  calls     \* history: the Provision calls made for j, up to MaxAttempts + 1

handlerVars == <<pc, cur, loc, batch, prompt>>
dockerVars  == <<pg, svc, calls>>
workerVars  == <<handlerVars, dockerVars, routes>>

Handlers == Workers \X {"main", "reclaim"}

Labels == {"down", "idle", "get", "begin", "postgres", "http", "ready",
           "register", "ack", "retry", "failed", "failedAck", "deadletter",
           "unregister", "teardown", "stuck", "deleted"}

WorkerTypeOK ==
  /\ pc \in [Handlers -> Labels]
  /\ cur \in [Handlers -> 0 .. Len(stream)]
  /\ loc \in [Handlers -> JobRecord]
  /\ batch \in [Handlers -> SUBSET (1 .. Len(stream))]
  /\ prompt \in [Handlers -> BOOLEAN]
  /\ pg \in [Jobs -> BOOLEAN]
  /\ svc \in [Jobs -> Ports \cup {NoPort}]
  /\ routes \subseteq Services \X Ports
  /\ calls \in [Jobs -> Nat]

WorkerInit ==
  /\ pc = [h \in Handlers |-> "down"]
  /\ cur = [h \in Handlers |-> 0]
  /\ loc = [h \in Handlers |-> NotFound]
  /\ batch = [h \in Handlers |-> {}]
  /\ prompt = [h \in Handlers |-> FALSE]
  /\ pg = [j \in Jobs |-> FALSE]
  /\ svc = [j \in Jobs |-> NoPort]
  /\ routes = {}
  /\ calls = [j \in Jobs |-> 0]

\* The handlers that have a message in hand.
Busy == {h \in Handlers : pc[h] \notin {"down", "idle"}}

JobOf(h) == stream[cur[h]].job

FreePorts == Ports \ {svc[j] : j \in Jobs}

-----------------------------------------------------------------------------
(* Moves of a handler *)

\* h goes on to its next call with the record rec.
Goto(h, l, rec) ==
  /\ pc' = [pc EXCEPT ![h] = l]
  /\ loc' = [loc EXCEPT ![h] = rec]
  /\ UNCHANGED <<cur, batch, prompt>>

\* h begins message i at once, and keeps the ids of rest for later.
Begin(h, i, rest) ==
  /\ pc' = [pc EXCEPT ![h] = "get"]
  /\ cur' = [cur EXCEPT ![h] = i]
  /\ batch' = [batch EXCEPT ![h] = rest]
  /\ prompt' = [prompt EXCEPT ![h] = TRUE]
  /\ UNCHANGED loc

\* handle returns: to the next message of the batch, or to the loop.
Return(h) ==
  /\ loc' = [loc EXCEPT ![h] = NotFound]
  /\ prompt' = [prompt EXCEPT ![h] = FALSE]
  /\ \/ /\ batch[h] = {}
        /\ pc' = [pc EXCEPT ![h] = "idle"]
        /\ cur' = [cur EXCEPT ![h] = 0]
        /\ UNCHANGED batch
     \/ \E i \in batch[h] :
          /\ \A k \in batch[h] : i <= k
          /\ pc' = [pc EXCEPT ![h] = "get"]
          /\ cur' = [cur EXCEPT ![h] = i]
          /\ batch' = [batch EXCEPT ![h] = @ \ {i}]

\* Calls whose error the handler ignores.
TryPut(j, rec) ==
  \/ Works /\ Put(j, rec)
  \/ Fails("put") /\ (Put(j, rec) \/ UNCHANGED store)

TryAck(i) ==
  \/ Works /\ Ack(i)
  \/ Fails("ack") /\ (Ack(i) \/ UNCHANGED queueVars)

-----------------------------------------------------------------------------
(* The process and its two loops *)

WorkerStart(w) ==
  /\ pc[<<w, "main">>] = "down"
  /\ EnsureGroup
  /\ pc' = [h \in Handlers |-> IF h[1] = w THEN "idle" ELSE pc[h]]
  /\ UNCHANGED <<store, faultVars, cur, loc, batch, prompt, dockerVars, routes>>

\* Both goroutines lose what they hold.  Redis, Docker and xDS do not notice.
WorkerCrash(w) ==
  /\ pc[<<w, "main">>] # "down"
  /\ Dies
  /\ pc' = [h \in Handlers |-> IF h[1] = w THEN "down" ELSE pc[h]]
  /\ cur' = [h \in Handlers |-> IF h[1] = w THEN 0 ELSE cur[h]]
  /\ loc' = [h \in Handlers |-> IF h[1] = w THEN NotFound ELSE loc[h]]
  /\ batch' = [h \in Handlers |-> IF h[1] = w THEN {} ELSE batch[h]]
  /\ prompt' = [h \in Handlers |-> IF h[1] = w THEN FALSE ELSE prompt[h]]
  /\ UNCHANGED <<store, queueVars, dockerVars, routes>>

\* An error may hide a delivery: the entry is pending and nobody has it.
Dequeue(h) ==
  /\ h[2] = "main" /\ pc[h] = "idle"
  /\ Deliver
  /\ \/ Works /\ Begin(h, cursor + 1, {})
     \/ Fails("dequeue") /\ UNCHANGED handlerVars
  /\ UNCHANGED <<store, dockerVars, routes>>

\* The block elapsed with nothing: the main loop goes round.
DequeueNothing(h) ==
  /\ h[2] = "main" /\ pc[h] = "idle"
  /\ cursor = Len(stream)
  /\ UNCHANGED <<store, queueVars, faultVars, workerVars>>

Reclaim(h) ==
  /\ h[2] = "reclaim" /\ pc[h] = "idle"
  /\ \E B \in Claimable :
       /\ Claim(B)
       /\ \/ /\ Works
             /\ \E i \in B : (\A k \in B : i <= k) /\ Begin(h, i, B \ {i})
          \/ Fails("reclaim") /\ UNCHANGED handlerVars
  /\ UNCHANGED <<store, dockerVars, routes>>

\* Time passes for pending entry i.  If no handling outlasts ReclaimMinIdle,
\* it cannot pass while i is in the hands of a handler that began it as soon
\* as it was delivered or claimed.
MinIdlePasses(i) ==
  /\ SlowHandlers \/ \A h \in Handlers : prompt[h] => cur[h] # i
  /\ BecomeIdle(i)
  /\ UNCHANGED <<store, faultVars, workerVars>>

-----------------------------------------------------------------------------
(* handle, and the decisions provision and deprovision take on the record *)

\* Mutant of ProvisionDecision: the cap is checked before the attempt counts.
ProvisionDecisionLateCap(rec) ==
  LET counted == [rec EXCEPT !.attempts = @ + 1] IN
  CASE rec.status \in {"ready", "deleting", "deleted"} ->
         <<"ack", rec>>
    [] rec.status \in {"pending", "provisioning", "failed"} /\ rec.attempts > MaxAttempts ->
         <<"failed", [counted EXCEPT !.status = "failed"]>>
    [] OTHER ->
         <<"begin", [counted EXCEPT !.status = "provisioning"]>>

\* Mutant of ProvisionDecision: a job that has been deleted is tried again.
ProvisionDecisionRevives(rec) ==
  LET counted == [rec EXCEPT !.attempts = @ + 1] IN
  CASE rec.status \in {"ready", "deleting"} ->
         <<"ack", rec>>
    [] rec.status \notin {"ready", "deleting"} /\ rec.attempts >= MaxAttempts ->
         <<"failed", [counted EXCEPT !.status = "failed"]>>
    [] OTHER ->
         <<"begin", [counted EXCEPT !.status = "provisioning"]>>

\* Where a provision message with record rec leads.
ProvisionDecision(rec) ==
  LET counted == [rec EXCEPT !.attempts = @ + 1] IN
  CASE rec.status \in {"ready", "deleting", "deleted"} ->
         <<"ack", rec>>
    [] rec.status \in {"pending", "provisioning", "failed"} /\ rec.attempts >= MaxAttempts ->
         <<"failed", [counted EXCEPT !.status = "failed"]>>
    [] OTHER ->
         <<"begin", [counted EXCEPT !.status = "provisioning"]>>

\* Mutant of DeprovisionDecision: only a job that still reads deleting is
\* torn down.
DeprovisionDecisionIfDeleting(rec) ==
  <<CASE rec.status # "deleting" -> "ack"
      [] rec.status = "deleting" /\ rec.http # NoPort -> "unregister"
      [] OTHER -> "teardown", rec>>

\* Where a deprovision message with record rec leads.
DeprovisionDecision(rec) ==
  <<CASE rec.status = "deleted" -> "ack"
      [] rec.status # "deleted" /\ rec.http # NoPort -> "unregister"
      [] OTHER -> "teardown", rec>>

\* Any error of Get, and a missing record, drop the message.
Decision(action, rec) ==
  IF rec.status = "absent" THEN <<"ack", rec>>
  ELSE IF action = "deprovision" THEN DeprovisionDecision(rec)
  ELSE ProvisionDecision(rec)

Get(h) ==
  /\ pc[h] = "get"
  /\ \/ /\ Works
        /\ LET d == Decision(stream[cur[h]].action, store[JobOf(h)])
           IN  Goto(h, d[1], d[2])
     \/ Fails("get") /\ Goto(h, "ack", NotFound)
  /\ UNCHANGED <<store, queueVars, dockerVars, routes>>

-----------------------------------------------------------------------------
(* provision *)

PutProvisioning(h) ==
  /\ pc[h] = "begin"
  /\ TryPut(JobOf(h), loc[h])
  /\ Goto(h, "postgres", loc[h])
  /\ UNCHANGED <<queueVars, dockerVars, routes>>

\* Provision returned an error of the given class.
ProvisionFailed(h, class) ==
  \/ class = "transient" /\ Goto(h, "retry", loc[h])
  \/ class = "permanent" /\ Goto(h, "failed", [loc[h] EXCEPT !.status = "failed"])

\* Mutant of ProvisionPostgres: its error is not returned.
ProvisionPostgresUnchecked(h) ==
  /\ pc[h] = "postgres"
  /\ calls' = [calls EXCEPT ![JobOf(h)] = IF @ > MaxAttempts THEN @ ELSE @ + 1]
  /\ pg' = [pg EXCEPT ![JobOf(h)] = TRUE] \/ UNCHANGED pg
  /\ Goto(h, "http", loc[h])
  /\ UNCHANGED <<store, queueVars, faultVars, svc, routes>>

ProvisionPostgres(h) ==
  /\ pc[h] = "postgres"
  /\ calls' = [calls EXCEPT ![JobOf(h)] = IF @ > MaxAttempts THEN @ ELSE @ + 1]
  /\ \/ pg' = [pg EXCEPT ![JobOf(h)] = TRUE] /\ Goto(h, "http", loc[h])
     \/ /\ pg' = [pg EXCEPT ![JobOf(h)] = TRUE] \/ UNCHANGED pg
        /\ \E class \in DockerErrs : ProvisionFailed(h, class)
  /\ UNCHANGED <<store, queueVars, faultVars, svc, routes>>

\* docker run publishes a new container on a free port; an existing one is
\* reused on the port it has.
SvcPorts(j) == IF svc[j] = NoPort THEN FreePorts ELSE {svc[j]}

\* Mutant of ProvisionHTTP: the job becomes ready without its port.
ProvisionHTTPForgetsPort(h) ==
  /\ pc[h] = "http"
  /\ \/ \E p \in SvcPorts(JobOf(h)) :
          /\ svc' = [svc EXCEPT ![JobOf(h)] = p]
          /\ Goto(h, "ready", [loc[h] EXCEPT !.status = "ready"])
     \/ \E class \in DockerErrs : ProvisionFailed(h, class) /\ UNCHANGED svc
  /\ UNCHANGED <<store, queueVars, faultVars, pg, calls, routes>>

\* Mutant of ProvisionHTTP: its error is not returned.
ProvisionHTTPUnchecked(h) ==
  /\ pc[h] = "http"
  /\ \E p \in SvcPorts(JobOf(h)) :
       /\ svc' = [svc EXCEPT ![JobOf(h)] = p] \/ UNCHANGED svc
       /\ Goto(h, "ready", [loc[h] EXCEPT !.status = "ready", !.http = p])
  /\ UNCHANGED <<store, queueVars, faultVars, pg, calls, routes>>

ProvisionHTTP(h) ==
  /\ pc[h] = "http"
  /\ \/ \E p \in SvcPorts(JobOf(h)) :
          /\ svc' = [svc EXCEPT ![JobOf(h)] = p]
          /\ Goto(h, "ready", [loc[h] EXCEPT !.status = "ready", !.http = p])
     \/ /\ \/ \E p \in SvcPorts(JobOf(h)) : svc' = [svc EXCEPT ![JobOf(h)] = p]
           \/ UNCHANGED svc
        /\ \E class \in DockerErrs : ProvisionFailed(h, class)
  /\ UNCHANGED <<store, queueVars, faultVars, pg, calls, routes>>

PutReady(h) ==
  /\ pc[h] = "ready"
  /\ TryPut(JobOf(h), loc[h])
  /\ Goto(h, "register", loc[h])
  /\ UNCHANGED <<queueVars, dockerVars, routes>>

Register(h) ==
  LET route == <<ServiceOf[JobOf(h)], loc[h].http>> IN
  /\ pc[h] = "register"
  /\ \/ Works /\ routes' = routes \cup {route}
     \/ Fails("register") /\ (routes' = routes \cup {route} \/ UNCHANGED routes)
  /\ Goto(h, "ack", loc[h])
  /\ UNCHANGED <<store, queueVars, dockerVars>>

\* Mutant of PutTransient: the message is acknowledged.
PutTransientThenAck(h) ==
  /\ pc[h] = "retry"
  /\ TryPut(JobOf(h), loc[h])
  /\ Goto(h, "ack", loc[h])
  /\ UNCHANGED <<queueVars, dockerVars, routes>>

\* A transient error leaves the message pending for the reclaim loop.
PutTransient(h) ==
  /\ pc[h] = "retry"
  /\ TryPut(JobOf(h), loc[h])
  /\ Return(h)
  /\ UNCHANGED <<queueVars, dockerVars, routes>>

\* Mutant of PutFailed: no dead-letter record follows.
PutFailedThenAck(h) ==
  /\ pc[h] = "failed"
  /\ TryPut(JobOf(h), loc[h])
  /\ Goto(h, "ack", loc[h])
  /\ UNCHANGED <<queueVars, dockerVars, routes>>

PutFailed(h) ==
  /\ pc[h] = "failed"
  /\ TryPut(JobOf(h), loc[h])
  /\ Goto(h, "failedAck", loc[h])
  /\ UNCHANGED <<queueVars, dockerVars, routes>>

AckFailed(h) ==
  /\ pc[h] = "failedAck"
  /\ TryAck(cur[h])
  /\ Goto(h, "deadletter", loc[h])
  /\ UNCHANGED <<store, dockerVars, routes>>

\* The attempt that only found the cap exceeded is not counted.
WriteDeadLetter(h) ==
  LET n == loc[h].attempts
      e == [job |-> JobOf(h), attempts |-> IF n > MaxAttempts THEN n - 1 ELSE n] IN
  /\ pc[h] = "deadletter"
  /\ \/ Works /\ DeadLetter(e)
     \/ Fails("deadletter") /\ (DeadLetter(e) \/ UNCHANGED queueVars)
  /\ Return(h)
  /\ UNCHANGED <<store, dockerVars, routes>>

\* The last call of every path that ends in an acknowledgement.
AckMessage(h) ==
  /\ pc[h] = "ack"
  /\ TryAck(cur[h])
  /\ Return(h)
  /\ UNCHANGED <<store, dockerVars, routes>>

-----------------------------------------------------------------------------
(* deprovision *)

Unregister(h) ==
  LET route == <<ServiceOf[JobOf(h)], loc[h].http>> IN
  /\ pc[h] = "unregister"
  /\ \/ Works /\ routes' = routes \ {route}
     \/ Fails("unregister") /\ (routes' = routes \ {route} \/ UNCHANGED routes)
  /\ Goto(h, "teardown", loc[h])
  /\ UNCHANGED <<store, queueVars, dockerVars>>

\* Mutant of Teardown: only the Postgres container is removed.
TeardownPostgresOnly(h) ==
  /\ pc[h] = "teardown"
  /\ pg' = [pg EXCEPT ![JobOf(h)] = FALSE]
  /\ Goto(h, "deleted", [loc[h] EXCEPT !.status = "deleted", !.http = NoPort])
  /\ UNCHANGED <<store, queueVars, faultVars, calls, routes, svc>>

\* A failure may leave either container behind.
Teardown(h) ==
  /\ pc[h] = "teardown"
  /\ \/ /\ pg' = [pg EXCEPT ![JobOf(h)] = FALSE]
        /\ svc' = [svc EXCEPT ![JobOf(h)] = NoPort]
        /\ Goto(h, "deleted", [loc[h] EXCEPT !.status = "deleted", !.http = NoPort])
     \/ /\ "teardown" \in DockerErrs
        /\ pg' = [pg EXCEPT ![JobOf(h)] = FALSE] \/ UNCHANGED pg
        /\ svc' = [svc EXCEPT ![JobOf(h)] = NoPort] \/ UNCHANGED svc
        /\ Goto(h, "stuck", loc[h])
  /\ UNCHANGED <<store, queueVars, faultVars, calls, routes>>

\* Either outcome is written, then acknowledged.
PutTornDown(h) ==
  /\ pc[h] \in {"deleted", "stuck"}
  /\ TryPut(JobOf(h), loc[h])
  /\ Goto(h, "ack", loc[h])
  /\ UNCHANGED <<queueVars, dockerVars, routes>>

-----------------------------------------------------------------------------
\* One step of the code of handler h.
HandlerStep(h) ==
  \/ Dequeue(h) \/ Reclaim(h) \/ Get(h)
  \/ PutProvisioning(h) \/ ProvisionPostgres(h) \/ ProvisionHTTP(h)
  \/ PutReady(h) \/ Register(h) \/ PutTransient(h)
  \/ PutFailed(h) \/ AckFailed(h) \/ WriteDeadLetter(h) \/ AckMessage(h)
  \/ Unregister(h) \/ Teardown(h) \/ PutTornDown(h)

WorkerNext ==
  \/ \E w \in Workers : WorkerStart(w) \/ WorkerCrash(w)
  \/ \E h \in Handlers : HandlerStep(h) \/ DequeueNothing(h)
  \/ \E i \in pel : MinIdlePasses(i)

=============================================================================
