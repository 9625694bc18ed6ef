----------------------------- MODULE Infraforge -----------------------------
(***************************************************************************)
(* The control plane: one broker and a set of workers that share the job   *)
(* store, the job stream, Docker and the xDS registry.                     *)
(***************************************************************************)
EXTENDS Broker, Worker

vars == <<store, queueVars, faultVars, brokerVars, workerVars>>

TypeOK ==
  /\ store \in [Jobs -> JobRecord]
  /\ QueueTypeOK
  /\ FaultTypeOK
  /\ BrokerTypeOK
  /\ WorkerTypeOK

Init ==
  /\ StoreInit
  /\ QueueInit
  /\ FaultInit
  /\ BrokerInit
  /\ WorkerInit

Next ==
  \/ BrokerNext /\ UNCHANGED workerVars
  \/ WorkerNext /\ UNCHANGED brokerVars

Spec == Init /\ [][Next]_vars

\* A request in progress is served to its end, a dead process is restarted, a
\* handler takes its next step, and time passes.  Clients owe nothing.
Fairness ==
  /\ WF_vars(BrokerStart /\ UNCHANGED workerVars)
  /\ WF_vars(BrokerStep /\ UNCHANGED workerVars)
  /\ \A w \in Workers : WF_vars(WorkerStart(w) /\ UNCHANGED brokerVars)
  /\ \A h \in Handlers : WF_vars(HandlerStep(h) /\ UNCHANGED brokerVars)
  /\ WF_vars((\E i \in pel : MinIdlePasses(i)) /\ UNCHANGED brokerVars)

FairSpec == Spec /\ Fairness

-----------------------------------------------------------------------------
(* Work is not lost *)

Unfinished(j) == store[j].status \in {"pending", "provisioning"}

\* A job whose POST was answered 202 and that is still pending or
\* provisioning has its provision message in the stream, undelivered or
\* unacknowledged: crashes of workers, lost deliveries and failed acks never
\* leave it without a worker that will pick it up (README.md 512-529,
\* worker.go 145-260).
NoWorkLost ==
  \A j \in Jobs : post[j] = "202" /\ Unfinished(j) => Outstanding(Provision(j)) # {}

\* Two handlers never work on the same message: the reclaim loop takes over
\* only what nobody is handling (worker.go 52-56, 117-143).
OneHandlerPerMessage ==
  \A g, h \in Busy : g # h => cur[g] # cur[h]

\* A job whose POST was answered does not stay pending or provisioning for
\* ever, whatever crashes and transient errors its handlers meet (README.md
\* 525-529).  That includes a job answered 500 although its message had got
\* into the stream: its handlers and the compensating write race, and the
\* job still settles (api.go 88-99).
ProvisionSettles ==
  \A j \in Jobs : (post[j] \in {"202", "500"}) ~> ~Unfinished(j)

-----------------------------------------------------------------------------
(* Retries are bounded and abandonment leaves a trace *)

\* Provision is called at most MaxAttempts times for an accepted job, however
\* often its message is redelivered after a transient error or a crash
\* (worker.go 181-198, model.go 48-52).
AttemptsCapped == \A j \in Jobs : post[j] = "202" => calls[j] <= MaxAttempts

HandledNow(j) == \E h \in Busy : JobOf(h) = j

\* A job that reads failed and that no worker will come back to (its message
\* is acknowledged, no handler is at work on it) has a record in the
\* dead-letter stream (README.md 541, worker.go 186-197, 223-232).
AbandonedIsRecorded ==
  \A j \in Jobs :
    /\ post[j] = "202" /\ store[j].status = "failed"
    /\ Outstanding(Provision(j)) = {} /\ ~HandledNow(j)
    => \E k \in DOMAIN dead : dead[k].job = j

\* The newest dead-letter record is among those the endpoint lists (api.go
\* 183 and queue.go 78: "recent").
NewestDeadIsListed ==
  dead # << >> =>
    \E k \in DOMAIN ListDead(ListLimit) : ListDead(ListLimit)[k] = dead[Len(dead)]

-----------------------------------------------------------------------------
(* What the records say about the containers *)

\* A job that reads ready has both containers, and the endpoint in its record
\* is the one its HTTP container is published on (worker.go 205-240).
ReadyIsReachable ==
  \A j \in Jobs :
    store[j].status = "ready" => pg[j] /\ svc[j] = store[j].http /\ svc[j] # NoPort

\* A job that reads deleted, with no handler at work on it, owns no container
\* (worker.go 279-298, docker.go 62-81).
DeletedIsGone ==
  \A j \in Jobs :
    store[j].status = "deleted" /\ ~HandledNow(j) => ~pg[j] /\ svc[j] = NoPort

\* A job the worker gave up keeps no container behind, once its handler is
\* through (docker.go 46-49).
FailedIsCleaned ==
  \A j \in Jobs :
    store[j].status = "failed" /\ ~HandledNow(j) => ~pg[j] /\ svc[j] = NoPort

\* Envoy is told to route only to containers that exist: a route is removed
\* before its backend is (worker.go 246-277).
RoutesAreLive ==
  \A r \in routes : \E j \in Jobs : ServiceOf[j] = r[1] /\ svc[j] = r[2]

-----------------------------------------------------------------------------
(* Teardown *)

Leaving == {"deleting", "deleted"}

\* A job being torn down never becomes anything but deleted (worker.go
\* 174-178, model.go 8-12).
NoResurrection ==
  [][\A j \in Jobs : store[j].status \in Leaving => store'[j].status \in Leaving]_vars

\* When a DELETE is answered 202, a deprovision message for its job waits for
\* a worker, or another request is about to queue one: 202 is never the
\* answer for work nothing will pick up (README.md 512-513, api.go 138-181).
AcceptedDeleteIsQueued ==
  [][\A d \in Deletes : del[d] # "202" /\ del'[d] = "202" =>
       \A j \in target'[d] :
         \/ Outstanding(Deprovision(j))' # {}
         \/ \E e \in Deletes : del'[e] = "enqueue" /\ j \in target'[e]]_vars

\* A DELETE answered 202 ends with the job deleted for good and its
\* containers removed (README.md 482-485, worker.go 262-300).
DeleteCompletes ==
  \A d \in Deletes, j \in Jobs :
    (del[d] = "202" /\ j \in target[d]) ~>
      [](store[j].status = "deleted" /\ ~pg[j] /\ svc[j] = NoPort)

=============================================================================
