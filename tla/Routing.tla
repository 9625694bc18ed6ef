------------------------------ MODULE Routing ------------------------------
(***************************************************************************)
(* The control plane and the xDS server together.  Infraforge takes a call *)
(* of the xDS server as one step on the set of routes, and Registry lets   *)
(* any jobs come and go and any requests arrive.  Here the requests are    *)
(* the ones the workers send (internal/xdsclient, worker.go 242-249 and    *)
(* 269-277), and the jobs the reconciler lists are those of the store.     *)
(*                                                                         *)
(* A worker waits for the answer of its request.  When it gives up (the    *)
(* client's timeout, or a server that is down) the request has either not  *)
(* reached the server or goes on by itself.                                *)
(***************************************************************************)
EXTENDS Infraforge

CONSTANTS
  NoRequest,
  MaxMishaps,    \* how many of all the faults below one behaviour has
  Requests,      \* one name for each request that may be in progress at once
  NoRoute, MaxRestarts, MaxListErrs, ScanRepeats   \* as in Registry

VARIABLES
  sent,                       \* sent[h]: the request h waits for
  version, cache, phase, req, rec, snap, scan, list,
  restarts, listErrs, repeats \* as in Registry

\* The route a job contributes to the broker's inventory.
RouteOf(j) ==
  IF store[j].status = "ready" THEN <<ServiceOf[j], store[j].http>> ELSE NoRoute

X == INSTANCE Registry WITH
  Endpoints <- Ports,
  inventory <- [j \in Jobs |-> RouteOf(j)],
  services  <- [s \in Services |-> {p \in Ports : <<s, p>> \in routes}],
  changes <- 0, MaxChanges <- 0

xdsVars  == <<version, cache, phase, req, rec, snap, scan, list,
              restarts, listErrs, repeats>>
restVars == <<store, queueVars, faultVars, brokerVars, handlerVars, dockerVars>>
allVars  == <<vars, sent, xdsVars>>

RoutingInit ==
  /\ Init
  /\ sent = [h \in Handlers |-> NoRequest]
  /\ X!Init

-----------------------------------------------------------------------------
(* The client: xdsclient.HTTP *)

Calling(h) == pc[h] \in {"register", "unregister"}

\* The post reaches the server, which handles it in a goroutine of its own.
Send(h, r) ==
  LET s == ServiceOf[JobOf(h)]
      e == loc[h].http IN
  /\ Calling(h) /\ sent[h] = NoRequest
  /\ sent' = [sent EXCEPT ![h] = r]
  /\ UNCHANGED restVars
  /\ \/ /\ pc[h] = "register"
        /\ routes' = routes \cup {<<s, e>>}
        /\ X!Register(r, s, e)
     \/ /\ pc[h] = "unregister"
        /\ routes' = routes \ {<<s, e>>}
        /\ X!Unregister(r, s, e)

\* Where the handler goes on, answered or not.
GoOn(h) == Goto(h, IF pc[h] = "register" THEN "ack" ELSE "teardown", loc[h])

Answered(h) ==
  /\ Calling(h) /\ sent[h] # NoRequest
  /\ req[sent[h]] = "done"
  /\ Works /\ GoOn(h)
  /\ sent' = [sent EXCEPT ![h] = NoRequest]
  /\ UNCHANGED <<store, queueVars, brokerVars, dockerVars, routes, xdsVars>>

\* The name of a request that is over is used again.
Recycle(r) ==
  /\ req[r] = "done" /\ \A h \in Handlers : sent[h] # r
  /\ req' = [req EXCEPT ![r] = "new"]
  /\ UNCHANGED <<vars, sent, version, cache, phase, rec, snap, scan, list,
                 restarts, listErrs, repeats>>

\* An error is a warning only: the handler goes on.
GivesUp(h) ==
  /\ Calling(h)
  /\ Fails(pc[h]) /\ GoOn(h)
  /\ sent' = [sent EXCEPT ![h] = NoRequest]
  /\ UNCHANGED <<store, queueVars, brokerVars, dockerVars, routes, xdsVars>>

-----------------------------------------------------------------------------
(* The processes side by side *)

\* A step of the control plane that is no call of the xDS server.
Plain(A) == A /\ UNCHANGED <<routes, sent, xdsVars>>

HandlerPlain(h) == ~Calling(h) /\ Plain(HandlerStep(h) /\ UNCHANGED brokerVars)

HandlerNext(h) ==
  HandlerPlain(h) \/ Answered(h) \/ \E r \in Requests : Send(h, r)

\* A worker that dies leaves its requests to themselves.
WorkerDies(w) ==
  /\ WorkerCrash(w) /\ UNCHANGED <<brokerVars, routes, xdsVars>>
  /\ sent' = [h \in Handlers |-> IF h[1] = w THEN NoRequest ELSE sent[h]]

ControlPlane ==
  \/ Plain(BrokerNext /\ UNCHANGED workerVars)
  \/ \E w \in Workers : Plain(WorkerStart(w) /\ UNCHANGED brokerVars) \/ WorkerDies(w)
  \/ \E h \in Handlers :
       HandlerNext(h) \/ GivesUp(h) \/ Plain(DequeueNothing(h) /\ UNCHANGED brokerVars)
  \/ Plain((\E i \in pel : MinIdlePasses(i)) /\ UNCHANGED brokerVars)

\* A step of the xDS server that leaves the registry alone, or replaces it by
\* the list, or loses it.
Xds(A) == UNCHANGED <<restVars, sent>> /\ A

Listed == {list[k] : k \in DOMAIN list}

XdsReconcile ==
  \/ Xds(UNCHANGED routes /\ X!ReconcileStart)
  \/ Xds(UNCHANGED routes /\ \E j \in Jobs : X!ListJob(j))
  \/ Xds(routes' \in {routes, Listed} /\ X!ReplaceAll)
  \/ Xds(UNCHANGED routes /\ X!ReconcilePush)

XdsPush(r) == Xds(UNCHANGED routes /\ X!RequestPush(r)) \/ Recycle(r)

XdsStart == Xds(UNCHANGED routes /\ X!Start)

XdsServer ==
  \/ XdsStart
  \/ XdsReconcile
  \/ Xds(UNCHANGED routes /\ X!ListFails)
  \/ \E r \in Requests : XdsPush(r)
  \/ Xds(routes' = {} /\ X!Crash)

Mishaps == faults + crashes + restarts + listErrs

RoutingSpec ==
  RoutingInit /\ [][(ControlPlane \/ XdsServer) /\ Mishaps' <= MaxMishaps]_allVars

\* The fairness of Infraforge and of Registry.
FairRoutingSpec ==
  /\ RoutingSpec
  /\ WF_allVars(Plain(BrokerStart /\ UNCHANGED workerVars))
  /\ WF_allVars(Plain(BrokerStep /\ UNCHANGED workerVars))
  /\ \A w \in Workers : WF_allVars(Plain(WorkerStart(w) /\ UNCHANGED brokerVars))
  /\ \A h \in Handlers : WF_allVars(HandlerNext(h))
  /\ WF_allVars(Plain((\E i \in pel : MinIdlePasses(i)) /\ UNCHANGED brokerVars))
  /\ WF_allVars(XdsStart)
  /\ WF_allVars(XdsReconcile)
  /\ \A r \in Requests : WF_allVars(XdsPush(r))

-----------------------------------------------------------------------------
\* The routes of the jobs that are ready.
ReadyRoutes ==
  {<<ServiceOf[j], store[j].http>> : j \in {i \in Jobs : store[i].status = "ready"}}

\* The routes settle on those of the ready jobs: a job whose worker died or
\* gave up before it was registered, whose registration a stale list or a
\* restart of the server undid, or whose teardown could not unregister it,
\* is put right by the reconciler (worker.go 242-249, 269-277, reconciler.go
\* 20-31).
ReadyIsRouted == <>[](routes = ReadyRoutes)

\* Whatever Envoy is served for a service is the port of a container of a job
\* of that service, until a DELETE names such a job: lists that mix records of
\* different moments, stale copies that workers write back, snapshots pushed
\* late and requests that outlive their worker only bring back endpoints that
\* still lead there (worker.go 236-247, reconciler.go 41-99, registry.go
\* 116-160).
ServedIsLive ==
  \A s \in Services : \A p \in cache.clusters[s] :
    /\ p \in Ports
    /\ \E j \in Jobs :
         ServiceOf[j] = s /\ (svc[j] = p \/ \E d \in Deletes : j \in target[d])

=============================================================================
