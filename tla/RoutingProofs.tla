--------------------------- MODULE RoutingProofs ----------------------------
(***************************************************************************)
(* What the control plane and the xDS server promise together: an endpoint *)
(* that Envoy is served leads to a container of its service, for any jobs, *)
(* services, workers, requests, faults and restarts.                       *)
(*                                                                         *)
(* The control plane moves as it does by itself, except that the routes    *)
(* are now the server's.  What was proved of its records and containers    *)
(* does not depend on the routes, so it holds here too; what the server    *)
(* keeps comes from ready records, and from nothing else.                  *)
(***************************************************************************)
EXTENDS InfraforgeRecords, Routing

\* Endpoint p is one of service s.
Leads(s, p) ==
  /\ p \in Ports
  /\ \E j \in Jobs : ServiceOf[j] = s /\ (svc[j] = p \/ ~Untouched(j))

\* So are all endpoints of a snapshot.
AllLead(clusters) == \A s \in Services : \A p \in clusters[s] : Leads(s, p)

\* A record that reads ready has an endpoint, also in the copy of a handler.
ReadyInv ==
  /\ \A j \in Jobs : store[j].status = "ready" => store[j].http \in Ports
  /\ \A h \in Busy : pc[h] # "get" =>
       /\ loc[h].status = "ready" => loc[h].http \in Ports
       /\ pc[h] \in {"ready", "register"} => loc[h].status = "ready"

\* What the invariant says of the control plane.
PlaneInv == TypeInv /\ RequestInv /\ ReachInv /\ ReadyInv

\* What it says of the server: every endpoint it has, wherever it has it, leads
\* to its service.
ServerInv ==
  /\ version \in Nat
  /\ snap \in [X!Pushers -> X!Snapshot] /\ cache \in X!Snapshot
  /\ list \in Seq(Services \X Ports)
  /\ \A r \in routes : Leads(r[1], r[2])
  /\ \A k \in DOMAIN list : Leads(list[k][1], list[k][2])
  /\ AllLead(cache.clusters)
  /\ \A x \in X!Pushers : AllLead(snap[x].clusters)

-----------------------------------------------------------------------------
(* The control plane *)

\* A step of the control plane leaves ready records with their endpoint.
LEMMA ReadyStep ==
  ASSUME TypeInv, TypeInv', RequestInv, ReadyInv, Steps
  PROVE  ReadyInv'
<1>1. CASE Requesting
  <2>1. UNCHANGED <<pc, loc>> /\ Busy' = Busy
    BY Zenon, <1>1 DEF Requesting, Busy
  <2>2. ASSUME NEW j \in Jobs, store'[j].status = "ready" PROVE store'[j] = store[j]
    BY <1>1, <2>2 DEF Requesting, RequestWrites, RequestInv, NewJob
  <2>3. QED
    BY Zenon, <2>1, <2>2 DEF ReadyInv
<1>2. CASE Loops
  <2>1. UNCHANGED store /\ \A g \in Busy' : pc'[g] = "get" \/ Same(g)
    BY Zenon, <1>2 DEF Loops
  <2>2. QED
    BY Zenon, <2>1 DEF ReadyInv, Same
<1>3. ASSUME NEW h \in Busy, Moves(h) PROVE ReadyInv'
  <2> DEFINE Sound(job) == job.status = "ready" => job.http \in Ports
  <2>1. /\ h \in Handlers /\ JobOf(h) \in Jobs /\ OwnJob(h)
        /\ store[JobOf(h)] \in JobRecord /\ Sound(store[JobOf(h)])
    BY Zenon, <1>3, InHandType DEF Moves, TypeInv, ReadyInv
  <2>2. pc[h] # "get" => Sound(loc[h])
    BY Zenon DEF ReadyInv
  <2>3. \A j \in Jobs : Sound(store'[j])
    BY Zenon, <2>1, <2>2 DEF OwnJob, Writing, ReadyInv
  <2>4. ASSUME NEW g \in Busy', g # h, pc'[g] # "get"
        PROVE  /\ Sound(loc'[g])
               /\ pc'[g] \in {"ready", "register"} => loc'[g].status = "ready"
    BY Zenon, <2>1, <2>4 DEF OwnJob, Others, Busy, ReadyInv
  <2>5. ASSUME h \in Busy', pc'[h] # "get"
        PROVE  /\ Sound(loc'[h])
               /\ pc'[h] \in {"ready", "register"} => loc'[h].status = "ready"
    <3>1. CASE Returns(h)
      BY Zenon, <2>5, <3>1 DEF Returns, Busy
    <3>2. CASE Decides(h)
      <4> DEFINE d == Decision(stream[cur[h]].action, store[JobOf(h)])
      <4>1. /\ d[1] \notin {"ready", "register"}
            /\ d[2].status = "ready" => d[2] = store[JobOf(h)]
        BY <2>1 DEF Decision, ProvisionDecision, DeprovisionDecision, JobRecord, Status
      <4>2. \/ pc'[h] = d[1] /\ loc'[h] = d[2]
            \/ pc'[h] = "ack" /\ loc'[h] = NotFound
        BY Zenon, <3>2 DEF Decides
      <4> HIDE DEF d
      <4>3. NotFound.status # "ready"
        BY DEF NotFound
      <4>4. QED
        BY Zenon, <2>1, <4>1, <4>2, <4>3
    <3>3. CASE Advances(h)
      BY Zenon, <2>2, <3>3 DEF Advances, Straight, ReadyInv
    <3>4. CASE HasPostgres(h)
      BY Zenon, <2>2, <3>4 DEF HasPostgres
    <3>5. CASE HasHTTP(h)
      <4>1. svc'[JobOf(h)] \in Ports
        BY Zenon, <2>1, <3>5 DEF HasHTTP, TypeInv, DockerOK
      <4>2. QED
        BY Zenon, <3>5, <4>1 DEF HasHTTP, Marks
    <3>6. CASE ProvisionErrs(h)
      BY Zenon, <2>2, <3>6 DEF ProvisionErrs, Marks
    <3>7. CASE TearsDown(h)
      BY Zenon, <2>2, <3>7 DEF TearsDown, Marks
    <3>8. QED
      BY Zenon, <1>3, <3>1, <3>2, <3>3, <3>4, <3>5, <3>6, <3>7 DEF Moves
  <2>6. QED
    BY Zenon, <2>3, <2>4, <2>5 DEF ReadyInv
<1>4. QED
  BY Zenon, <1>1, <1>2, <1>3 DEF Steps

\* Of the control plane the server sees the records, of which no container goes
\* before a DELETE.
Keeps == \A j \in Jobs : Untouched(j)' => Untouched(j) /\ Grows(j)

\* A step of the control plane by itself.
LEMMA PlaneNext ==
  ASSUME PlaneInv, [Next]_vars
  PROVE  PlaneInv' /\ Keeps
<1>1. TypeInv' /\ Steps /\ RequestInv'
  BY Zenon, TypeNext, NextSteps DEF PlaneInv
<1>2. ReachInv' /\ ReadyInv'
  BY Zenon, <1>1, ReachStep, ReadyStep DEF PlaneInv
<1>3. QED
  BY Zenon, <1>1, <1>2, GrowsUntilDeleted DEF PlaneInv, Keeps

\* Nothing of it depends on the routes.
LEMMA PlaneStays ==
  ASSUME PlaneInv, UNCHANGED restVars, routes' \subseteq Services \X Ports
  PROVE  PlaneInv' /\ Keeps
<1>1. /\ UNCHANGED <<store, queueVars, faultVars, brokerVars, handlerVars, dockerVars>>
      /\ UNCHANGED <<stream, group, cursor, pel, idle, dead, pg, svc, calls>>
      /\ UNCHANGED <<pc, cur, loc, batch, prompt>>
      /\ UNCHANGED <<serving, post, del, target, copy>>
  BY Zenon DEF restVars, queueVars, dockerVars, handlerVars, brokerVars
<1>2. TypeInv'
  <2>1. QueueTypeOK' /\ Grown
    BY Zenon, <1>1, QueueType DEF PlaneInv, TypeInv, QueueStep
  <2>2. HandlersOK'
    BY Zenon, <1>1, <2>1, SameHandlers DEF PlaneInv, TypeInv
  <2>3. QED
    BY Zenon, <1>1, <2>1, <2>2 DEF PlaneInv, TypeInv, faultVars, DockerOK, FaultTypeOK,
       BrokerTypeOK
<1>3. Busy' = Busy /\ \A h \in Handlers : JobOf(h)' = JobOf(h)
  BY Zenon, <1>1 DEF Busy, JobOf
<1>4. \A j \in Jobs : (Untouched(j)' <=> Untouched(j)) /\ Grows(j)
  BY Zenon, <1>1 DEF Untouched, Grows
<1>5. RequestInv' /\ ReadyInv'
  BY Zenon, <1>1, <1>3 DEF PlaneInv, RequestInv, ReadyInv
<1>6. ReachInv'
  <2>1. \A j \in Jobs : RecordReaches(j) => RecordReaches(j)'
    BY Zenon, <1>1 DEF RecordReaches, Reached
  <2>2. \A h \in Busy : h \in Handlers /\ JobOf(h) \in Jobs /\ (CopyReaches(h) => CopyReaches(h)')
    BY Zenon, <1>1, <1>3, InHandType DEF CopyReaches, Reached, PlaneInv
  <2>3. QED
    BY Zenon, <1>1, <1>3, <1>4, <2>1, <2>2 DEF PlaneInv, ReachInv
<1>7. QED
  BY Zenon, <1>2, <1>4, <1>5, <1>6 DEF PlaneInv, Keeps

\* A handler that has its answer goes on.
LEMMA PlaneAnswered ==
  ASSUME PlaneInv, NEW h \in Handlers, Answered(h)
  PROVE  PlaneInv' /\ Keeps
<1> DEFINE l == IF pc[h] = "register" THEN "ack" ELSE "teardown"
<1>1. /\ h \in Busy /\ Goto(h, l, loc[h]) /\ l \in {"ack", "teardown"}
      /\ <<pc[h], l>> \in Straight /\ pc[h] \in {"register", "unregister"}
  BY Zenon DEF Answered, Calling, GoOn, Busy, Straight
<1>2. /\ UNCHANGED <<store, queueVars, brokerVars, dockerVars, routes, faultVars>>
      /\ UNCHANGED <<stream, group, cursor, pel, dead, crashes, pg, svc, calls>>
      /\ UNCHANGED <<serving, post, del, target, copy>>
  BY Zenon DEF Answered, Works, queueVars, dockerVars, brokerVars, faultVars
<1> HIDE DEF l
<1>3. TypeInv'
  <2>1. QueueTypeOK' /\ Grown
    BY Zenon, <1>2, QueueType DEF PlaneInv, TypeInv, QueueStep
  <2>2. l \in Labels /\ l \notin {"ready", "register", "unregister"} /\ loc[h] \in JobRecord
    BY Zenon, <1>1 DEF Labels, PlaneInv, TypeInv, HandlersOK
  <2>3. HandlersOK'
    BY Zenon, <1>1, <2>1, <2>2, GotoType DEF PlaneInv, TypeInv
  <2>4. QED
    BY Zenon, <1>2, <2>1, <2>3 DEF PlaneInv, TypeInv, faultVars, DockerOK, FaultTypeOK,
       BrokerTypeOK
<1>4. Moves(h)
  <2>1. Others(h) /\ pc'[h] = l /\ loc'[h] = loc[h] /\ cur'[h] = cur[h]
    BY Zenon, <1>1, GotoShape DEF PlaneInv
  <2>2. Advances(h)
    BY Zenon, <1>1, <1>2, <2>1 DEF Advances
  <2>3. pc[h] \notin Writing
    BY Zenon, <1>1 DEF Writing
  <2>4. OwnJob(h)
    BY Zenon, <1>2, <2>1, <2>3 DEF OwnJob
  <2>5. QED
    BY Zenon, <2>1, <2>2, <2>4 DEF Moves
<1>5. Steps /\ RequestInv'
  BY Zenon, <1>1, <1>2, <1>4 DEF Steps, PlaneInv, RequestInv
<1>6. ReachInv' /\ ReadyInv'
  BY Zenon, <1>3, <1>5, ReachStep, ReadyStep DEF PlaneInv
<1>7. QED
  BY Zenon, <1>3, <1>5, <1>6, GrowsUntilDeleted DEF PlaneInv, Keeps

\* A step of the control plane that is no call of the server, or a call the
\* worker has given up.
LEMMA PlainStep ==
  ASSUME ControlPlane,
         ~ \E h \in Handlers : Answered(h) \/ \E r \in Requests : Send(h, r)
  PROVE  Next /\ UNCHANGED <<routes, xdsVars>>
<1>1. CASE Plain(BrokerNext /\ UNCHANGED workerVars)
  BY Zenon, <1>1 DEF Plain, Next
<1>2. ASSUME NEW w \in Workers, Plain(WorkerStart(w) /\ UNCHANGED brokerVars) \/ WorkerDies(w)
      PROVE  Next /\ UNCHANGED <<routes, xdsVars>>
  <2>1. (WorkerStart(w) \/ WorkerCrash(w)) /\ UNCHANGED brokerVars /\ UNCHANGED <<routes, xdsVars>>
    BY Zenon, <1>2 DEF Plain, WorkerDies
  <2>2. QED
    BY Zenon, <2>1 DEF Next, WorkerNext
<1>3. ASSUME NEW h \in Handlers,
             HandlerPlain(h) \/ Plain(DequeueNothing(h) /\ UNCHANGED brokerVars)
      PROVE  Next /\ UNCHANGED <<routes, xdsVars>>
  <2>1. (HandlerStep(h) \/ DequeueNothing(h)) /\ UNCHANGED brokerVars /\ UNCHANGED <<routes, xdsVars>>
    BY Zenon, <1>3 DEF HandlerPlain, Plain
  <2>2. QED
    BY Zenon, <2>1 DEF Next, WorkerNext
<1>4. ASSUME NEW h \in Handlers, GivesUp(h) PROVE Next /\ UNCHANGED <<routes, xdsVars>>
  <2>1. /\ pc[h] \in {"register", "unregister"} /\ Fails(pc[h])
        /\ Goto(h, IF pc[h] = "register" THEN "ack" ELSE "teardown", loc[h])
        /\ UNCHANGED <<store, queueVars, dockerVars>> /\ UNCHANGED brokerVars
        /\ UNCHANGED routes /\ UNCHANGED <<routes, xdsVars>>
    BY Zenon, <1>4 DEF GivesUp, Calling, GoOn
  <2>2. CASE pc[h] = "register"
    BY Zenon, <2>1, <2>2 DEF Register, HandlerStep, WorkerNext, Next
  <2>3. CASE pc[h] = "unregister"
    BY Zenon, <2>1, <2>3 DEF Unregister, HandlerStep, WorkerNext, Next
  <2>4. QED
    BY Zenon, <2>1, <2>2, <2>3
<1>5. CASE Plain((\E i \in pel : MinIdlePasses(i)) /\ UNCHANGED brokerVars)
  BY Zenon, <1>5 DEF Plain, Next, WorkerNext
<1>6. QED
  BY Zenon, <1>1, <1>2, <1>3, <1>4, <1>5 DEF ControlPlane, HandlerNext

-----------------------------------------------------------------------------
(* The server *)

\* An endpoint of a service stays one.
LEMMA LeadsStays ==
  ASSUME Keeps, NEW s, NEW p, Leads(s, p)
  PROVE  Leads(s, p)'
<1>1. PICK j \in Jobs : ServiceOf[j] = s /\ (svc[j] = p \/ ~Untouched(j))
  BY Zenon DEF Leads
<1>2. p \in Ports /\ p # NoPort
  BY Zenon, PortAssumption DEF Leads
<1>3. svc'[j] = p \/ ~Untouched(j)'
  BY Zenon, <1>1, <1>2 DEF Keeps, Grows
<1>4. QED
  BY Zenon, <1>1, <1>2, <1>3 DEF Leads

\* The endpoint of a ready record is one of its service.
LEMMA RecordLeads ==
  ASSUME PlaneInv, NEW j \in Jobs, store[j].status = "ready"
  PROVE  /\ Leads(ServiceOf[j], store[j].http)
         /\ <<ServiceOf[j], store[j].http>> \in Services \X Ports
<1>1. store[j].http \in Ports /\ (Untouched(j) => svc[j] = store[j].http)
  BY Zenon DEF PlaneInv, ReadyInv, ReachInv, RecordReaches, Reached
<1>2. ServiceOf[j] \in Services
  BY Zenon, WorkerAssumption
<1>3. QED
  BY Zenon, <1>1, <1>2 DEF Leads

\* So is the one a worker registers.
LEMMA CopyLeads ==
  ASSUME PlaneInv, NEW h \in Handlers, Calling(h)
  PROVE  /\ <<ServiceOf[JobOf(h)], loc[h].http>> \in Services \X Ports
         /\ pc[h] = "register" => Leads(ServiceOf[JobOf(h)], loc[h].http)
<1>1. h \in Busy /\ pc[h] \in {"register", "unregister"}
  BY Zenon DEF Calling, Busy
<1>2. JobOf(h) \in Jobs /\ loc[h].http \in Ports
  BY Zenon, <1>1, InHandType DEF PlaneInv, TypeInv, HandlersOK, InHandOK
<1>3. ServiceOf[JobOf(h)] \in Services
  BY Zenon, <1>2, WorkerAssumption
<1>4. ASSUME pc[h] = "register" PROVE Leads(ServiceOf[JobOf(h)], loc[h].http)
  <2>1. loc[h].status = "ready"
    BY Zenon, <1>1, <1>4 DEF PlaneInv, ReadyInv
  <2>2. Untouched(JobOf(h)) => svc[JobOf(h)] = loc[h].http
    BY Zenon, <1>1, <1>4, <2>1 DEF PlaneInv, ReachInv, CopyReaches, Reached
  <2>3. QED
    BY Zenon, <1>2, <2>2 DEF Leads
<1>5. QED
  BY Zenon, <1>2, <1>3, <1>4

\* What the server has after a step leads to its service before the step.
ServerStep ==
  /\ version' \in Nat
  /\ snap' \in [X!Pushers -> X!Snapshot] /\ cache' \in X!Snapshot
  /\ list' \in Seq(Services \X Ports)
  /\ \A r \in routes' : Leads(r[1], r[2])
  /\ \A k \in DOMAIN list' : Leads(list'[k][1], list'[k][2])
  /\ AllLead(cache'.clusters)
  /\ \A x \in X!Pushers : AllLead(snap'[x].clusters)

\* Then it does so after it.
LEMMA ServerStepKeeps ==
  ASSUME ServerStep, Keeps
  PROVE  ServerInv'
<1>1. \A s, p : Leads(s, p) => Leads(s, p)'
  BY Zenon, LeadsStays
<1>2. AllLead(cache.clusters)'
  BY Zenon, <1>1 DEF ServerStep, AllLead
<1>3. \A x \in X!Pushers : AllLead(snap[x].clusters)'
  BY Zenon, <1>1 DEF ServerStep, AllLead
<1>4. QED
  BY Zenon, <1>1, <1>2, <1>3 DEF ServerStep, ServerInv

\* The registry as the server has it.
Shown == [s \in Services |-> {p \in Ports : <<s, p>> \in routes}]

LEMMA ShownLeads ==
  ASSUME ServerInv
  PROVE  Shown \in X!Registered /\ AllLead(Shown)
<1>1. Shown \in X!Registered
  BY Zenon DEF Shown, X!Registered
<1>2. ASSUME NEW s \in Services, NEW p \in Shown[s] PROVE Leads(s, p)
  <2>1. <<s, p>> \in routes
    BY Zenon, <1>2 DEF Shown
  <2>2. <<s, p>>[1] = s /\ <<s, p>>[2] = p
    OBVIOUS
  <2>3. QED
    BY Zenon, <2>1, <2>2 DEF ServerInv
<1>3. QED
  BY Zenon, <1>1, <1>2 DEF AllLead

\* A snapshot is built.
LEMMA Built ==
  ASSUME ServerInv, NEW x \in X!Pushers, NEW c \in X!Registered, AllLead(c),
         version' = version + 1,
         snap' = [snap EXCEPT ![x] = [version |-> version + 1, clusters |-> c]]
  PROVE  /\ version' \in Nat /\ snap' \in [X!Pushers -> X!Snapshot]
         /\ \A y \in X!Pushers : AllLead(snap'[y].clusters)
<1> DEFINE b == [version |-> version + 1, clusters |-> c]
<1>1. b \in X!Snapshot /\ b.clusters = c /\ version' \in Nat
  BY DEF ServerInv, X!Snapshot
<1> HIDE DEF b
<1>2. /\ snap' \in [X!Pushers -> X!Snapshot]
      /\ \A y \in X!Pushers : snap'[y] = snap[y] \/ snap'[y] = b
  BY Zenon, <1>1 DEF ServerInv, b
<1>3. QED
  BY Zenon, <1>1, <1>2 DEF ServerInv

\* A request is handled: the registry changes, and a snapshot is built of it.
LEMMA SendStep ==
  ASSUME PlaneInv, ServerInv, NEW h \in Handlers, NEW r \in Requests, Send(h, r)
  PROVE  routes' \subseteq Services \X Ports /\ ServerStep
<1> DEFINE s == ServiceOf[JobOf(h)]
           e == loc[h].http
<1>1. /\ Calling(h) /\ routes \subseteq Services \X Ports /\ r \in X!Pushers
      /\ <<s, e>> \in Services \X Ports /\ (pc[h] = "register" => Leads(s, e))
  BY Zenon, CopyLeads DEF Send, PlaneInv, TypeInv, DockerOK, X!Pushers
<1>2. s \in Services /\ e \in Ports
  BY <1>1
<1> HIDE DEF s, e
<1>3. Shown \in X!Registered /\ AllLead(Shown)
  BY Zenon, ShownLeads
<1>4. <<s, e>>[1] = s /\ <<s, e>>[2] = e
  OBVIOUS
<1>5. CASE pc[h] = "register"
  <2> DEFINE c == [Shown EXCEPT ![s] = @ \cup {e}]
  <2>1. /\ routes' = routes \cup {<<s, e>>} /\ version' = version + 1
        /\ snap' = [snap EXCEPT ![r] = [version |-> version + 1, clusters |-> c]]
        /\ cache' = cache /\ list' = list
    BY Zenon, <1>5 DEF Send, X!Register, X!Build, Shown, s, e
  <2>2. c \in X!Registered /\ \A t \in Services : \A p \in c[t] : p \in Shown[t] \/ (t = s /\ p = e)
    BY <1>2, <1>3 DEF X!Registered
  <2>3. AllLead(c)
    BY Zenon, <1>1, <1>3, <1>5, <2>2 DEF AllLead
  <2> HIDE DEF c
  <2>4. /\ version' \in Nat /\ snap' \in [X!Pushers -> X!Snapshot]
        /\ \A y \in X!Pushers : AllLead(snap'[y].clusters)
    BY Zenon, <1>1, <2>1, <2>2, <2>3, Built
  <2>5. QED
    BY Zenon, <1>1, <1>4, <1>5, <2>1, <2>4 DEF ServerInv, ServerStep
<1>6. CASE pc[h] = "unregister"
  <2> DEFINE c == [Shown EXCEPT ![s] = @ \ {e}]
  <2>1. /\ routes' = routes \ {<<s, e>>} /\ version' = version + 1
        /\ snap' = [snap EXCEPT ![r] = [version |-> version + 1, clusters |-> c]]
        /\ cache' = cache /\ list' = list
    BY Zenon, <1>6 DEF Send, X!Unregister, X!Build, Shown, s, e
  <2>2. c \in X!Registered /\ \A t \in Services : \A p \in c[t] : p \in Shown[t]
    BY <1>2, <1>3 DEF X!Registered
  <2>3. AllLead(c)
    BY Zenon, <1>3, <2>2 DEF AllLead
  <2> HIDE DEF c
  <2>4. /\ version' \in Nat /\ snap' \in [X!Pushers -> X!Snapshot]
        /\ \A y \in X!Pushers : AllLead(snap'[y].clusters)
    BY Zenon, <1>1, <2>1, <2>2, <2>3, Built
  <2>5. QED
    BY Zenon, <1>1, <2>1, <2>4 DEF ServerInv, ServerStep
<1>7. QED
  BY Zenon, <1>1, <1>5, <1>6 DEF Calling

\* The list reads a record.
LEMMA ListStep ==
  ASSUME PlaneInv, ServerInv, NEW j \in Jobs, X!ListJob(j), UNCHANGED routes
  PROVE  ServerStep
<1>1. /\ UNCHANGED <<version, cache, snap>>
      /\ list' = IF RouteOf(j) = NoRoute THEN list ELSE Append(list, RouteOf(j))
  BY Zenon DEF X!ListJob
<1>2. CASE list' = list
  BY Zenon, <1>1, <1>2 DEF ServerInv, ServerStep
<1>3. CASE list' # list
  <2> DEFINE e == <<ServiceOf[j], store[j].http>>
  <2>1. list' = Append(list, e) /\ store[j].status = "ready"
    BY Zenon, <1>1, <1>3 DEF RouteOf
  <2>2. e \in Services \X Ports /\ Leads(e[1], e[2])
    <3>1. e[1] = ServiceOf[j] /\ e[2] = store[j].http
      OBVIOUS
    <3>2. QED
      BY Zenon, <2>1, <3>1, RecordLeads
  <2> HIDE DEF e
  <2>3. /\ list' \in Seq(Services \X Ports)
        /\ \A k \in DOMAIN list' : (k \in DOMAIN list /\ list'[k] = list[k]) \/ list'[k] = e
    BY <2>1, <2>2 DEF ServerInv
  <2>4. \A k \in DOMAIN list' : Leads(list'[k][1], list'[k][2])
    BY Zenon, <2>2, <2>3 DEF ServerInv
  <2>5. QED
    BY Zenon, <1>1, <2>3, <2>4 DEF ServerInv, ServerStep
<1>4. QED
  BY Zenon, <1>2, <1>3

\* No list has no endpoints.
LEMMA NoList ==
  ASSUME list' = << >>
  PROVE  list' \in Seq(Services \X Ports) /\ DOMAIN list' = {}
  OBVIOUS

\* The registry becomes what the list says.
LEMMA ReplaceStep ==
  ASSUME PlaneInv, ServerInv, X!ReplaceAll, routes' \in {routes, Listed}
  PROVE  routes' \subseteq Services \X Ports /\ ServerStep
<1>1. \A k \in DOMAIN list : list[k] \in Services \X Ports /\ list[k][1] \in Services
                             /\ list[k][2] \in Ports
  BY DEF ServerInv
<1>2. routes \subseteq Services \X Ports
  BY Zenon DEF PlaneInv, TypeInv, DockerOK
<1>3. routes' \subseteq Services \X Ports /\ \A q \in routes' : Leads(q[1], q[2])
  BY Zenon, <1>1, <1>2 DEF Listed, ServerInv
<1>4. list' \in Seq(Services \X Ports) /\ DOMAIN list' = {}
  BY Zenon, NoList DEF X!ReplaceAll
<1>5. CASE UNCHANGED <<version, cache, snap>>
  BY Zenon, <1>3, <1>4, <1>5 DEF ServerInv, ServerStep
<1>6. CASE X!Build(X!Reconciler, X!Bucketed)
  <2> DEFINE c == X!Bucketed
  <2>1. X!Reconciler \in X!Pushers
    BY Zenon DEF X!Pushers
  <2>2. /\ version' = version + 1 /\ cache' = cache
        /\ snap' = [snap EXCEPT ![X!Reconciler] = [version |-> version + 1, clusters |-> c]]
    BY Zenon, <1>6 DEF X!Build
  <2>3. c \in X!Registered
    BY Zenon, <1>1 DEF X!Bucketed, X!Wanted, X!Registered
  <2>4. AllLead(c)
    BY Zenon DEF X!Bucketed, X!Wanted, AllLead, ServerInv
  <2> HIDE DEF c
  <2>5. /\ version' \in Nat /\ snap' \in [X!Pushers -> X!Snapshot]
        /\ \A y \in X!Pushers : AllLead(snap'[y].clusters)
    BY Zenon, <2>1, <2>2, <2>3, <2>4, Built
  <2>6. QED
    BY Zenon, <1>3, <1>4, <2>2, <2>5 DEF ServerInv, ServerStep
<1>7. QED
  BY Zenon, <1>3, <1>5, <1>6 DEF X!ReplaceAll

\* A snapshot that was built is served.
LEMMA PushStep ==
  ASSUME ServerInv, NEW x \in X!Pushers, cache' = snap[x],
         version' = version, snap' = snap, list' = list, routes' = routes
  PROVE  ServerStep
<1>1. snap[x] \in X!Snapshot
  BY Zenon DEF ServerInv
<1>2. QED
  BY Zenon, <1>1 DEF ServerInv, ServerStep

\* The server starts with the registry it has, which is empty.
LEMMA StartStep ==
  ASSUME ServerInv, X!Start, UNCHANGED routes
  PROVE  ServerStep
<1>1. /\ version' = 1 /\ cache' = [version |-> 1, clusters |-> Shown]
      /\ snap' = snap /\ list' = list
  BY Zenon DEF X!Start, Shown
<1>2. Shown \in X!Registered /\ AllLead(Shown)
  BY Zenon, ShownLeads
<1>3. version' \in Nat /\ cache' \in X!Snapshot /\ cache'.clusters = Shown
  BY <1>1, <1>2 DEF X!Snapshot
<1>4. QED
  BY Zenon, <1>1, <1>2, <1>3 DEF ServerInv, ServerStep

\* Nothing is served before the first reconcile.
LEMMA NothingServed ==
  /\ X!NoSnapshot \in X!Snapshot
  /\ AllLead(X!NoSnapshot.clusters)
<1>1. X!Empty \in X!Registered /\ \A s \in Services : X!Empty[s] = {}
  BY Zenon DEF X!Empty, X!Registered
<1>2. X!NoSnapshot \in X!Snapshot /\ X!NoSnapshot.clusters = X!Empty
  BY <1>1 DEF X!NoSnapshot, X!Snapshot
<1>3. QED
  BY Zenon, <1>1, <1>2 DEF AllLead

\* The server stops.
LEMMA CrashStep ==
  ASSUME X!Crash, routes' = {}
  PROVE  ServerStep
<1>1. /\ version' = 0 /\ cache' = X!NoSnapshot /\ list' = << >>
      /\ snap' = [x \in X!Pushers |-> X!NoSnapshot]
  BY Zenon DEF X!Crash
<1>2. version' \in Nat
  BY <1>1
<1>3. list' \in Seq(Services \X Ports) /\ DOMAIN list' = {}
  BY Zenon, <1>1, NoList
<1>4. QED
  BY Zenon, <1>1, <1>2, <1>3, NothingServed DEF ServerStep

\* Every step of the server.
LEMMA ServerSteps ==
  ASSUME PlaneInv, ServerInv, XdsServer
  PROVE  /\ UNCHANGED restVars
         /\ routes' \subseteq Services \X Ports
         /\ ServerStep
<1>1. routes \subseteq Services \X Ports
  BY Zenon DEF PlaneInv, TypeInv, DockerOK
<1>2. CASE XdsStart
  BY Zenon, <1>1, <1>2, StartStep DEF XdsStart, Xds
<1>3. CASE Xds(UNCHANGED routes /\ (X!ReconcileStart \/ X!ListFails))
  <2>1. /\ UNCHANGED <<restVars, routes, version, cache, snap>>
        /\ list' = << >>
    BY Zenon, <1>3 DEF Xds, X!ReconcileStart, X!ListFails
  <2>2. list' \in Seq(Services \X Ports) /\ DOMAIN list' = {}
    BY Zenon, <2>1, NoList
  <2>3. QED
    BY Zenon, <1>1, <2>1, <2>2 DEF ServerInv, ServerStep
<1>4. CASE Xds(UNCHANGED routes /\ \E j \in Jobs : X!ListJob(j))
  BY Zenon, <1>1, <1>4, ListStep DEF Xds
<1>5. CASE Xds(routes' \in {routes, Listed} /\ X!ReplaceAll)
  BY Zenon, <1>5, ReplaceStep DEF Xds
<1>6. CASE Xds(UNCHANGED routes /\ X!ReconcilePush)
  <2>1. X!Reconciler \in X!Pushers
    BY Zenon DEF X!Pushers
  <2>2. ServerStep
    BY Zenon, <1>6, <2>1, PushStep DEF Xds, X!ReconcilePush, X!Push
  <2>3. QED
    BY Zenon, <1>1, <1>6, <2>2 DEF Xds
<1>7. ASSUME NEW r \in Requests, Xds(UNCHANGED routes /\ X!RequestPush(r))
      PROVE  UNCHANGED <<restVars, routes>> /\ ServerStep
  <2>1. r \in X!Pushers
    BY Zenon DEF X!Pushers
  <2>2. ServerStep
    BY Zenon, <1>7, <2>1, PushStep DEF Xds, X!RequestPush, X!Push
  <2>3. QED
    BY Zenon, <1>7, <2>2 DEF Xds
<1>8. ASSUME NEW r \in Requests, Recycle(r)
      PROVE  UNCHANGED <<restVars, routes>> /\ ServerStep
  <2>1. UNCHANGED <<vars, version, cache, snap, list>>
    BY Zenon, <1>8 DEF Recycle
  <2>2. UNCHANGED <<restVars, routes>>
    BY Zenon, <2>1 DEF vars, restVars, workerVars
  <2>3. QED
    BY Zenon, <2>1, <2>2 DEF ServerInv, ServerStep
<1>9. CASE Xds(routes' = {} /\ X!Crash)
  BY Zenon, <1>9, CrashStep DEF Xds
<1>10. QED
  BY Zenon, <1>1, <1>2, <1>3, <1>4, <1>5, <1>6, <1>7, <1>8, <1>9
     DEF XdsServer, XdsReconcile, XdsPush, Xds

-----------------------------------------------------------------------------
(* Both together *)

LEMMA RoutingStart == RoutingInit => PlaneInv /\ ServerInv
<1> SUFFICES ASSUME RoutingInit PROVE PlaneInv /\ ServerInv
  OBVIOUS
<1>1. Init /\ X!Init
  BY Zenon DEF RoutingInit
<1>2. ReadyInv
  <2>1. \A j \in Jobs : store[j].status # "ready"
    <3>1. NotFound.status # "ready"
      BY DEF NotFound
    <3>2. QED
      BY Zenon, <1>1, <3>1 DEF Init, StoreInit
  <2>2. Busy = {}
    BY Zenon, <1>1 DEF Init, WorkerInit, Busy
  <2>3. QED
    BY Zenon, <2>1, <2>2 DEF ReadyInv
<1>3. PlaneInv
  BY Zenon, <1>1, <1>2, TypeInit, RequestInit, RecordsInit DEF PlaneInv
<1>4. ServerInv
  <2>1. /\ version = 0 /\ cache = X!NoSnapshot /\ list = << >> /\ routes = {}
        /\ snap = [x \in X!Pushers |-> X!NoSnapshot]
    BY Zenon, <1>1 DEF X!Init, Init, WorkerInit
  <2>2. version \in Nat /\ list \in Seq(Services \X Ports) /\ DOMAIN list = {}
    BY <2>1
  <2>3. QED
    BY Zenon, <2>1, <2>2, NothingServed DEF ServerInv
<1>5. QED
  BY Zenon, <1>3, <1>4

LEMMA RoutingStep ==
  ASSUME PlaneInv, ServerInv, [(ControlPlane \/ XdsServer) /\ Mishaps' <= MaxMishaps]_allVars
  PROVE  PlaneInv' /\ ServerInv'
<1> SUFFICES ServerStep /\ PlaneInv' /\ Keeps
  BY Zenon, ServerStepKeeps
<1>1. ASSUME UNCHANGED <<routes, xdsVars>> PROVE ServerStep
  BY Zenon, <1>1 DEF xdsVars, ServerInv, ServerStep
<1>2. ASSUME NEW h \in Handlers, Answered(h) PROVE ServerStep /\ PlaneInv' /\ Keeps
  BY Zenon, <1>1, <1>2, PlaneAnswered DEF Answered
<1>3. ASSUME NEW h \in Handlers, NEW r \in Requests, Send(h, r)
      PROVE  ServerStep /\ PlaneInv' /\ Keeps
  BY Zenon, <1>3, SendStep, PlaneStays DEF Send
<1>4. ASSUME ControlPlane,
             ~ \E h \in Handlers : Answered(h) \/ \E r \in Requests : Send(h, r)
      PROVE  ServerStep /\ PlaneInv' /\ Keeps
  BY Zenon, <1>1, <1>4, PlainStep, PlaneNext
<1>5. CASE XdsServer
  BY Zenon, <1>5, ServerSteps, PlaneStays
<1>6. CASE UNCHANGED allVars
  <2>1. UNCHANGED vars /\ UNCHANGED <<routes, xdsVars>>
    BY Zenon, <1>6 DEF allVars, vars, workerVars
  <2>2. QED
    BY Zenon, <1>1, <2>1, PlaneNext
<1>7. QED
  BY Zenon, <1>2, <1>3, <1>4, <1>5, <1>6

\* Whatever Envoy is served for a service is the port of a container of a job
\* of that service, until a DELETE names such a job: with any number of jobs,
\* services, workers and requests in progress, of crashes of workers and
\* restarts of the server, of errors and of lists that mix records of
\* different moments (worker.go 236-247, reconciler.go 41-99, registry.go
\* 116-160).
THEOREM ServedEndpointsAreLive == RoutingSpec => []ServedIsLive
<1>1. RoutingInit => PlaneInv /\ ServerInv
  BY Zenon, RoutingStart
<1>2. /\ PlaneInv /\ ServerInv
      /\ [(ControlPlane \/ XdsServer) /\ Mishaps' <= MaxMishaps]_allVars
      => (PlaneInv /\ ServerInv)'
  BY Zenon, RoutingStep
<1>3. ServerInv => ServedIsLive
  <2> SUFFICES ASSUME ServerInv, NEW s \in Services, NEW p \in cache.clusters[s]
               PROVE  /\ p \in Ports
                      /\ \E j \in Jobs :
                           ServiceOf[j] = s /\ (svc[j] = p \/ \E d \in Deletes : j \in target[d])
    BY Zenon DEF ServedIsLive
  <2>1. Leads(s, p)
    BY Zenon DEF ServerInv, AllLead
  <2>2. QED
    BY Zenon, <2>1 DEF Leads, Untouched
<1>4. QED
  BY <1>1, <1>2, <1>3, PTL DEF RoutingSpec

=============================================================================
