------------------------- MODULE InfraforgeRecords --------------------------
(***************************************************************************)
(* What the records say is true of the containers and of the dead-letter   *)
(* stream, proved without the conditions of Reliable: for any jobs,        *)
(* workers, requests, faults and bounds, and with handlers that outlast    *)
(* ReclaimMinIdle and work on the same message at once.                    *)
(***************************************************************************)
EXTENDS InfraforgeMoves

-----------------------------------------------------------------------------
(* A job that reads ready is reachable until somebody deletes it *)

\* Record rec describes the containers of j.
Reached(j, rec) == pg[j] /\ svc[j] = rec.http /\ svc[j] # NoPort

\* Of an untouched job only provision messages are queued, and its record is
\* true.
RecordReaches(j) ==
  /\ \A i \in 1 .. Len(stream) : stream[i].job = j => stream[i].action = "provision"
  /\ store[j].status = "ready" => Reached(j, store[j])

\* So is the copy of a handler, which never removes a container.
CopyReaches(h) ==
  /\ pc[h] \notin {"unregister", "teardown", "deleted", "stuck"}
  /\ pc[h] = "http" => pg[JobOf(h)]
  /\ loc[h].status = "ready" => Reached(JobOf(h), loc[h])

ReachInv ==
  /\ \A j \in Jobs : Untouched(j) => RecordReaches(j)
  /\ \A h \in Busy : Untouched(JobOf(h)) /\ pc[h] # "get" => CopyReaches(h)

\* A true record stays true as long as no container goes.
LEMMA ReachedStays ==
  ASSUME NEW j, NEW rec, Reached(j, rec), Grows(j)
  PROVE  pg'[j] /\ svc'[j] = rec.http /\ svc'[j] # NoPort
  BY Zenon DEF Reached, Grows

\* A move of a handler removes no container of an untouched job.
LEMMA GrowsMove ==
  ASSUME TypeInv, ReachInv, NEW h \in Busy, Moves(h), NEW j \in Jobs, Untouched(j)
  PROVE  Grows(j)
<1> DEFINE job == JobOf(h)
<1>1. job \in Jobs /\ OwnJob(h)
  BY Zenon, InHandType DEF Moves
<1>2. pc[h] # "get" /\ Untouched(job) => CopyReaches(h)
  BY Zenon DEF ReachInv
<1> HIDE DEF job
<1>3. CASE j # job
  BY Zenon, <1>1, <1>3 DEF OwnJob, Grows, job
<1>4. CASE j = job
  <2>1. ~TearsDown(h)
    BY Zenon, <1>2, <1>4 DEF TearsDown, CopyReaches
  <2>2. CASE UNCHANGED <<pg, svc>>
    BY Zenon, <2>2 DEF Grows
  <2>3. CASE HasPostgres(h)
    BY Zenon, <1>4, <2>3 DEF HasPostgres, Grows, job
  <2>4. QED
    BY Zenon, <1>4, <2>1, <2>2, <2>3 DEF Moves, Returns, Decides, Advances, HasHTTP, ProvisionErrs, job
<1>5. QED
  BY Zenon, <1>3, <1>4

\* The move of a handler keeps the records of untouched jobs true.
LEMMA ReachMove ==
  ASSUME TypeInv, ReachInv, NEW h \in Busy, Moves(h), UNCHANGED brokerVars
  PROVE  ReachInv'
<1> DEFINE job == JobOf(h)
<1>1. /\ h \in Handlers /\ job \in Jobs /\ loc[h] \in JobRecord
      /\ cur[h] \in 1 .. Len(stream) /\ stream[cur[h]] \in Message
      /\ store[job] \in JobRecord
  BY Zenon, InHandType DEF TypeInv
<1>2. OwnJob(h) /\ UNCHANGED <<stream, target>>
  BY Zenon DEF Moves, OwnJob, brokerVars
<1>3. \A j \in Jobs : Untouched(j)' <=> Untouched(j)
  BY Zenon, <1>2 DEF Untouched
<1>4. pc[h] # "get" /\ Untouched(job) => CopyReaches(h)
  BY Zenon DEF ReachInv
<1> HIDE DEF job
<1>5. \A j \in Jobs : Untouched(j) => Grows(j)
  BY Zenon, GrowsMove
<1>6. ASSUME NEW j \in Jobs, Untouched(j)' PROVE RecordReaches(j)'
  <2>1. Untouched(j) /\ Grows(j) /\ RecordReaches(j)
    BY Zenon, <1>3, <1>5, <1>6 DEF ReachInv
  <2>2. ASSUME store'[j].status = "ready" PROVE Reached(j, store[j])'
    <3>1. CASE store'[j] = store[j]
      BY Zenon, <2>1, <2>2, <3>1, ReachedStays DEF RecordReaches, Reached
    <3>2. CASE j = job /\ pc[h] \in Writing /\ store'[j] = loc[h]
      <4>1. Reached(j, loc[h])
        BY Zenon, <1>4, <2>1, <2>2, <3>2 DEF Writing, CopyReaches, job
      <4>2. QED
        BY Zenon, <2>1, <3>2, <4>1, ReachedStays DEF Reached
    <3>3. QED
      BY Zenon, <1>2, <3>1, <3>2 DEF OwnJob, job
  <2>3. QED
    BY Zenon, <1>2, <2>1, <2>2 DEF RecordReaches
<1>7. ASSUME NEW g \in Busy', g # h, Untouched(JobOf(g))', pc'[g] # "get"
      PROVE  CopyReaches(g)'
  <2>1. g \in Busy /\ pc'[g] = pc[g] /\ loc'[g] = loc[g] /\ cur'[g] = cur[g]
    BY Zenon, <1>2, <1>7 DEF OwnJob, Others, Busy
  <2>2. JobOf(g) \in Jobs /\ JobOf(g)' = JobOf(g)
    BY Zenon, <1>2, <2>1, InHandType DEF JobOf
  <2>3. CopyReaches(g) /\ Grows(JobOf(g))
    BY Zenon, <1>3, <1>5, <1>7, <2>1, <2>2 DEF ReachInv
  <2>4. QED
    BY Zenon, <2>1, <2>2, <2>3, ReachedStays DEF CopyReaches, Reached, Grows
<1>8. ASSUME h \in Busy', Untouched(JobOf(h))', pc'[h] # "get"
      PROVE  CopyReaches(h)'
  <2>1. ~Returns(h) /\ cur'[h] = cur[h]
    BY Zenon, <1>8 DEF Moves, Returns, Busy
  <2>2. JobOf(h)' = job /\ Untouched(job) /\ Grows(job) /\ RecordReaches(job)
    BY Zenon, <1>1, <1>2, <1>3, <1>5, <1>8, <2>1 DEF JobOf, job, ReachInv
  <2>3. stream[cur[h]].action = "provision"
    BY Zenon, <1>1, <2>2 DEF RecordReaches, job, JobOf
  <2>4. CASE Decides(h)
    <3> DEFINE d == Decision("provision", store[job])
    <3>1. /\ d[1] \in {"ack", "begin", "failed"}
          /\ d[1] = "ack" => d[2] = store[job]
          /\ d[1] \in {"begin", "failed"} => d[2].status \in {"provisioning", "failed"}
      BY <1>1, DecisionFacts
    <3>2. \/ pc'[h] = d[1] /\ loc'[h] = d[2]
          \/ pc'[h] = "ack" /\ loc'[h] = NotFound
      BY Zenon, <2>3, <2>4 DEF Decides, job
    <3> HIDE DEF d
    <3>3. loc'[h].status = "ready" => loc'[h] = store[job]
      BY <3>1, <3>2 DEF NotFound
    <3>4. loc'[h].status = "ready" => pg'[job] /\ svc'[job] = loc'[h].http /\ svc'[job] # NoPort
      BY Zenon, <2>2, <3>3, ReachedStays DEF RecordReaches
    <3>5. QED
      BY Zenon, <2>2, <3>1, <3>2, <3>4 DEF CopyReaches, Reached
  <2>5. ASSUME loc'[h] = loc[h], pc[h] # "get",
               pc'[h] \notin {"unregister", "teardown", "deleted", "stuck"},
               pc'[h] = "http" => pg'[job]
        PROVE  CopyReaches(h)'
    <3>1. CopyReaches(h)
      BY Zenon, <1>4, <2>2, <2>5
    <3>2. loc[h].status = "ready" => pg'[job] /\ svc'[job] = loc[h].http /\ svc'[job] # NoPort
      BY Zenon, <2>2, <3>1, ReachedStays DEF CopyReaches, job
    <3>3. QED
      BY Zenon, <2>2, <2>5, <3>2 DEF CopyReaches, Reached
  <2>6. CASE Advances(h)
    BY Zenon, <1>4, <2>2, <2>5, <2>6 DEF Advances, Straight, CopyReaches
  <2>7. CASE HasPostgres(h)
    BY Zenon, <2>5, <2>7 DEF HasPostgres, job
  <2>8. CASE HasHTTP(h)
    <3>1. pg[job]
      BY Zenon, <1>4, <2>2, <2>8 DEF HasHTTP, CopyReaches, job
    <3>2. QED
      BY Zenon, <2>2, <2>8, <3>1 DEF HasHTTP, Marks, CopyReaches, Reached, job
  <2>9. CASE ProvisionErrs(h)
    BY Zenon, <2>5, <2>9 DEF ProvisionErrs, Marks, CopyReaches
  <2>10. ~TearsDown(h)
    BY Zenon, <1>4, <2>2 DEF TearsDown, CopyReaches
  <2>11. QED
    BY Zenon, <2>1, <2>4, <2>6, <2>7, <2>8, <2>9, <2>10 DEF Moves
<1>9. QED
  BY Zenon, <1>6, <1>7, <1>8 DEF ReachInv

\* Every step does.
LEMMA ReachStep == TypeInv /\ TypeInv' /\ ReachInv /\ Steps => ReachInv'
<1> SUFFICES ASSUME TypeInv, TypeInv', ReachInv, Steps PROVE ReachInv'
  OBVIOUS
<1>1. CASE Requesting
  <2>1. UNCHANGED <<pg, svc, pc, cur, loc>> /\ Busy' = Busy
    BY Zenon, <1>1 DEF Requesting, Busy
  <2>2. \A j \in Jobs : Untouched(j)' => Untouched(j)
    BY Zenon, <1>1 DEF Requesting, Untouched
  <2>3. ASSUME NEW j \in Jobs, Untouched(j)' PROVE RecordReaches(j)'
    <3>1. RecordReaches(j) /\ \A d \in Deletes : j \notin target[d]
      BY Zenon, <2>2, <2>3 DEF ReachInv, Untouched
    <3>2. store'[j].status = "ready" => store'[j] = store[j]
      BY <1>1, <3>1 DEF Requesting, RequestWrites, NewJob
    <3>3. \A i \in 1 .. Len(stream') : stream'[i].job = j => stream'[i].action = "provision"
      <4> SUFFICES ASSUME NEW i \in 1 .. Len(stream'), stream'[i].job = j
                   PROVE  stream'[i].action = "provision"
        OBVIOUS
      <4>1. CASE i \in 1 .. Len(stream)
        BY Zenon, <1>1, <3>1, <4>1 DEF Requesting, Grown, RecordReaches
      <4>2. CASE Requested(stream'[i])
        BY <3>1, <4>2 DEF Requested, Provision
      <4>3. QED
        BY Zenon, <1>1, <4>1, <4>2 DEF Requesting
    <3>4. QED
      BY Zenon, <2>1, <3>1, <3>2, <3>3 DEF RecordReaches, Reached
  <2>4. ASSUME NEW g \in Busy', Untouched(JobOf(g))', pc'[g] # "get" PROVE CopyReaches(g)'
    <3>1. g \in Busy /\ JobOf(g) \in Jobs /\ JobOf(g)' = JobOf(g)
      BY Zenon, <1>1, <2>1, InHandType DEF JobOf, Requesting, Grown
    <3>2. CopyReaches(g)
      BY Zenon, <2>1, <2>2, <2>4, <3>1 DEF ReachInv
    <3>3. QED
      BY Zenon, <2>1, <3>1, <3>2 DEF CopyReaches, Reached
  <2>5. QED
    BY Zenon, <2>3, <2>4 DEF ReachInv
<1>2. CASE Loops /\ UNCHANGED brokerVars
  <2>1. UNCHANGED <<store, stream, pg, svc, target>>
    BY Zenon, <1>2 DEF Loops, brokerVars
  <2>2. ASSUME NEW g \in Busy', Untouched(JobOf(g))', pc'[g] # "get" PROVE CopyReaches(g)'
    <3>1. Same(g)
      BY Zenon, <1>2, <2>2 DEF Loops
    <3>2. CopyReaches(g)
      BY Zenon, <2>1, <2>2, <3>1 DEF Same, ReachInv, Untouched, JobOf
    <3>3. QED
      BY Zenon, <2>1, <3>1, <3>2 DEF Same, CopyReaches, Reached, JobOf
  <2>3. QED
    BY Zenon, <2>1, <2>2 DEF ReachInv, RecordReaches, Reached, Untouched
<1>3. CASE UNCHANGED brokerVars /\ \E h \in Busy : Moves(h)
  BY Zenon, <1>3, ReachMove
<1>4. QED
  BY Zenon, <1>1, <1>2, <1>3 DEF Steps

\* No step does, and once touched a job stays touched.
LEMMA GrowsUntilDeleted ==
  ASSUME TypeInv, ReachInv, Steps, NEW j \in Jobs, Untouched(j)'
  PROVE  Untouched(j) /\ Grows(j)
<1>1. CASE Requesting
  BY Zenon, <1>1 DEF Requesting, Untouched, Grows
<1>2. CASE Loops /\ UNCHANGED brokerVars
  BY Zenon, <1>2 DEF Loops, brokerVars, Untouched, Grows
<1>3. CASE UNCHANGED brokerVars /\ \E h \in Busy : Moves(h)
  <2>1. Untouched(j)
    BY Zenon, <1>3 DEF brokerVars, Untouched
  <2>2. QED
    BY Zenon, <1>3, <2>1, GrowsMove
<1>4. QED
  BY Zenon, <1>1, <1>2, <1>3 DEF Steps

\* The invariant of the records holds at the start.
LEMMA RecordsInit == Init => ReachInv
<1> SUFFICES ASSUME Init PROVE ReachInv
  OBVIOUS
<1>0. Len(stream) = 0
  BY Zenon DEF Init, QueueInit
<1>1. Busy = {}
  BY Zenon DEF Init, WorkerInit, Busy
<1>2. \A j \in Jobs : store[j].status = "absent"
  BY Zenon DEF Init, StoreInit, NotFound
<1>3. QED
  BY <1>0, <1>1, <1>2 DEF ReachInv, RecordReaches

\* A job that reads ready has both containers, and its record the port of its
\* HTTP container, as long as no DELETE has named it.
ReachableUntilDeleted ==
  \A j \in Jobs :
    Untouched(j) /\ store[j].status = "ready" => Reached(j, store[j])

\* That holds whatever faults and crashes there are, however many workers
\* handle the job at once and however stale the copies they write: whoever
\* creates the containers, everybody else reuses them (worker.go 205-240,
\* docker.go 110-180).
THEOREM ReadyUntilDeleted == Spec => []ReachableUntilDeleted
<1>1. ReachInv => ReachableUntilDeleted
  BY Zenon DEF ReachInv, RecordReaches, ReachableUntilDeleted
<1>2. QED
  BY <1>1, RecordsInit, NextSteps, ReachStep, RequestInvariant, TypeInvariant, PTL DEF Spec

\* Without DELETEs every job that reads ready is reachable (worker.go
\* 205-240).
THEOREM ReadyJobsAreReachable ==
  ASSUME Deletes = {}
  PROVE  Spec => []ReadyIsReachable
<1>1. ReachableUntilDeleted => ReadyIsReachable
  BY Zenon DEF ReachableUntilDeleted, ReadyIsReachable, Untouched, Reached
<1>2. QED
  BY <1>1, ReadyUntilDeleted, PTL

-----------------------------------------------------------------------------
(* A job that reads deleted owns nothing *)

\* The calls of a provisioning on its way to creating containers.
Creating == {"begin", "postgres", "http"}

\* No handler is creating the containers of a job while another one, having
\* removed them, is about to write that the job is deleted.
DeletesApart ==
  \A g, h \in Busy : JobOf(g) = JobOf(h) /\ pc[g] \in Creating => pc[h] # "deleted"

\* What a handler may be doing to a deleted job.
CopyGone(h) ==
  /\ pc[h] = "deleted" => Gone(JobOf(h))
  /\ pc[h] \in Creating => store[JobOf(h)].status # "deleted"
  /\ loc[h].status = "deleted" => pc[h] \in {"get", "deleted", "ack"}

GoneInv ==
  /\ \A j \in Jobs : store[j].status = "deleted" => Gone(j)
  /\ \A h \in Busy : CopyGone(h)

\* The move of a handler that keeps apart from the others keeps that.
LEMMA GoneMove ==
  ASSUME TypeInv, DeletesApart, GoneInv, NEW h \in Busy, Moves(h)
  PROVE  GoneInv'
<1> DEFINE job == JobOf(h)
<1>1. /\ h \in Handlers /\ job \in Jobs /\ loc[h] \in JobRecord
      /\ stream[cur[h]] \in Message /\ store[job] \in JobRecord
  BY Zenon, InHandType DEF TypeInv
<1>2. OwnJob(h) /\ UNCHANGED stream /\ CopyGone(h)
  BY Zenon DEF Moves, OwnJob, GoneInv
<1> HIDE DEF job
\* Nothing is created but by a handler that is creating.
<1>3. pc[h] \notin Creating => Shrinks(job)
  <2>1. CASE UNCHANGED <<pg, svc>>
    BY Zenon, <2>1 DEF Shrinks
  <2>2. CASE TearsDown(h) /\ cur'[h] = cur[h]
    BY Zenon, <1>2, <2>2 DEF TearsDown, Shrinks, Gone, JobOf, job
  <2>3. QED
    BY Zenon, <2>1, <2>2 DEF Moves, Returns, Decides, Advances, HasPostgres, HasHTTP,
       ProvisionErrs, Creating
<1>4. ASSUME NEW j \in Jobs, Gone(j), j = job => pc[h] \notin Creating PROVE Gone(j)'
  BY Zenon, <1>2, <1>3, <1>4 DEF Gone, OwnJob, Shrinks, job
\* The record is overwritten with deleted by nobody but h at "deleted".
<1>5. ASSUME NEW j \in Jobs, store'[j].status = "deleted", store[j].status # "deleted"
      PROVE  j = job /\ pc[h] = "deleted"
  BY Zenon, <1>2, <1>5 DEF OwnJob, CopyGone, Writing, job
<1>6. ASSUME NEW j \in Jobs, store'[j].status = "deleted" PROVE Gone(j)'
  <2>1. CASE store[j].status = "deleted"
    BY Zenon, <1>2, <1>4, <2>1 DEF GoneInv, CopyGone, job
  <2>2. CASE store[j].status # "deleted"
    BY Zenon, <1>2, <1>4, <1>5, <1>6, <2>2 DEF CopyGone, Creating, job
  <2>3. QED
    BY Zenon, <2>1, <2>2
<1>7. ASSUME NEW g \in Busy', g # h PROVE CopyGone(g)'
  <2>1. g \in Busy /\ pc'[g] = pc[g] /\ loc'[g] = loc[g] /\ cur'[g] = cur[g]
    BY Zenon, <1>2, <1>7 DEF OwnJob, Others, Busy
  <2>2. JobOf(g) \in Jobs /\ JobOf(g)' = JobOf(g) /\ CopyGone(g)
    BY Zenon, <1>2, <2>1, InHandType DEF JobOf, GoneInv
  <2>3. pc[g] = "deleted" => Gone(JobOf(g))'
    BY Zenon, <1>4, <2>1, <2>2 DEF DeletesApart, CopyGone, job
  <2>4. pc[g] \in Creating => store'[JobOf(g)].status # "deleted"
    BY Zenon, <1>5, <2>1, <2>2 DEF DeletesApart, CopyGone, job
  <2>5. QED
    BY Zenon, <2>1, <2>2, <2>3, <2>4 DEF CopyGone
<1>8. ASSUME h \in Busy' PROVE CopyGone(h)'
  <2>1. CASE Returns(h)
    BY Zenon, <1>8, <2>1 DEF Returns, Busy, CopyGone, Creating
  <2>2. ASSUME cur'[h] = cur[h] PROVE JobOf(h)' = job
    BY Zenon, <1>2, <2>2 DEF JobOf, job
  <2>3. CASE Decides(h) /\ cur'[h] = cur[h]
    <3>1. stream[cur[h]].action \in {"provision", "deprovision"}
      BY Zenon, <1>1 DEF Message
    <3> DEFINE d == Decision(stream[cur[h]].action, store[job])
    <3>2. /\ d[1] \in {"ack", "begin", "failed", "unregister", "teardown"}
          /\ d[1] \in {"unregister", "teardown"} => d[2].status # "deleted"
          /\ d[1] \in {"begin", "failed"} =>
               store[job].status \in Triable /\ d[2].status \in {"provisioning", "failed"}
      BY <1>1, <3>1, DecisionFacts
    <3>3. \/ pc'[h] = d[1] /\ loc'[h] = d[2]
          \/ pc'[h] = "ack" /\ loc'[h] = NotFound
      BY Zenon, <2>3 DEF Decides, job
    <3> HIDE DEF d
    <3>4. store'[job] = store[job]
      BY Zenon, <1>2, <2>3 DEF OwnJob, Decides, Writing, job
    <3>5. QED
      BY Zenon, <2>2, <2>3, <3>2, <3>3, <3>4 DEF CopyGone, Creating, Triable, NotFound
  <2>4. CASE Advances(h) /\ cur'[h] = cur[h]
    <3>1. pc[h] = "begin" => store'[job].status # "deleted"
      BY Zenon, <1>2 DEF OwnJob, CopyGone, Creating, job
    <3>2. QED
      BY Zenon, <1>2, <2>2, <2>4, <3>1 DEF Advances, Straight, CopyGone, Creating
  <2>5. CASE (HasPostgres(h) \/ HasHTTP(h) \/ ProvisionErrs(h)) /\ cur'[h] = cur[h]
    <3>1. pc[h] \in {"postgres", "http"} /\ loc[h].status # "deleted"
      BY Zenon, <1>2, <2>5 DEF HasPostgres, HasHTTP, ProvisionErrs, CopyGone
    <3>2. store'[job].status # "deleted"
      BY Zenon, <1>1, <1>2, <1>5, <3>1 DEF CopyGone, Creating, job
    <3>3. QED
      BY Zenon, <2>2, <2>5, <3>1, <3>2 DEF HasPostgres, HasHTTP, ProvisionErrs, Marks, CopyGone
  <2>6. CASE TearsDown(h) /\ cur'[h] = cur[h]
    BY Zenon, <1>2, <2>6 DEF TearsDown, CopyGone, Creating
  <2>7. QED
    BY Zenon, <2>1, <2>3, <2>4, <2>5, <2>6 DEF Moves
<1>9. QED
  BY Zenon, <1>6, <1>7, <1>8 DEF GoneInv

\* Every step does.
LEMMA GoneStep ==
  TypeInv /\ RequestInv /\ DeletesApart /\ GoneInv /\ Steps => GoneInv'
<1> SUFFICES ASSUME TypeInv, RequestInv, DeletesApart, GoneInv, Steps PROVE GoneInv'
  OBVIOUS
<1>1. CASE Requesting
  <2>1. UNCHANGED <<pg, svc, pc, cur, loc>> /\ Busy' = Busy
    BY Zenon, <1>1 DEF Requesting, Busy
  <2>2. \A j \in Jobs : store'[j].status = "deleted" => store'[j] = store[j]
    BY <1>1 DEF Requesting, RequestWrites, RequestInv, NewJob
  <2>3. ASSUME NEW g \in Busy' PROVE CopyGone(g)'
    <3>1. JobOf(g) \in Jobs /\ JobOf(g)' = JobOf(g) /\ CopyGone(g)
      BY Zenon, <1>1, <2>1, InHandType DEF JobOf, Requesting, Grown, GoneInv
    <3>2. QED
      BY Zenon, <2>1, <2>2, <3>1 DEF CopyGone, Gone
  <2>4. QED
    BY Zenon, <2>1, <2>2, <2>3 DEF GoneInv, Gone
<1>2. CASE Loops
  <2>1. UNCHANGED <<store, stream, pg, svc>>
    BY Zenon, <1>2 DEF Loops
  <2>2. ASSUME NEW g \in Busy' PROVE CopyGone(g)'
    <3>1. CASE Same(g)
      BY Zenon, <2>1, <3>1 DEF Same, GoneInv, CopyGone, Gone, JobOf
    <3>2. CASE pc'[g] = "get"
      BY Zenon, <3>2 DEF CopyGone, Creating
    <3>3. QED
      BY Zenon, <1>2, <3>1, <3>2 DEF Loops
  <2>3. QED
    BY Zenon, <2>1, <2>2 DEF GoneInv, Gone
<1>3. ASSUME NEW h \in Busy, Moves(h) PROVE GoneInv'
  BY Zenon, <1>3, GoneMove
<1>4. QED
  BY Zenon, <1>1, <1>2, <1>3 DEF Steps

\* If no handler creates containers of a job while another is about to write
\* that it is deleted, a deleted job owns no container, whatever faults,
\* crashes, failed teardowns and stale writes there are (worker.go 279-298).
THEOREM DeletedStaysGone == Spec /\ []DeletesApart => []DeletedIsGone
<1>1. Init => GoneInv
  <2> SUFFICES ASSUME Init PROVE GoneInv
    OBVIOUS
  <2>1. Busy = {}
    BY Zenon DEF Init, WorkerInit, Busy
  <2>2. \A j \in Jobs : store[j].status = "absent"
    BY Zenon DEF Init, StoreInit, NotFound
  <2>3. QED
    BY Zenon, <2>1, <2>2 DEF GoneInv
<1>2. GoneInv => DeletedIsGone
  BY Zenon DEF GoneInv, DeletedIsGone, Gone
<1>3. QED
  BY <1>1, <1>2, NextSteps, GoneStep, RequestInvariant, TypeInvariant, PTL DEF Spec

-----------------------------------------------------------------------------
(* An abandoned job is in the dead-letter stream *)

\* The provision message of j is not in the stream yet.
Unqueued(j) == post[j] \in {"new", "enqueue"}

Recorded(j) == \E k \in DOMAIN dead : dead[k].job = j

\* A handler has given j up and is on its way to recording it.
Recording(j) ==
  \E h \in Busy : JobOf(h) = j /\ pc[h] \in {"failed", "failedAck", "deadletter"}

\* j is recorded or about to be, unless a process has died or the stream has
\* been as long as its cap.
Traced(j) == crashes # 0 \/ Len(dead) >= DeadMaxLen \/ Recorded(j) \/ Recording(j)

\* What is known of a job somebody has written failed for.  A job answered
\* otherwise than 202 may be failed because the broker compensated.
FailedTraced(j) == ~Unqueued(j) /\ (post[j] = "202" => Traced(j))

CopyTraced(h) ==
  /\ pc[h] \in Creating => stream[cur[h]].action = "provision"
  /\ pc[h] # "get" /\ loc[h].status = "failed" => FailedTraced(JobOf(h))

TraceInv ==
  /\ Paired
  /\ \A i \in 1 .. Len(stream) :
       stream[i].action = "provision" => post[stream[i].job] \notin {"new", "enqueue"}
  /\ \A j \in Jobs : store[j].status = "failed" => FailedTraced(j)
  /\ \A h \in Busy : CopyTraced(h)

\* A dead-letter write adds its entry at the end and keeps the others, or
\* leaves a stream no shorter than the cap (queue.go 118-131).
LEMMA DeadLetterKeeps ==
  ASSUME dead \in Seq(DeadEntry), NEW e \in DeadEntry, DeadLetter(e)
  PROVE  \/ Len(dead') >= DeadMaxLen
         \/ /\ Len(dead) < DeadMaxLen
            /\ \A k \in DOMAIN dead : k \in DOMAIN dead' /\ dead'[k] = dead[k]
            /\ \E k \in DOMAIN dead' : dead'[k] = e
<1> DEFINE grown == Append(dead, e)
<1>1. /\ grown \in Seq(DeadEntry) /\ Len(grown) = Len(dead) + 1 /\ Len(dead) \in Nat
      /\ \A k \in 1 .. Len(dead) : grown[k] = dead[k]
      /\ grown[Len(dead) + 1] = e /\ DOMAIN dead = 1 .. Len(dead)
      /\ DOMAIN grown = 1 .. Len(grown)
  OBVIOUS
<1>2. PICK cut \in 0 .. Len(grown) :
        /\ cut = 0 \/ Len(grown) - cut >= DeadMaxLen
        /\ dead' = SubSeq(grown, cut + 1, Len(grown))
  BY Zenon DEF DeadLetter
<1>3. DeadMaxLen \in Nat
  BY Zenon, QueueAssumption
<1> HIDE DEF grown
<1>4. CASE cut = 0
  <2>1. dead' = grown
    BY <1>1, <1>2, <1>4
  <2>2. QED
    BY <1>1, <1>3, <2>1
<1>5. CASE Len(grown) - cut >= DeadMaxLen
  <2>1. Len(dead') = Len(grown) - cut
    BY <1>1, <1>2
  <2>2. QED
    BY Zenon, <1>5, <2>1
<1>6. QED
  BY Zenon, <1>2, <1>4, <1>5

\* No move of a handler takes its process down.
LEMMA MovesStayUp ==
  ASSUME TypeInv, NEW h \in Busy, Moves(h)
  PROVE  pc'[h] # "down"
<1>1. /\ stream[cur[h]].action \in {"provision", "deprovision"}
      /\ store[JobOf(h)] \in JobRecord
  BY Zenon, InHandType DEF Message, TypeInv
<1>2. CASE Decides(h)
  <2> DEFINE d == Decision(stream[cur[h]].action, store[JobOf(h)])
  <2>1. d[1] # "down"
    BY Zenon, <1>1, DecisionFacts
  <2>2. pc'[h] = d[1] \/ pc'[h] = "ack"
    BY Zenon, <1>2 DEF Decides
  <2>3. QED
    BY Zenon, <2>1, <2>2
<1>3. QED
  BY Zenon, <1>2 DEF Moves, Returns, Advances, Straight, HasPostgres, HasHTTP, ProvisionErrs,
     TearsDown

\* The trace of a job stays: the handler that gave it up does not stop before
\* it has recorded it (worker.go 186-197, 223-232, 316-326).
LEMMA TraceStays ==
  ASSUME TypeInv, Paired, Steps, "deadletter" \notin Faulty, NEW j \in Jobs
  PROVE  Traced(j) => Traced(j)'
<1> SUFFICES ASSUME Traced(j) PROVE Traced(j)'
  OBVIOUS
<1>1. crashes' = 0 => crashes = 0
  BY Zenon DEF Steps, Requesting, Loops, Moves, OwnJob
<1>2. UNCHANGED dead \/ \E e \in DeadEntry : DeadLetter(e)
  BY Zenon DEF Steps, Requesting, Loops, Moves, OwnJob, Returns, Decides, Advances, Straight,
     HasPostgres, HasHTTP, ProvisionErrs, TearsDown
<1>3. /\ Len(dead) >= DeadMaxLen => Len(dead') >= DeadMaxLen
      /\ Recorded(j) => Recorded(j)' \/ Len(dead') >= DeadMaxLen
  <2>1. dead \in Seq(DeadEntry) /\ DeadMaxLen \in Nat /\ Len(dead) \in Nat
    BY QueueAssumption DEF TypeInv, QueueTypeOK
  <2>2. CASE UNCHANGED dead
    BY Zenon, <2>2 DEF Recorded
  <2>3. ASSUME NEW e \in DeadEntry, DeadLetter(e)
        PROVE  /\ Len(dead) >= DeadMaxLen => Len(dead') >= DeadMaxLen
               /\ Recorded(j) => Recorded(j)' \/ Len(dead') >= DeadMaxLen
    <3>1. \/ Len(dead') >= DeadMaxLen
          \/ /\ Len(dead) < DeadMaxLen
             /\ \A k \in DOMAIN dead : k \in DOMAIN dead' /\ dead'[k] = dead[k]
      BY Zenon, <2>1, <2>3, DeadLetterKeeps
    <3>2. QED
      BY <2>1, <3>1 DEF Recorded
  <2>4. QED
    BY Zenon, <1>2, <2>2, <2>3
<1>4. ASSUME NEW h \in Busy, JobOf(h) = j, pc[h] \in {"failed", "failedAck", "deadletter"},
             h \in Busy', cur'[h] = cur[h], stream'[cur[h]] = stream[cur[h]],
             pc'[h] \in {"failed", "failedAck", "deadletter"}
      PROVE  Recording(j)'
  BY Zenon, <1>4 DEF Recording, JobOf
<1>5. ASSUME NEW h \in Busy, JobOf(h) = j, pc[h] \in {"failed", "failedAck", "deadletter"}
      PROVE  Traced(j)'
  <2>0. h \in Handlers /\ cur[h] \in 1 .. Len(stream) /\ JobOf(h) \in Jobs
    BY Zenon, InHandType DEF Busy
  <2>1. CASE Requesting
    <3>1. h \in Busy' /\ cur'[h] = cur[h] /\ pc'[h] = pc[h]
      BY Zenon, <2>1 DEF Requesting, Busy
    <3>2. stream'[cur[h]] = stream[cur[h]]
      BY Zenon, <2>0, <2>1 DEF Requesting, Grown
    <3>3. QED
      BY Zenon, <1>4, <1>5, <3>1, <3>2 DEF Traced
  <2>2. CASE Loops
    <3>1. CASE crashes' # 0
      BY Zenon, <3>1 DEF Traced
    <3>2. CASE crashes' = 0
      <4>1. h \in Busy' /\ cur'[h] = cur[h] /\ pc'[h] = pc[h] /\ stream' = stream
        BY Zenon, <2>2, <3>2 DEF Loops, Same
      <4>2. QED
        BY Zenon, <1>4, <1>5, <4>1 DEF Traced
    <3>3. QED
      BY Zenon, <3>1, <3>2
  <2>3. ASSUME NEW g \in Busy, Moves(g), g # h PROVE Traced(j)'
    <3>1. h \in Busy' /\ cur'[h] = cur[h] /\ pc'[h] = pc[h] /\ stream' = stream
      BY Zenon, <2>0, <2>3 DEF Moves, OwnJob, Others, Busy
    <3>2. QED
      BY Zenon, <1>4, <1>5, <3>1 DEF Traced
  <2>4. CASE Moves(h) /\ pc[h] # "deadletter"
    <3>0. OwnJob(h) /\ Advances(h) /\ cur'[h] = cur[h]
      BY Zenon, <1>5, <2>4 DEF Moves, Returns, Decides, HasPostgres, HasHTTP, ProvisionErrs,
         TearsDown
    <3>1. pc'[h] \in {"failedAck", "deadletter"} /\ cur'[h] = cur[h] /\ stream' = stream
      BY Zenon, <1>5, <2>4, <3>0 DEF OwnJob, Advances, Straight
    <3>2. QED
      BY Zenon, <1>4, <1>5, <2>0, <3>1 DEF Traced, Busy
  <2>5. CASE Moves(h) /\ pc[h] = "deadletter"
    <3>0. ~Advances(h)
      BY Zenon, <2>5 DEF Advances, Straight
    <3>01. Returns(h)
      BY Zenon, <2>5, <3>0 DEF Moves, Decides, HasPostgres, HasHTTP, ProvisionErrs, TearsDown
    <3>1. PICK e \in DeadEntry : e.job = j /\ DeadLetter(e)
      BY Zenon, <1>5, <2>5, <3>01 DEF Returns
    <3>2. Len(dead') >= DeadMaxLen \/ \E k \in DOMAIN dead' : dead'[k] = e
      BY Zenon, DeadLetterKeeps, <3>1 DEF TypeInv, QueueTypeOK
    <3>3. QED
      BY Zenon, <3>1, <3>2 DEF Traced, Recorded
  <2>6. QED
    BY Zenon, <2>1, <2>2, <2>3, <2>4, <2>5 DEF Steps
<1>6. QED
  BY Zenon, <1>1, <1>3, <1>5 DEF Traced, Recording

\* So does what is known of a failed job.
LEMMA FailedTraceStays ==
  ASSUME TypeInv, Paired, Steps, "deadletter" \notin Faulty, NEW j \in Jobs, FailedTraced(j)
  PROVE  FailedTraced(j)'
<1>1. Traced(j) => Traced(j)'
  BY Zenon, TraceStays
<1>2. CASE Requesting
  BY Zenon, <1>1, <1>2 DEF Requesting, PostMoves, FailedTraced, Unqueued
<1>3. CASE UNCHANGED brokerVars
  BY Zenon, <1>1, <1>3 DEF brokerVars, FailedTraced, Unqueued
<1>4. QED
  BY Zenon, <1>2, <1>3 DEF Steps

\* The move of a handler keeps the invariant.
LEMMA TraceMove ==
  ASSUME TypeInv, TraceInv, "deadletter" \notin Faulty,
         UNCHANGED brokerVars, NEW h \in Busy, Moves(h)
  PROVE  TraceInv'
<1>0. PICK job \in Jobs : job = JobOf(h)
  BY Zenon, InHandType
<1>1. /\ h \in Handlers /\ job \in Jobs /\ loc[h] \in JobRecord
      /\ cur[h] \in 1 .. Len(stream) /\ stream[cur[h]] \in Message /\ store[job] \in JobRecord
  BY Zenon, InHandType DEF TypeInv, Busy
<1>2. OwnJob(h) /\ UNCHANGED stream /\ CopyTraced(h) /\ Paired
  BY Zenon DEF Moves, OwnJob, TraceInv
<1>3. Steps
  BY Zenon DEF Steps
<1>4. ASSUME NEW j \in Jobs, FailedTraced(j) PROVE FailedTraced(j)'
  BY Zenon, <1>2, <1>3, <1>4, FailedTraceStays
<1>5. Paired'
  <2>1. \A g \in Handlers \ {h} : pc'[g] = pc[g]
    BY Zenon, <1>2 DEF OwnJob, Others
  <2>2. pc[h] # "down" /\ pc'[h] # "down"
    BY Zenon, MovesStayUp DEF Busy
  <2>3. \A w \in Workers : <<w, "main">> \in Handlers /\ <<w, "reclaim">> \in Handlers
    BY Zenon DEF Handlers
  <2>4. QED
    BY Zenon, <1>2, <2>1, <2>2, <2>3 DEF Paired
<1>6. ASSUME NEW i \in 1 .. Len(stream'), stream'[i].action = "provision"
      PROVE  post'[stream'[i].job] \notin {"new", "enqueue"}
  BY Zenon, <1>2, <1>6 DEF TraceInv, Unqueued, brokerVars
<1>7. ASSUME NEW j \in Jobs, store'[j].status = "failed" PROVE FailedTraced(j)'
  <2>1. CASE store'[j] = store[j]
    BY Zenon, <1>4, <1>7, <2>1 DEF TraceInv
  <2>2. CASE store'[j] # store[j]
    <3>1. j = job /\ pc[h] \in Writing /\ store'[j] = loc[h]
      BY Zenon, <1>0, <1>2, <2>2 DEF OwnJob
    <3>2. FailedTraced(j)
      BY Zenon, <1>0, <1>2, <1>7, <3>1 DEF CopyTraced, Writing
    <3>3. QED
      BY Zenon, <1>4, <3>2
  <2>3. QED
    BY Zenon, <2>1, <2>2
<1>8. ASSUME NEW g \in Busy', g # h PROVE CopyTraced(g)'
  <2>1. g \in Busy /\ pc'[g] = pc[g] /\ loc'[g] = loc[g] /\ cur'[g] = cur[g]
    BY Zenon, <1>2, <1>8 DEF OwnJob, Others, Busy
  <2>2. JobOf(g) \in Jobs /\ JobOf(g)' = JobOf(g) /\ CopyTraced(g)
    BY Zenon, <1>2, <2>1, InHandType DEF JobOf, TraceInv
  <2>3. QED
    BY Zenon, <1>2, <1>4, <2>1, <2>2 DEF CopyTraced
\* A handler that gives the job up of a provision message is about to record it.
<1>9. ASSUME pc'[h] = "failed", cur'[h] = cur[h], stream[cur[h]].action = "provision"
      PROVE  FailedTraced(job)'
  <2>1. h \in Busy' /\ JobOf(h)' = job
    BY Zenon, <1>0, <1>1, <1>2, <1>9 DEF Busy, JobOf
  <2>2. Traced(job)'
    BY Zenon, <1>9, <2>1 DEF Traced, Recording
  <2>3. ~Unqueued(job)'
    BY Zenon, <1>0, <1>1, <1>9 DEF TraceInv, Unqueued, brokerVars, JobOf
  <2>4. QED
    BY Zenon, <2>2, <2>3 DEF FailedTraced
<1>10. ASSUME h \in Busy' PROVE CopyTraced(h)'
  <2>1. CASE Returns(h)
    BY Zenon, <1>10, <2>1 DEF Returns, Busy, CopyTraced, Creating
  <2>2. ASSUME cur'[h] = cur[h] PROVE JobOf(h)' = job /\ stream'[cur'[h]] = stream[cur[h]]
    BY Zenon, <1>0, <1>2, <2>2 DEF JobOf
  <2>3. CASE Decides(h) /\ cur'[h] = cur[h]
    <3>1. stream[cur[h]].action \in {"provision", "deprovision"}
      BY Zenon, <1>1 DEF Message
    <3> DEFINE d == Decision(stream[cur[h]].action, store[job])
    <3>2. /\ d[1] \in {"ack", "begin", "failed", "unregister", "teardown"}
          /\ d[1] \in {"begin", "failed"} => stream[cur[h]].action = "provision"
          /\ d[1] \in {"ack", "unregister", "teardown"} => d[2] = store[job]
          /\ d[1] = "begin" => d[2].status # "failed"
      BY <1>1, <3>1, DecisionFacts
    <3>3. \/ pc'[h] = d[1] /\ loc'[h] = d[2]
          \/ pc'[h] = "ack" /\ loc'[h] = NotFound
      BY Zenon, <1>0, <2>3 DEF Decides
    <3> HIDE DEF d
    <3>4. store[job].status = "failed" => FailedTraced(job)'
      BY Zenon, <1>1, <1>4 DEF TraceInv
    <3>5. NotFound.status # "failed"
      BY Zenon DEF NotFound
    <3>6. QED
      BY Zenon, <1>9, <2>2, <2>3, <3>2, <3>3, <3>4, <3>5 DEF CopyTraced, Creating
  <2>4. CASE Advances(h) /\ cur'[h] = cur[h]
    <3>1. pc[h] # "get" /\ (pc'[h] \in Creating => pc[h] \in Creating)
      BY Zenon, <2>4 DEF Advances, Straight, Creating
    <3>2. QED
      BY Zenon, <1>0, <1>2, <1>4, <2>2, <2>4, <3>1 DEF Advances, CopyTraced
  <2>5. CASE (HasPostgres(h) \/ HasHTTP(h) \/ ProvisionErrs(h)) /\ cur'[h] = cur[h]
    <3>1. pc[h] \in Creating /\ stream[cur[h]].action = "provision"
      BY Zenon, <1>2, <2>5 DEF HasPostgres, HasHTTP, ProvisionErrs, CopyTraced, Creating
    <3>2. \/ loc'[h] = loc[h] \/ loc'[h].status = "ready" \/ pc'[h] = "failed"
      BY Zenon, <2>5 DEF HasPostgres, HasHTTP, ProvisionErrs, Marks
    <3>3. loc[h].status = "failed" => FailedTraced(job)'
      BY Zenon, <1>0, <1>2, <1>4, <3>1 DEF CopyTraced, Creating
    <3>4. QED
      BY Zenon, <1>9, <2>2, <2>5, <3>1, <3>2, <3>3 DEF CopyTraced
  <2>6. CASE TearsDown(h) /\ cur'[h] = cur[h]
    BY Zenon, <1>0, <1>2, <1>4, <2>2, <2>6 DEF TearsDown, Marks, CopyTraced, Creating
  <2>7. QED
    BY Zenon, <2>1, <2>3, <2>4, <2>5, <2>6 DEF Moves
<1>11. QED
  BY Zenon, <1>5, <1>6, <1>7, <1>8, <1>10 DEF TraceInv

\* So does every step.
LEMMA TraceStep ==
  ASSUME "deadletter" \notin Faulty
  PROVE  TypeInv /\ TypeInv' /\ RequestInv /\ TraceInv /\ Steps => TraceInv'
<1> SUFFICES ASSUME TypeInv, TypeInv', RequestInv, TraceInv, Steps PROVE TraceInv'
  OBVIOUS
<1>0. \A j \in Jobs : FailedTraced(j) => FailedTraced(j)'
  BY Zenon, FailedTraceStays DEF TraceInv
<1>1. CASE Requesting
  <2>1. UNCHANGED <<pc, cur, loc>> /\ Busy' = Busy /\ Paired'
    BY Zenon, <1>1 DEF Requesting, Busy, TraceInv, Paired
  <2>2. ASSUME NEW i \in 1 .. Len(stream'), stream'[i].action = "provision"
        PROVE  post'[stream'[i].job] \notin {"new", "enqueue"}
    <3>1. CASE i \in 1 .. Len(stream)
      <4>1. stream[i] \in Message /\ stream'[i] = stream[i]
        BY <1>1, <3>1 DEF Requesting, Grown, TypeInv, QueueTypeOK
      <4>2. stream[i].job \in Jobs
        BY Zenon, <4>1 DEF Message
      <4>3. QED
        BY Zenon, <1>1, <2>2, <3>1, <4>1, <4>2 DEF TraceInv, Unqueued, Requesting, PostMoves
    <3>2. CASE Requested(stream'[i])
      <4>1. stream'[i].action # "deprovision"
        BY Zenon, <2>2
      <4>2. post[stream'[i].job] = "enqueue" /\ post'[stream'[i].job] # "enqueue"
        BY <3>2, <4>1 DEF Requested, Deprovision
      <4>3. stream'[i].job \in Jobs
        <5>1. stream' \in Seq(Message)
          BY Zenon DEF TypeInv, QueueTypeOK
        <5>2. stream'[i] \in Message
          BY <5>1
        <5>3. QED
          BY Zenon, <5>2 DEF Message
      <4>4. QED
        BY Zenon, <1>1, <4>2, <4>3 DEF Requesting, PostMoves, Unqueued
    <3>3. QED
      BY Zenon, <1>1, <3>1, <3>2 DEF Requesting
  <2>3. ASSUME NEW j \in Jobs, store'[j].status = "failed" PROVE FailedTraced(j)'
    <3>1. CASE store'[j] = store[j]
      BY Zenon, <1>0, <2>3, <3>1 DEF TraceInv
    <3>2. CASE post[j] = "compensate" /\ post'[j] = "500"
      BY Zenon, <3>2 DEF FailedTraced, Unqueued
    <3>3. QED
      BY <1>1, <2>3, <3>1, <3>2 DEF Requesting, RequestWrites, RequestInv, NewJob
  <2>4. ASSUME NEW g \in Busy' PROVE CopyTraced(g)'
    <3>1. g \in Busy /\ cur[g] \in 1 .. Len(stream) /\ JobOf(g) \in Jobs
      BY Zenon, <2>1, InHandType
    <3>2. stream'[cur'[g]] = stream[cur[g]] /\ JobOf(g)' = JobOf(g) /\ CopyTraced(g)
      BY Zenon, <1>1, <2>1, <3>1 DEF JobOf, Requesting, Grown, TraceInv
    <3>3. QED
      BY Zenon, <1>0, <2>1, <3>1, <3>2 DEF CopyTraced
  <2>5. QED
    BY Zenon, <2>1, <2>2, <2>3, <2>4 DEF TraceInv
<1>2. CASE Loops /\ UNCHANGED brokerVars
  <2>1. UNCHANGED <<store, stream>> /\ Paired'
    BY Zenon, <1>2 DEF Loops, TraceInv
  <2>2. ASSUME NEW g \in Busy' PROVE CopyTraced(g)'
    <3>1. CASE Same(g)
      <4>1. g \in Busy /\ JobOf(g) \in Jobs
        BY Zenon, <3>1, InHandType DEF Same
      <4>2. JobOf(g)' = JobOf(g) /\ stream'[cur'[g]] = stream[cur[g]] /\ CopyTraced(g)
        BY Zenon, <2>1, <3>1, <4>1 DEF Same, JobOf, TraceInv
      <4>3. QED
        BY Zenon, <1>0, <3>1, <4>1, <4>2 DEF Same, CopyTraced
    <3>2. CASE pc'[g] = "get"
      BY Zenon, <3>2 DEF CopyTraced, Creating
    <3>3. QED
      BY Zenon, <1>2, <3>1, <3>2 DEF Loops
  <2>3. \A i \in 1 .. Len(stream') :
          stream'[i].action = "provision" => post'[stream'[i].job] \notin {"new", "enqueue"}
    BY Zenon, <1>2, <2>1 DEF TraceInv, Unqueued, brokerVars
  <2>4. \A j \in Jobs : store'[j].status = "failed" => FailedTraced(j)'
    BY Zenon, <1>0, <2>1 DEF TraceInv
  <2>5. QED
    BY Zenon, <2>1, <2>2, <2>3, <2>4 DEF TraceInv
<1>3. ASSUME NEW h \in Busy, Moves(h), UNCHANGED brokerVars PROVE TraceInv'
  BY Zenon, <1>3, TraceMove
<1>4. QED
  BY Zenon, <1>1, <1>2, <1>3 DEF Steps

\* If the dead-letter write does not fail, then as long as no process has died
\* and the dead-letter stream is shorter than its cap, an accepted job that
\* reads failed and that no worker will come back to is in it: for any number
\* of workers, slow handlers, batches, requests and other failed calls
\* (worker.go 186-197, 223-232).
THEOREM AbandonedJobsAreRecorded ==
  ASSUME "deadletter" \notin Faulty
  PROVE  Spec => [](crashes = 0 /\ Len(dead) < DeadMaxLen => AbandonedIsRecorded)
<1>1. Init => TraceInv
  <2> SUFFICES ASSUME Init PROVE TraceInv
    OBVIOUS
  <2>1. Busy = {}
    BY Zenon DEF Init, WorkerInit, Busy
  <2>2. Len(stream) = 0
    BY Zenon DEF Init, QueueInit
  <2>3. \A j \in Jobs : store[j].status # "failed"
    BY Zenon DEF Init, StoreInit, NotFound
  <2>4. Paired
    BY Zenon DEF Init, WorkerInit, Paired, Handlers
  <2>5. QED
    BY <2>1, <2>2, <2>3, <2>4 DEF TraceInv
<1>2. TypeInv /\ TraceInv => (crashes = 0 /\ Len(dead) < DeadMaxLen => AbandonedIsRecorded)
  <2> SUFFICES ASSUME TypeInv, TraceInv, crashes = 0, Len(dead) < DeadMaxLen,
                      NEW j \in Jobs, post[j] = "202", store[j].status = "failed",
                      ~HandledNow(j)
               PROVE  Recorded(j)
    BY Zenon DEF AbandonedIsRecorded, Recorded
  <2>1. Traced(j) /\ ~Recording(j)
    BY Zenon DEF TraceInv, FailedTraced, Recording, HandledNow
  <2>2. Len(dead) \in Nat /\ DeadMaxLen \in Nat
    BY QueueAssumption DEF TypeInv, QueueTypeOK
  <2>3. QED
    BY <2>1, <2>2 DEF Traced
<1>3. QED
  BY <1>1, <1>2, NextSteps, TraceStep, RequestInvariant, TypeInvariant, PTL DEF Spec

-----------------------------------------------------------------------------
(* One worker that never has to come back to a message *)

\* A single worker that does not die, handles every message in time, loses
\* no delivery and no acknowledgement, and meets no transient error: the
\* reclaim loop has nothing to take over.  Every other call may fail.
Serial ==
  /\ \E w : Workers = {w}
  /\ MaxCrashes = 0 /\ ~SlowHandlers
  /\ "dequeue" \notin Faulty /\ "ack" \notin Faulty
  /\ "transient" \notin DockerErrs

\* The only message pending is the one in the hands of the main loop.
SerialInv ==
  /\ idle = {} /\ \A h \in Handlers : batch[h] = {}
  /\ \A h \in Busy :
       /\ h[2] = "main" /\ prompt[h] /\ pc[h] # "retry"
       /\ pel \subseteq {cur[h]} /\ (pc[h] = "deadletter" => pel = {})
  /\ Busy = {} => pel = {}

LEMMA SerialHandler ==
  ASSUME TypeInv, Serial, SerialInv, NEW h \in Busy, HandlerStep(h)
  PROVE  SerialInv'
<1>1. /\ h \in Handlers /\ pc[h] \notin {"down", "idle"} /\ batch[h] = {} /\ h[2] = "main"
      /\ pc[h] # "retry" /\ pel \subseteq {cur[h]} /\ idle = {} /\ prompt[h]
      /\ pc[h] = "deadletter" => pel = {}
  BY Zenon DEF Busy, SerialInv
<1>2. \A g \in Busy : g = h
  BY <1>1 DEF Serial, SerialInv, Busy, Handlers
\* The handler goes on, having acknowledged its message or not.
<1>3. ASSUME NEW l \in Labels \ {"down", "idle", "retry"}, NEW rec, Goto(h, l, rec),
             pel' \subseteq pel, idle' \subseteq idle, l = "deadletter" => pel' = {}
      PROVE  SerialInv'
  <2>1. /\ pc'[h] = l /\ cur'[h] = cur[h] /\ prompt'[h] = prompt[h] /\ UNCHANGED batch
        /\ \A g \in Handlers \ {h} : pc'[g] = pc[g]
    BY Zenon, <1>1, <1>3, GotoShape DEF Others
  <2>2. Busy' = {h}
    BY Zenon, <1>1, <1>2, <1>3, <2>1 DEF Busy
  <2>3. QED
    BY Zenon, <1>1, <1>3, <2>1, <2>2 DEF SerialInv
\* It returns, having acknowledged its message.
<1>4. ASSUME Return(h), pel' = {}, idle' \subseteq idle PROVE SerialInv'
  <2>1. /\ pc'[h] = "idle" /\ UNCHANGED batch
        /\ \A g \in Handlers \ {h} : pc'[g] = pc[g]
    BY Zenon, <1>1, <1>4 DEF Return, TypeInv, HandlersOK
  <2>2. Busy' = {}
    BY Zenon, <1>2, <2>1 DEF Busy
  <2>3. QED
    BY Zenon, <1>1, <1>4, <2>1, <2>2 DEF SerialInv
<1>5. UNCHANGED queueVars => UNCHANGED <<pel, idle>>
  BY Zenon DEF queueVars
<1>6. ASSUME TryAck(cur[h]) PROVE pel' = {} /\ idle' \subseteq idle
  BY Zenon, <1>1, <1>6 DEF TryAck, Ack, Fails, Serial
<1>7. CASE Get(h)
  <2>1. /\ stream[cur[h]].action \in {"provision", "deprovision"}
        /\ store[JobOf(h)] \in JobRecord
    BY Zenon, InHandType DEF Message, TypeInv
  <2> DEFINE d == Decision(stream[cur[h]].action, store[JobOf(h)])
  <2>2. d[1] \in Labels \ {"down", "idle", "retry", "deadletter"}
    BY <2>1, DecisionFacts DEF Labels
  <2>3. PICK l, rec : Goto(h, l, rec) /\ (l = d[1] \/ l = "ack")
    BY Zenon, <1>7 DEF Get
  <2>4. l \in Labels \ {"down", "idle", "retry", "deadletter"}
    BY Zenon, <2>2, <2>3 DEF Labels
  <2>5. UNCHANGED <<pel, idle>>
    BY Zenon, <1>5, <1>7 DEF Get
  <2>6. QED
    BY Zenon, <1>3, <2>3, <2>4, <2>5
\* The calls on the way.
<1>8. ASSUME NEW l \in Labels \ {"down", "idle", "retry", "deadletter"}, NEW rec,
             Goto(h, l, rec), UNCHANGED queueVars
      PROVE  SerialInv'
  BY Zenon, <1>3, <1>5, <1>8
<1>9. CASE PutProvisioning(h) \/ PutReady(h) \/ Register(h) \/ PutFailed(h)
           \/ Unregister(h) \/ PutTornDown(h)
  <2>1. {"postgres", "register", "ack", "failedAck", "teardown"}
          \subseteq Labels \ {"down", "idle", "retry", "deadletter"}
    BY Zenon DEF Labels
  <2>2. \E l \in {"postgres", "register", "ack", "failedAck", "teardown"} : Goto(h, l, loc[h])
    BY Zenon, <1>9 DEF PutProvisioning, PutReady, Register, PutFailed, Unregister, PutTornDown
  <2>3. UNCHANGED queueVars
    BY Zenon, <1>9 DEF PutProvisioning, PutReady, Register, PutFailed, Unregister, PutTornDown
  <2>4. QED
    BY Zenon, <1>8, <2>1, <2>2, <2>3
<1>10. CASE ProvisionPostgres(h) \/ ProvisionHTTP(h) \/ Teardown(h)
  <2>1. {"http", "ready", "failed", "deleted", "stuck"}
          \subseteq Labels \ {"down", "idle", "retry", "deadletter"}
    BY Zenon DEF Labels
  <2>2. \A class \in DockerErrs : ProvisionFailed(h, class) => \E rec : Goto(h, "failed", rec)
    BY Zenon DEF ProvisionFailed, Serial
  <2>3. CASE ProvisionPostgres(h)
    BY Zenon, <1>8, <2>1, <2>2, <2>3 DEF ProvisionPostgres
  <2>4. CASE ProvisionHTTP(h)
    BY Zenon, <1>8, <2>1, <2>2, <2>4 DEF ProvisionHTTP
  <2>5. CASE Teardown(h)
    BY Zenon, <1>8, <2>1, <2>5 DEF Teardown
  <2>6. QED
    BY Zenon, <1>10, <2>3, <2>4, <2>5
<1>11. CASE AckFailed(h)
  <2>1. "deadletter" \in Labels \ {"down", "idle", "retry"}
    BY Zenon DEF Labels
  <2>2. QED
    BY Zenon, <1>3, <1>6, <1>11, <2>1 DEF AckFailed
<1>12. CASE WriteDeadLetter(h)
  <2>1. UNCHANGED <<pel, idle>>
    BY Zenon, <1>5, <1>12 DEF WriteDeadLetter, DeadLetter
  <2>2. QED
    BY Zenon, <1>1, <1>4, <1>12, <2>1 DEF WriteDeadLetter
<1>13. CASE AckMessage(h)
  BY Zenon, <1>4, <1>6, <1>13 DEF AckMessage
<1>14. ~ (PutTransient(h) \/ Dequeue(h) \/ Reclaim(h))
  BY Zenon, <1>1 DEF PutTransient, Dequeue, Reclaim
<1>15. QED
  BY Zenon, <1>7, <1>9, <1>10, <1>11, <1>12, <1>13, <1>14 DEF HandlerStep

\* Every step keeps it.
LEMMA SerialNext ==
  ASSUME Serial
  PROVE  TypeInv /\ SerialInv /\ [Next]_vars => SerialInv'
<1> SUFFICES ASSUME TypeInv, SerialInv, [Next]_vars PROVE SerialInv'
  OBVIOUS
<1>0. PICK w : Workers = {w}
  BY Zenon DEF Serial
<1>01. Handlers = {<<w, "main">>, <<w, "reclaim">>}
  BY <1>0 DEF Handlers
<1>02. crashes = 0 /\ 0 \in Nat
  BY DEF TypeInv, FaultTypeOK, Serial
<1>1. /\ pc \in [Handlers -> Labels] /\ cur \in [Handlers -> 0 .. Len(stream)]
      /\ prompt \in [Handlers -> BOOLEAN] /\ batch \in [Handlers -> SUBSET (1 .. Len(stream))]
  BY Zenon DEF TypeInv, HandlersOK
<1>2. ASSUME UNCHANGED <<pel, idle, handlerVars>> PROVE SerialInv'
  BY Zenon, <1>2 DEF SerialInv, handlerVars, Busy
<1>3. CASE BrokerNext /\ UNCHANGED workerVars
  <2>1. UNCHANGED <<pel, idle>>
    BY Zenon, <1>3 DEF BrokerNext, BrokerStart, BrokerCrash, BrokerStep, PostPut, PostEnqueue,
       PostCompensate, DelGet, DelPut, DelEnqueue, EnsureGroup, Enqueue, queueVars
  <2>2. QED
    BY Zenon, <1>2, <1>3, <2>1 DEF workerVars
<1>4. CASE WorkerStart(w)
  <2>1. /\ UNCHANGED <<pel, idle, batch>>
        /\ pc[<<w, "main">>] = "down" /\ \A g \in Handlers : pc'[g] = "idle"
    BY <1>01, <1>1, <1>4 DEF WorkerStart, EnsureGroup
  <2>2. Busy = {}
    BY <1>01, <2>1 DEF Busy, SerialInv
  <2>3. Busy' = {}
    BY Zenon, <2>1 DEF Busy
  <2>4. QED
    BY Zenon, <2>1, <2>2, <2>3 DEF SerialInv
<1>5. ~WorkerCrash(w)
  BY <1>02 DEF WorkerCrash, Dies, Serial
<1>6. ASSUME NEW h \in Handlers, Dequeue(h) PROVE SerialInv'
  <2>1. /\ h[2] = "main" /\ pc[h] = "idle" /\ Begin(h, cursor + 1, {})
        /\ pel' = pel \cup {cursor + 1} /\ UNCHANGED idle
    BY Zenon, <1>6 DEF Dequeue, Deliver, Fails, Serial
  <2>2. /\ pc'[h] = "get" /\ cur'[h] = cursor + 1 /\ prompt'[h] /\ batch'[h] = {}
        /\ \A g \in Handlers \ {h} : pc'[g] = pc[g] /\ batch'[g] = batch[g]
    BY Zenon, <1>1, <2>1 DEF Begin
  <2>3. Busy = {} /\ h = <<w, "main">>
    BY <1>01, <1>6, <2>1 DEF Busy, SerialInv
  <2>4. Busy' = {h}
    BY Zenon, <1>6, <2>2, <2>3 DEF Busy
  <2>5. QED
    BY Zenon, <2>1, <2>2, <2>3, <2>4 DEF SerialInv
<1>7. ASSUME NEW h \in Handlers PROVE ~Reclaim(h)
  BY Zenon DEF Reclaim, Claimable, SerialInv
<1>8. ASSUME NEW i \in pel PROVE ~MinIdlePasses(i)
  <2>1. PICK h \in Busy : cur[h] = i /\ prompt[h]
    BY <1>8 DEF SerialInv
  <2>2. QED
    BY Zenon, <2>1 DEF MinIdlePasses, Serial, Busy
<1>9. ASSUME NEW h \in Handlers, DequeueNothing(h) PROVE SerialInv'
  BY Zenon, <1>2, <1>9 DEF DequeueNothing, queueVars, workerVars
<1>10. ASSUME NEW h \in Handlers, HandlerStep(h), ~ Dequeue(h) PROVE SerialInv'
  <2>1. h \in Busy
    BY Zenon, <1>7, <1>10 DEF HandlerStep, Busy, Get, PutProvisioning, ProvisionPostgres,
       ProvisionHTTP, PutReady, Register, PutTransient, PutFailed, AckFailed,
       WriteDeadLetter, AckMessage, Unregister, Teardown, PutTornDown
  <2>2. QED
    BY Zenon, <1>10, <2>1, SerialHandler
<1>11. CASE UNCHANGED vars
  BY Zenon, <1>2, <1>11 DEF vars, queueVars, workerVars
<1>12. CASE WorkerNext
  <2>1. CASE \E v \in Workers : WorkerStart(v) \/ WorkerCrash(v)
    BY Zenon, <1>0, <1>4, <1>5, <2>1
  <2>2. CASE \E h \in Handlers : HandlerStep(h) \/ DequeueNothing(h)
    BY Zenon, <1>6, <1>9, <1>10, <2>2
  <2>3. QED
    BY Zenon, <1>8, <1>12, <2>1, <2>2 DEF WorkerNext
<1>13. QED
  BY Zenon, <1>3, <1>11, <1>12 DEF Next

\* If there is one worker, which never has to come back to a message, a job
\* that reads deleted and is not being handled has no container, however many
\* jobs and racing DELETE requests there are, and whichever reads, writes and
\* teardowns fail (worker.go 279-298).
THEOREM DeletedJobsAreGone ==
  ASSUME Serial
  PROVE  Spec => []DeletedIsGone
<1>1. Init => SerialInv
  <2> SUFFICES ASSUME Init PROVE SerialInv
    OBVIOUS
  <2>1. Busy = {} /\ \A h \in Handlers : batch[h] = {}
    BY Zenon DEF Init, WorkerInit, Busy
  <2>2. QED
    BY Zenon, <2>1 DEF Init, QueueInit, SerialInv
<1>2. SerialInv => DeletesApart
  <2>1. SerialInv => \A g, h \in Busy : g = h
    BY DEF Serial, SerialInv, Busy, Handlers
  <2>2. QED
    BY Zenon, <2>1 DEF DeletesApart, Creating
<1>3. Spec => []SerialInv
  BY <1>1, SerialNext, TypeInvariant, PTL DEF Spec
<1>4. QED
  BY <1>2, <1>3, DeletedStaysGone, PTL

=============================================================================
