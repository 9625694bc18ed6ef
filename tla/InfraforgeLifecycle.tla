------------------------ MODULE InfraforgeLifecycle -------------------------
(***************************************************************************)
(* What becomes of a job that a client has been answered 202 for.          *)
(*                                                                         *)
(* A DELETE that is answered 202 has its work queued: for any jobs,        *)
(* workers, requests and bounds, and whether or not handlers overlap on a  *)
(* message.                                                                *)
(*                                                                         *)
(* The record of an accepted job follows JobLifecycle: every step of the   *)
(* system is a step of that machine or leaves it alone, as long as no two  *)
(* handlers have one message.  InfraforgeSafety, which proves that they    *)
(* do not, draws the conclusion.                                           *)
(***************************************************************************)
EXTENDS InfraforgeMoves, PatientClients

-----------------------------------------------------------------------------
(* A DELETE answered 202 has its work queued *)

\* The broker is not restarted with requests in flight.
BrokerStaysUp == [][serving => serving']_vars

\* No call returns an error on which the code forgets a teardown: Get drops
\* the message (worker.go 149-155), a DELETE that failed to write or to queue
\* leaves the record reading deleting (api.go 166-178), and a teardown that
\* failed is acknowledged (worker.go 281-289).
Remembers == Faulty \cap {"get", "put", "enqueue"} = {} /\ "teardown" \notin DockerErrs

Queueing(j) == \E d \in Deletes : del[d] = "enqueue" /\ j \in target[d]

\* Message i has somebody who will act on it.
Live(i) == \A h \in Busy : cur[h] = i => pc[h] # "ack"

\* A job that reads deleting is about to be queued, or its message is.
Awaited(j) ==
  store[j].status = "deleting" =>
    Queueing(j) \/ \E i \in Outstanding(Deprovision(j)) : Live(i)

\* The calls that only a provision message leads to.
Provisioning == {"begin", "postgres", "http", "ready", "register", "retry",
                 "failed", "failedAck", "deadletter"}

\* A handler fits its message, and never writes that its job is deleting.
Finishes(h) ==
  /\ pc[h] \in Provisioning => stream[cur[h]].action = "provision"
  /\ pc[h] # "stuck"
  /\ pc[h] \in Provisioning => loc[h].status # "deleting"
  /\ pc[h] = "deleted" => loc[h].status = "deleted"

AwaitInv ==
  /\ \A j \in Jobs : Awaited(j)
  /\ \A h \in Busy : Finishes(h)
  /\ \A d \in Deletes : \A j, k \in target[d] : j = k

\* A move of a handler leaves it fit for its message.
LEMMA FinishesMove ==
  ASSUME TypeInv, TypeInv', Remembers, NEW h \in Busy, Moves(h), Finishes(h)
  PROVE  h \in Busy' => Finishes(h)'
<1>1. /\ pc[h] \in Labels /\ cur[h] \in 1 .. Len(stream) /\ JobOf(h) \in Jobs
      /\ store[JobOf(h)] \in JobRecord
      /\ stream[cur[h]].action \in {"provision", "deprovision"}
  BY Zenon, InHandType DEF Message, TypeInv, HandlersOK
<1>2. UNCHANGED stream
  BY Zenon DEF Moves, OwnJob
<1>3. CASE Returns(h)
  BY Zenon, <1>3 DEF Returns, Finishes, Provisioning
<1>4. CASE cur'[h] = cur[h] /\ Decides(h)
  <2> DEFINE d == Decision(stream[cur[h]].action, store[JobOf(h)])
  <2>1. pc'[h] = d[1] /\ loc'[h] = d[2]
    BY Zenon, <1>4 DEF Decides, Remembers
  <2> HIDE DEF d
  <2>2. /\ stream[cur[h]].action = "provision" => d[1] \in {"ack", "begin", "failed"}
        /\ stream[cur[h]].action = "deprovision" => d[1] \in {"ack", "unregister", "teardown"}
        /\ d[1] \in {"begin", "failed"} => d[2].status \in {"provisioning", "failed"}
    BY <1>1, DecisionFacts DEF d
  <2>3. QED
    BY Zenon, <1>1, <1>2, <1>4, <2>1, <2>2 DEF Finishes, Provisioning
<1>5. CASE cur'[h] = cur[h] /\ ~Decides(h) /\ ~Returns(h)
  BY Zenon, <1>2, <1>5 DEF Moves, Advances, Straight, HasPostgres, HasHTTP, ProvisionErrs, TearsDown,
     Marks, Finishes, Provisioning, Remembers
<1>6. QED
  BY Zenon, <1>3, <1>4, <1>5 DEF Moves

\* What is queued stays queued, and has somebody to act on it, while h moves:
\* the handler that would acknowledge it has seen the job deleted.
LEMMA AwaitedMove ==
  ASSUME TypeInv, TypeInv', Remembers, AwaitInv, UNCHANGED brokerVars,
         NEW h \in Busy, Moves(h), NEW j \in Jobs
  PROVE  Awaited(j)'
<1> SUFFICES ASSUME store'[j].status = "deleting", ~Queueing(j)'
             PROVE  \E i \in Outstanding(Deprovision(j))' : Live(i)'
  BY Zenon DEF Awaited
<1>1. /\ h \in Handlers /\ JobOf(h) \in Jobs /\ store[JobOf(h)] \in JobRecord
      /\ stream[cur[h]].action \in {"provision", "deprovision"}
      /\ pc \in [Handlers -> Labels]
  BY Zenon, InHandType DEF Message, TypeInv, HandlersOK
<1>2. UNCHANGED <<stream, cursor>> /\ OwnJob(h)
  BY Zenon DEF Moves, OwnJob
<1>3. Finishes(h) /\ Awaited(j)
  BY Zenon DEF AwaitInv
<1>4. ~Queueing(j)
  BY Zenon DEF Queueing, brokerVars
<1>5. /\ pc[h] \in Writing => j # JobOf(h)
      /\ store'[j] = store[j]
  <2>1. pc[h] \in Writing => loc[h].status # "deleting"
    BY Zenon, <1>3 DEF Finishes, Writing, Provisioning
  <2>2. CASE j # JobOf(h)
    BY Zenon, <1>2, <2>2 DEF OwnJob
  <2>3. CASE j = JobOf(h)
    <3>1. pc[h] \notin Writing
      BY Zenon, <1>2, <2>1, <2>3 DEF OwnJob, Remembers
    <3>2. QED
      BY Zenon, <1>2, <2>3, <3>1 DEF OwnJob
  <2>4. QED
    BY Zenon, <2>2, <2>3
<1>6. PICK i \in Outstanding(Deprovision(j)) : Live(i)
  BY Zenon, <1>3, <1>4, <1>5 DEF Awaited
<1>7. /\ i \in 1 .. Len(stream) /\ stream[i] = Deprovision(j) /\ (i > cursor \/ i \in pel)
      /\ stream[i].job = j /\ stream[i].action = "deprovision"
  BY <1>6 DEF Outstanding, Deprovision
<1>8. cur[h] = i => /\ pc[h] \notin {"ack", "failedAck", "register", "stuck", "deleted"}
                    /\ JobOf(h) = j
  <2>1. cur[h] = i => pc[h] # "ack" /\ JobOf(h) = j
    BY Zenon, <1>6, <1>7 DEF Live, JobOf
  <2>2. cur[h] = i => pc[h] \notin {"failedAck", "register", "stuck"}
    BY Zenon, <1>3, <1>7 DEF Finishes, Provisioning
  <2>3. QED
    BY Zenon, <1>5, <2>1, <2>2 DEF Writing
<1>9. i \in pel => i \in pel'
  BY Zenon, <1>2, <1>8 DEF OwnJob
<1>10. i \in Outstanding(Deprovision(j))'
  BY Zenon, <1>2, <1>7, <1>9 DEF Outstanding, Deprovision
<1>11. ASSUME cur'[h] = i, pc'[h] = "ack" PROVE FALSE
  <2>1. cur[h] = i
    BY Zenon, <1>11 DEF Moves, Returns
  <2>2. ~Advances(h)
    BY Zenon, <1>8, <1>11, <2>1 DEF Advances, Straight
  <2>3. Decides(h)
    BY Zenon, <1>11, <2>2 DEF Moves, Returns, HasPostgres, HasHTTP, ProvisionErrs, TearsDown
  <2> DEFINE d == Decision(stream[cur[h]].action, store[JobOf(h)])
  <2>4. d[1] = "ack"
    BY Zenon, <1>11, <2>3 DEF Decides, Remembers
  <2> HIDE DEF d
  <2>5. d[1] = "ack" => store[JobOf(h)].status \in {"absent", "deleted"}
    BY Zenon, <1>1, <1>7, <2>1, DecisionFacts DEF d
  <2>6. QED
    BY Zenon, <1>5, <1>8, <2>1, <2>4, <2>5
<1>12. Live(i)'
  <2>1. \A g \in Busy' : g # h => g \in Busy /\ pc'[g] = pc[g] /\ cur'[g] = cur[g]
    BY Zenon, <1>2 DEF OwnJob, Others, Busy
  <2>2. QED
    BY Zenon, <1>6, <1>11, <2>1 DEF Live
<1>13. QED
  BY Zenon, <1>10, <1>12

\* What the broker does for a job that reads deleting: it writes that before it
\* queues the message, and answers 202 after, or when it has read it (api.go
\* 138-181).
Fresh(j) ==
  \E i \in 1 .. Len(stream') : i > Len(stream) /\ stream'[i] = Deprovision(j)

Arranges ==
  /\ \A j \in Jobs : store'[j].status = "deleting" =>
       store[j].status = "deleting" \/ Queueing(j)'
  /\ \A j \in Jobs : Queueing(j) => Queueing(j)' \/ Fresh(j)
  /\ \A d \in Deletes : del[d] # "202" /\ del'[d] = "202" =>
       \A j \in target'[d] : store'[j].status = "deleting" \/ Fresh(j)
  /\ \A d \in Deletes : \A j, k \in target'[d] : j = k

LEMMA BrokerArranges ==
  ASSUME TypeInv, RequestInv, AwaitInv, Remembers, serving => serving', BrokerNext
  PROVE  Arranges
<1> DEFINE Wrote == \A j \in Jobs : store'[j].status = "deleting" =>
                      store[j].status = "deleting" \/ Queueing(j)'
           Queues == \A j \in Jobs : Queueing(j) => Queueing(j)' \/ Fresh(j)
           Answers == \A d \in Deletes : del[d] # "202" /\ del'[d] = "202" =>
                        \A j \in target'[d] : store'[j].status = "deleting" \/ Fresh(j)
           Aims == \A d \in Deletes : \A j, k \in target'[d] : j = k
<1>1. /\ del \in [Deletes -> DelStates] /\ target \in [Deletes -> SUBSET Jobs]
      /\ copy \in [Deletes -> JobRecord] /\ store \in [Jobs -> JobRecord]
      /\ stream \in Seq(Message) /\ Len(stream) \in Nat
      /\ \A d \in Deletes : \A j, k \in target[d] : j = k
  BY DEF TypeInv, BrokerTypeOK, QueueTypeOK, AwaitInv
<1>2. ~Fails("get") /\ ~Fails("put") /\ ~Fails("enqueue")
  BY Zenon DEF Fails, Remembers
<1>3. UNCHANGED <<del, target>> => Queues /\ Answers /\ Aims
  BY Zenon, <1>1 DEF Queueing
<1>4. CASE BrokerStart
  BY Zenon, <1>3, <1>4 DEF BrokerStart, Arranges
<1>5. ~BrokerCrash
  BY Zenon DEF BrokerCrash
<1>6. CASE \E j \in Jobs : PostPut(j) \/ PostEnqueue(j) \/ PostCompensate(j)
  <2>1. PICK j \in Jobs : PostPut(j) \/ PostEnqueue(j) \/ PostCompensate(j)
    BY Zenon, <1>6
  <2>2. UNCHANGED <<del, target>>
    BY Zenon, <2>1 DEF PostPut, PostEnqueue, PostCompensate, PostGoto
  <2>3. NewJob.status = "pending" /\ [NewJob EXCEPT !.status = "failed"].status = "failed"
    BY Zenon DEF NewJob
  <2>4. \A k \in Jobs : store'[k] = store[k] \/ store'[k].status \in {"pending", "failed"}
    BY Zenon, <1>1, <2>1, <2>3 DEF PostPut, PostEnqueue, PostCompensate, Put
  <2>5. Wrote
    BY Zenon, <2>4
  <2>6. QED
    BY Zenon, <1>3, <2>2, <2>5 DEF Arranges
<1>7. ASSUME NEW d \in Deletes, NEW j \in Jobs, DelGet(d, j) PROVE Arranges
  <2>1. /\ UNCHANGED store /\ del[d] = "new" /\ target' = [target EXCEPT ![d] = {j}]
        /\ DelGoto(d, DelRoute(store[j].status))
    BY Zenon, <1>2, <1>7 DEF DelGet
  <2>2. /\ UNCHANGED store /\ del[d] = "new" /\ target'[d] = {j}
        /\ del'[d] = DelRoute(store[j].status)
        /\ \A e \in Deletes : e # d => del'[e] = del[e] /\ target'[e] = target[e]
    BY Zenon, <1>1, <2>1 DEF DelGoto
  <2>3. DelRoute(store[j].status) = "202" => store[j].status = "deleting"
    BY Zenon DEF DelRoute
  <2>4. Queues
    BY Zenon, <2>2 DEF Queueing
  <2>5. Answers
    BY Zenon, <2>2, <2>3
  <2>6. Aims
    <3>1. \A e \in Deletes : target'[e] = {j} \/ target'[e] = target[e]
      BY Zenon, <2>2
    <3>2. QED
      BY Zenon, <1>1, <3>1
  <2>7. QED
    BY Zenon, <2>2, <2>4, <2>5, <2>6 DEF Arranges
<1>8. ASSUME NEW d \in Deletes, NEW j \in Jobs, DelPut(d, j) PROVE Arranges
  <2>1. /\ UNCHANGED target /\ del[d] = "put" /\ del'[d] = "enqueue" /\ j \in target[d]
        /\ \A e \in Deletes : e # d => del'[e] = del[e]
        /\ \A k \in Jobs : k # j => store'[k] = store[k]
    BY Zenon, <1>1, <1>2, <1>8 DEF DelPut, DelGoto, Put
  <2>2. Queueing(j)'
    BY Zenon, <2>1 DEF Queueing
  <2>3. Wrote
    BY Zenon, <2>1, <2>2
  <2>4. Queues
    BY Zenon, <2>1 DEF Queueing
  <2>5. Answers /\ Aims
    BY Zenon, <1>1, <2>1
  <2>6. QED
    BY Zenon, <2>3, <2>4, <2>5 DEF Arranges
<1>9. ASSUME NEW d \in Deletes, NEW j \in Jobs, DelEnqueue(d, j) PROVE Arranges
  <2>1. /\ UNCHANGED <<store, target>> /\ del'[d] = "202" /\ j \in target[d]
        /\ \A e \in Deletes : e # d => del'[e] = del[e]
        /\ stream' = Append(stream, Deprovision(j))
    BY Zenon, <1>1, <1>2, <1>9 DEF DelEnqueue, DelGoto, Enqueue
  <2>2. \A k \in target[d] : k = j
    BY Zenon, <1>1, <2>1
  <2>3. Len(stream) + 1 \in 1 .. Len(stream') /\ stream'[Len(stream) + 1] = Deprovision(j)
    <3>1. Deprovision(j) \in Message
      BY Zenon DEF Deprovision, Message
    <3>2. QED
      BY <1>1, <2>1, <3>1
  <2>4. Fresh(j)
    <3>1. Len(stream) + 1 > Len(stream)
      BY <1>1
    <3>2. QED
      BY Zenon, <2>3, <3>1 DEF Fresh
  <2>5. Queues
    BY Zenon, <2>1, <2>2, <2>4 DEF Queueing
  <2>6. Answers /\ Aims
    BY Zenon, <1>1, <2>1, <2>2, <2>4
  <2>7. QED
    BY Zenon, <2>1, <2>5, <2>6 DEF Arranges
<1>10. QED
  BY Zenon, <1>4, <1>5, <1>6, <1>7, <1>8, <1>9 DEF BrokerNext, BrokerStep

\* What waits for a worker waits on while the broker works.
LEMMA AwaitBroker ==
  ASSUME TypeInv, RequestInv, MessageInv, AwaitInv, Remembers, serving => serving',
         BrokerNext, UNCHANGED workerVars
  PROVE  AwaitInv' /\ \A j \in Jobs : Fresh(j) => Outstanding(Deprovision(j))' # {}
<1>1. Arranges
  BY Zenon, BrokerArranges
<1>2. Grown /\ UNCHANGED <<cursor, pel>>
  BY Zenon, BrokerMessages
<1>3. UNCHANGED <<pc, cur, loc>> /\ Busy' = Busy
  BY Zenon DEF workerVars, handlerVars, Busy
<1>4. /\ Len(stream) \in Nat /\ Len(stream') \in Nat /\ Len(stream) <= Len(stream')
      /\ cursor \in 0 .. Len(stream)
  BY <1>2 DEF TypeInv, QueueTypeOK, Grown
<1>5. ASSUME NEW j \in Jobs, Fresh(j)
      PROVE  \E i \in Outstanding(Deprovision(j))' : Live(i)'
  <2>1. PICK i \in 1 .. Len(stream') : i > Len(stream) /\ stream'[i] = Deprovision(j)
    BY Zenon, <1>5 DEF Fresh
  <2>2. i > cursor'
    BY <1>2, <1>4, <2>1
  <2>3. i \in Outstanding(Deprovision(j))'
    BY Zenon, <2>1, <2>2 DEF Outstanding, Deprovision
  <2>4. \A h \in Busy : cur[h] # i
    <3> SUFFICES ASSUME NEW h \in Busy, cur[h] = i PROVE FALSE
      OBVIOUS
    <3>1. cur[h] \in 1 .. Len(stream)
      BY Zenon, InHandType
    <3>2. QED
      BY <1>4, <2>1, <3>1
  <2>5. QED
    BY Zenon, <1>3, <2>3, <2>4 DEF Live
<1>6. ASSUME NEW j \in Jobs PROVE Awaited(j)'
  <2> SUFFICES ASSUME store'[j].status = "deleting", ~Queueing(j)', ~Fresh(j)
               PROVE  \E i \in Outstanding(Deprovision(j))' : Live(i)'
    BY Zenon, <1>5 DEF Awaited
  <2>1. store[j].status = "deleting" /\ ~Queueing(j)
    BY Zenon, <1>1 DEF Arranges
  <2>2. PICK i \in Outstanding(Deprovision(j)) : Live(i)
    BY Zenon, <2>1 DEF AwaitInv, Awaited
  <2>3. i \in 1 .. Len(stream) /\ stream[i] = Deprovision(j) /\ (i > cursor \/ i \in pel)
    BY Zenon, <2>2 DEF Outstanding, Deprovision
  <2>4. i \in 1 .. Len(stream') /\ stream'[i] = stream[i]
    BY <1>2, <1>4, <2>3 DEF Grown
  <2>5. i \in Outstanding(Deprovision(j))'
    BY Zenon, <1>2, <2>3, <2>4 DEF Outstanding, Deprovision
  <2>6. Live(i)'
    BY Zenon, <1>3, <2>2 DEF Live
  <2>7. QED
    BY Zenon, <2>5, <2>6
<1>7. ASSUME NEW h \in Busy PROVE Finishes(h)'
  <2>1. cur[h] \in 1 .. Len(stream)
    BY Zenon, InHandType
  <2>2. stream'[cur[h]] = stream[cur[h]]
    BY Zenon, <1>2, <2>1 DEF Grown
  <2>3. QED
    BY Zenon, <1>3, <2>2 DEF AwaitInv, Finishes
<1>8. QED
  BY Zenon, <1>1, <1>3, <1>5, <1>6, <1>7 DEF AwaitInv, Arranges

\* Every step preserves the invariant.
LEMMA AwaitNext ==
  ASSUME TypeInv, TypeInv', RequestInv, MessageInv, AwaitInv, Remembers,
         [Next]_vars, [serving => serving']_vars
  PROVE  AwaitInv'
<1>1. CASE BrokerNext /\ UNCHANGED workerVars /\ (serving => serving')
  BY Zenon, <1>1, AwaitBroker
<1>2. CASE WorkerNext /\ UNCHANGED brokerVars
  <2>1. UNCHANGED <<del, target>>
    BY Zenon, <1>2 DEF brokerVars
  <2>2. ASSUME NEW h \in Busy, Moves(h) PROVE AwaitInv'
    <3>1. \A j \in Jobs : Awaited(j)'
      BY Zenon, <1>2, <2>2, AwaitedMove
    <3>2. ASSUME NEW g \in Busy' PROVE Finishes(g)'
      <4>1. CASE g = h
        BY Zenon, <2>2, <3>2, <4>1, FinishesMove DEF AwaitInv
      <4>2. CASE g # h
        <5>1. /\ g \in Busy /\ pc'[g] = pc[g] /\ cur'[g] = cur[g] /\ loc'[g] = loc[g]
              /\ UNCHANGED stream
          BY Zenon, <2>2, <3>2, <4>2 DEF Moves, OwnJob, Others, Busy
        <5>2. QED
          BY Zenon, <5>1 DEF AwaitInv, Finishes
      <4>3. QED
        BY Zenon, <4>1, <4>2
    <3>3. QED
      BY Zenon, <2>1, <3>1, <3>2 DEF AwaitInv
  <2>3. CASE Loops
    <3>1. /\ UNCHANGED stream
          /\ \A k \in 1 .. Len(stream) : k > cursor => k > cursor' \/ k \in pel'
      BY Zenon, <1>2, WorkerMessages
    <3>2. UNCHANGED store /\ pel \subseteq pel'
      BY Zenon, <2>3 DEF Loops
    <3>3. \A g \in Busy' :
            \/ pc'[g] = "get"
            \/ g \in Busy /\ pc'[g] = pc[g] /\ cur'[g] = cur[g] /\ loc'[g] = loc[g]
      BY Zenon, <2>3 DEF Loops, Same
    <3>4. \A i : Live(i) => Live(i)'
      BY Zenon, <3>3 DEF Live
    <3>5. \A j \in Jobs : Outstanding(Deprovision(j)) \subseteq Outstanding(Deprovision(j))'
      BY Zenon, <3>1, <3>2 DEF Outstanding, Deprovision
    <3>6. \A j \in Jobs : Awaited(j)'
      BY Zenon, <2>1, <3>2, <3>4, <3>5 DEF AwaitInv, Awaited, Queueing
    <3>7. \A g \in Busy' : Finishes(g)'
      BY <3>1, <3>3 DEF AwaitInv, Finishes, Provisioning
    <3>8. QED
      BY Zenon, <2>1, <3>6, <3>7 DEF AwaitInv
  <2>4. QED
    BY Zenon, <1>2, <2>2, <2>3, WorkerMoves
<1>3. CASE UNCHANGED vars
  <2>1. UNCHANGED <<store, stream, cursor, pel, del, target, pc, cur, loc>>
    BY Zenon, <1>3 DEF vars, queueVars, brokerVars, workerVars, handlerVars
  <2>2. QED
    BY <2>1 DEF AwaitInv, Awaited, Finishes, Queueing, Live, Busy, Outstanding, Deprovision
<1>4. QED
  BY Zenon, <1>1, <1>2, <1>3 DEF Next

LEMMA AwaitInit == Init => AwaitInv
<1> SUFFICES ASSUME Init PROVE AwaitInv
  OBVIOUS
<1>1. /\ stream = << >> /\ serving = FALSE /\ store = [j \in Jobs |-> NotFound]
      /\ target = [d \in Deletes |-> {}] /\ pc = [h \in Handlers |-> "down"]
  BY Zenon DEF Init, QueueInit, BrokerInit, StoreInit, WorkerInit
<1>2. Busy = {}
  BY Zenon, <1>1 DEF Busy
<1>3. \A j \in Jobs : store[j].status # "deleting"
  BY Zenon, <1>1 DEF NotFound
<1>4. QED
  BY Zenon, <1>1, <1>2, <1>3 DEF AwaitInv, Awaited

\* When a DELETE is answered 202 its deprovision message waits for a worker,
\* or another DELETE is about to queue it (api.go 138-181): for any number of
\* jobs, DELETEs and workers, with handlers that overlap on a message, workers
\* that crash and acknowledgements that are lost.  Remembers and BrokerStaysUp
\* name every failure after which the code forgets a teardown.
THEOREM AcceptedDeletesAreQueued ==
  ASSUME Remembers
  PROVE  Spec /\ BrokerStaysUp => AcceptedDeleteIsQueued
<1> DEFINE Kept == RequestInv /\ MessageInv /\ AwaitInv
           Queued == \A d \in Deletes : del[d] # "202" /\ del'[d] = "202" =>
                       \A j \in target'[d] :
                         \/ Outstanding(Deprovision(j))' # {}
                         \/ \E e \in Deletes : del'[e] = "enqueue" /\ j \in target'[e]
<1>1. TypeInv /\ TypeInv' /\ Kept /\ [Next]_vars /\ [serving => serving']_vars => Kept'
  BY Zenon, AwaitNext, MessageNext, NextSteps
<1>2. ASSUME TypeInv, TypeInv', Kept, [Next]_vars, [serving => serving']_vars
      PROVE  [Queued]_vars
  <2>1. AwaitInv'
    BY Zenon, <1>2, AwaitNext
  <2>2. CASE BrokerNext /\ UNCHANGED workerVars /\ (serving => serving')
    <3>1. Arranges /\ \A j \in Jobs : Fresh(j) => Outstanding(Deprovision(j))' # {}
      BY Zenon, <1>2, <2>2, BrokerArranges, AwaitBroker
    <3>2. target' \in [Deletes -> SUBSET Jobs]
      BY Zenon, <1>2 DEF TypeInv, BrokerTypeOK
    <3>3. ASSUME NEW j \in Jobs, store'[j].status = "deleting"
          PROVE  \/ Outstanding(Deprovision(j))' # {}
                 \/ \E e \in Deletes : del'[e] = "enqueue" /\ j \in target'[e]
      BY Zenon, <2>1, <3>3 DEF AwaitInv, Awaited, Queueing
    <3>4. Queued
      BY Zenon, <3>1, <3>2, <3>3 DEF Arranges
    <3>5. QED
      BY Zenon, <3>4
  <2>3. CASE WorkerNext /\ UNCHANGED brokerVars
    BY Zenon, <2>3 DEF brokerVars
  <2>4. QED
    BY Zenon, <1>2, <2>2, <2>3 DEF Next
<1>3. Init => RequestInv /\ MessageInv /\ AwaitInv
  BY Zenon, RequestInit, MessageInit, AwaitInit
<1>4. QED
  BY <1>1, <1>2, <1>3, TypeInvariant, PTL DEF Spec, BrokerStaysUp, AcceptedDeleteIsQueued

-----------------------------------------------------------------------------
(* An accepted job follows the lifecycle of JobLifecycle *)

\* No job is deleted twice.
OneDeleteEach == \A d, e \in Deletes : d # e => target[d] \cap target[e] = {}

\* The ids of the deprovision messages of job j.
Removals(j) == {i \in 1 .. Len(stream) : stream[i] = Deprovision(j)}

\* A record on its way to ready has no DELETE and no deprovision message.  A
\* DELETE writes back the record it has read, and queues its message after.
RecordLives(j) ==
  /\ post[j] = "new" => store[j] = NotFound
  /\ post[j] = "enqueue" => store[j] = NewJob
  /\ Untouched(j) => store[j].status \notin Leaving /\ Removals(j) = {}
  /\ Removals(j) # {} => store[j].status \in Leaving
  /\ \A i, k \in Removals(j) : i = k
  /\ \A d \in Deletes : j \in target[d] =>
       /\ store[j].status \in {"ready"} \cup Leaving
       /\ del[d] \in {"put", "enqueue"} => Removals(j) = {}
       /\ del[d] = "enqueue" => store[j].status = "deleting"
       /\ del[d] = "put" =>
            /\ store[j].status = "ready"
            /\ copy[d].status = "deleting"
            /\ copy[d].attempts = store[j].attempts
            /\ copy[d].http = store[j].http

\* The copy of a handler that will write it is the record, or differs from it
\* by one move of the lifecycle.
Begins(h, rec) ==
  /\ rec.status \in Triable /\ rec.attempts < MaxAttempts
  /\ loc[h].status = "provisioning"
  /\ loc[h].attempts = rec.attempts + 1 /\ loc[h].http = rec.http

Readies(h, rec) ==
  /\ rec.status = "provisioning"
  /\ loc[h].status = "ready"
  /\ loc[h].attempts = rec.attempts /\ loc[h].http \in Ports

GivesUp(h, rec) ==
  /\ loc[h].status = "failed" /\ loc[h].http = rec.http
  /\ \/ rec.status = "provisioning" /\ loc[h].attempts = rec.attempts
     \/ /\ rec.status \in Triable /\ rec.attempts >= MaxAttempts
        /\ loc[h].attempts = rec.attempts + 1

Removes(h, rec) ==
  /\ rec.status = "deleting"
  /\ loc[h].status = "deleted"
  /\ loc[h].attempts = rec.attempts /\ loc[h].http = NoPort

CopyLives(h) ==
  LET rec == store[JobOf(h)] IN
  /\ pc[h] \in Provisioning => stream[cur[h]].action = "provision"
  /\ pc[h] \in {"unregister", "teardown", "deleted", "stuck"} =>
       stream[cur[h]].action = "deprovision"
  /\ pc[h] = "begin" => Begins(h, rec)
  /\ pc[h] \in {"postgres", "http", "retry"} => loc[h] = rec /\ rec.status = "provisioning"
  /\ pc[h] = "ready" => Readies(h, rec)
  /\ pc[h] = "failed" => GivesUp(h, rec)
  /\ pc[h] \in {"unregister", "teardown", "stuck"} => loc[h] = rec /\ rec.status = "deleting"
  /\ pc[h] = "deleted" => Removes(h, rec)

LifeInv ==
  /\ \A j \in Jobs : Counted(j) => RecordLives(j)
  /\ \A h \in Busy : Counted(JobOf(h)) => CopyLives(h)
  /\ \A d \in Deletes : \A j, k \in target[d] : j = k

-----------------------------------------------------------------------------
(* What the lifecycle asks of a step *)

\* The moves of JobLifecycle from record rec to record new.
Alters(rec, new) ==
  \/ /\ rec.status \in Triable /\ new.status = "provisioning"
     /\ rec.attempts < MaxAttempts
     /\ new.attempts = rec.attempts + 1 /\ new.http = rec.http
  \/ /\ rec.status = "provisioning" /\ new.status = "ready"
     /\ new.attempts = rec.attempts /\ new.http \in Ports
  \/ /\ rec.status = "provisioning" /\ new.status = "failed"
     /\ new.attempts = rec.attempts /\ new.http = rec.http
  \/ /\ rec.status \in Triable /\ new.status = "failed"
     /\ rec.attempts >= MaxAttempts
     /\ new.attempts = rec.attempts + 1 /\ new.http = rec.http
  \/ /\ rec.status = "ready" /\ new.status = "deleting"
     /\ new.attempts = rec.attempts /\ new.http = rec.http
  \/ /\ rec.status = "deleting" /\ new.status = "deleted"
     /\ new.attempts = rec.attempts /\ new.http = NoPort

\* The client of job j sees no change, or one move.
Same202(j) ==
  /\ (post'[j] = "202") <=> (post[j] = "202")
  /\ post[j] = "202" => store'[j] = store[j]

Follows(j) ==
  \/ Same202(j)
  \/ post[j] # "202" /\ post'[j] = "202" /\ store'[j] = NewJob
  \/ post[j] = "202" /\ post'[j] = "202" /\ Alters(store[j], store'[j])

LifeStep ==
  \/ \A j \in Jobs : Same202(j)
  \/ \E j \in Jobs : Follows(j) /\ \A k \in Jobs \ {j} : Same202(k)

\* A function that changes in one place.
LEMMA OneChange ==
  ASSUME NEW S, NEW f, NEW g, f = [x \in S |-> f[x]], g = [x \in S |-> g[x]],
         NEW j \in S, \A k \in S \ {j} : g[k] = f[k]
  PROVE  g = [f EXCEPT ![j] = g[j]] /\ (g[j] = f[j] => g = f)
BY Zenon

\* Such a step is a step of JobLifecycle (model.go 8-12, 48-58).
LEMMA LifeStepMaps ==
  ASSUME LifeStep
  PROVE  [Lifecycle!Next]_(Lifecycle!vars)
<1> DEFINE S == [j \in Jobs |-> Seen(j, store[j].status, "absent")]
           A == [j \in Jobs |-> Seen(j, store[j].attempts, 0)]
           E == [j \in Jobs |-> Seen(j, store[j].http, NoPort)]
<1>1. \A j \in Jobs : Same202(j) => S'[j] = S[j] /\ A'[j] = A[j] /\ E'[j] = E[j]
  BY Zenon DEF Same202, Seen
<1>2. /\ S = [j \in Jobs |-> S[j]] /\ A = [j \in Jobs |-> A[j]] /\ E = [j \in Jobs |-> E[j]]
      /\ S' = [j \in Jobs |-> S'[j]] /\ A' = [j \in Jobs |-> A'[j]] /\ E' = [j \in Jobs |-> E'[j]]
  BY Zenon
<1>3. CASE \A j \in Jobs : Same202(j)
  <2>1. S' = S /\ A' = A /\ E' = E
    BY Zenon, <1>1, <1>3
  <2>2. QED
    BY Zenon, <2>1 DEF Lifecycle!vars
<1>4. ASSUME NEW j \in Jobs, Follows(j), \A k \in Jobs \ {j} : Same202(k), ~Same202(j)
      PROVE  Lifecycle!Next
  <2>1. \A k \in Jobs \ {j} : S'[k] = S[k] /\ A'[k] = A[k] /\ E'[k] = E[k]
    BY Zenon, <1>1, <1>4
  <2>2. CASE post[j] # "202" /\ post'[j] = "202" /\ store'[j] = NewJob
    <3>1. /\ S[j] = "absent" /\ S'[j] = "pending"
          /\ A'[j] = A[j] /\ E'[j] = E[j]
      BY <2>2 DEF Seen, NewJob
    <3>2. S' = [S EXCEPT ![j] = "pending"] /\ A' = A /\ E' = E
      <4> HIDE DEF S, A, E
      <4>1. QED
        BY <1>2, <2>1, <3>1, OneChange
    <3>3. Lifecycle!Accept(j)
      BY Zenon, <3>1, <3>2 DEF Lifecycle!Accept, Lifecycle!Move
    <3>4. QED
      BY Zenon, <3>3 DEF Lifecycle!Next
  <2>3. CASE post[j] = "202" /\ post'[j] = "202" /\ Alters(store[j], store'[j])
    <3> DEFINE rec == store[j]
               new == store'[j]
    <3>1. /\ S[j] = rec.status /\ S'[j] = new.status
          /\ A[j] = rec.attempts /\ A'[j] = new.attempts
          /\ E[j] = rec.http /\ E'[j] = new.http
      BY Zenon, <2>3 DEF Seen
    <3>2. /\ S' = [S EXCEPT ![j] = new.status]
          /\ A' = [A EXCEPT ![j] = new.attempts] /\ (new.attempts = rec.attempts => A' = A)
          /\ E' = [E EXCEPT ![j] = new.http] /\ (new.http = rec.http => E' = E)
      <4> HIDE DEF S, A, E, rec, new
      <4>1. QED
        BY <1>2, <2>1, <3>1, OneChange
    <3> HIDE DEF rec, new
    <3>3. ASSUME new.attempts = rec.attempts + 1 PROVE Lifecycle!Count(j)
      BY Zenon, <3>1, <3>2, <3>3 DEF Lifecycle!Count
    <3>4. ASSUME NEW from, rec.status \in from, NEW to, new.status = to
          PROVE  Lifecycle!Move(j, from, to)
      BY Zenon, <3>1, <3>2, <3>4 DEF Lifecycle!Move
    <3>5. Alters(rec, new)
      BY Zenon, <2>3 DEF rec, new
    <3>6. CASE /\ rec.status \in Triable /\ new.status = "provisioning"
               /\ rec.attempts < MaxAttempts
               /\ new.attempts = rec.attempts + 1 /\ new.http = rec.http
      BY Zenon, <3>1, <3>2, <3>3, <3>4, <3>6 DEF Lifecycle!Try, Lifecycle!Next, Triable
    <3>7. CASE /\ rec.status = "provisioning" /\ new.status = "ready"
               /\ new.attempts = rec.attempts /\ new.http \in Ports
      BY Zenon, <3>1, <3>2, <3>4, <3>7 DEF Lifecycle!Succeed, Lifecycle!Next, Lifecycle!Reach
    <3>8. CASE /\ rec.status = "provisioning" /\ new.status = "failed"
               /\ new.attempts = rec.attempts /\ new.http = rec.http
      BY Zenon, <3>1, <3>2, <3>4, <3>8 DEF Lifecycle!Fail, Lifecycle!Next
    <3>9. CASE /\ rec.status \in Triable /\ new.status = "failed"
               /\ rec.attempts >= MaxAttempts
               /\ new.attempts = rec.attempts + 1 /\ new.http = rec.http
      BY Zenon, <3>1, <3>2, <3>3, <3>4, <3>9 DEF Lifecycle!Abandon, Lifecycle!Next, Triable
    <3>10. CASE /\ rec.status = "ready" /\ new.status = "deleting"
                /\ new.attempts = rec.attempts /\ new.http = rec.http
      BY Zenon, <3>1, <3>2, <3>4, <3>10 DEF Lifecycle!Delete, Lifecycle!Next
    <3>11. CASE /\ rec.status = "deleting" /\ new.status = "deleted"
                /\ new.attempts = rec.attempts /\ new.http = NoPort
      BY Zenon, <3>1, <3>2, <3>4, <3>11 DEF Lifecycle!TearDown, Lifecycle!Next, Lifecycle!Reach
    <3>12. QED
      BY Zenon, <3>5, <3>6, <3>7, <3>8, <3>9, <3>10, <3>11 DEF Alters
  <2>4. QED
    BY Zenon, <1>4, <2>2, <2>3 DEF Follows
<1>5. QED
  BY Zenon, <1>3, <1>4 DEF LifeStep

-----------------------------------------------------------------------------
(* The handlers keep to it *)

\* The message of a handler is the only one of its kind for its job.
LEMMA OwnMessage ==
  ASSUME TypeInv, NEW h \in Busy
  PROVE  /\ cur[h] \in 1 .. Len(stream) /\ JobOf(h) \in Jobs
         /\ stream[cur[h]] = Provision(JobOf(h)) \/ cur[h] \in Removals(JobOf(h))
         /\ stream[cur[h]].action = "deprovision" => cur[h] \in Removals(JobOf(h))
<1>1. cur[h] \in 1 .. Len(stream) /\ JobOf(h) \in Jobs /\ stream[cur[h]] \in Message
  BY Zenon, InHandType
<1>2. stream[cur[h]] = Provision(JobOf(h)) \/ stream[cur[h]] = Deprovision(JobOf(h))
  BY Zenon, <1>1 DEF Message, Provision, Deprovision, JobOf
<1>3. stream[cur[h]].action = "deprovision" => stream[cur[h]] = Deprovision(JobOf(h))
  BY <1>2 DEF Provision
<1>4. QED
  BY Zenon, <1>1, <1>2, <1>3 DEF Removals

\* A handler that moves on has a copy that fits the record again.
LEMMA CopyMove ==
  ASSUME TypeInv, TypeInv', "put" \notin Faulty, NEW h \in Busy, Moves(h),
         RecordLives(JobOf(h)), CopyLives(h)
  PROVE  h \in Busy' => CopyLives(h)'
<1> DEFINE rec == store[JobOf(h)]
           action == stream[cur[h]].action
<1>1. /\ JobOf(h) \in Jobs /\ rec \in JobRecord /\ loc[h] \in JobRecord
      /\ action \in {"provision", "deprovision"}
  BY Zenon, InHandType DEF Message, TypeInv, HandlersOK
<1>2. UNCHANGED stream /\ OwnJob(h)
  BY Zenon DEF Moves, OwnJob
<1>3. CASE pc'[h] \in {"get", "idle", "ack"}
  BY Zenon, <1>3 DEF CopyLives, Provisioning
<1>4. CASE cur'[h] = cur[h] /\ pc'[h] \notin {"get", "idle", "ack"}
  <2>1. JobOf(h)' = JobOf(h) /\ stream'[cur'[h]] = stream[cur[h]]
    BY Zenon, <1>2, <1>4 DEF JobOf
  <2>2. /\ pc[h] \notin Writing => store'[JobOf(h)] = rec
        /\ pc[h] \in Writing => store'[JobOf(h)] = loc[h]
    BY Zenon, <1>2 DEF OwnJob
  <2>3. CASE Decides(h)
    <3> DEFINE d == Decision(action, rec)
    <3>1. pc[h] = "get" /\ pc'[h] = d[1] /\ loc'[h] = d[2]
      BY Zenon, <1>4, <2>3 DEF Decides
    <3>2. store'[JobOf(h)] = rec
      BY Zenon, <2>2, <3>1 DEF Writing
    <3> HIDE DEF rec, action
    <3>3. /\ action = "provision" => d[1] \in {"ack", "begin", "failed"}
          /\ action = "deprovision" => d[1] \in {"ack", "unregister", "teardown"}
          /\ d[1] \in {"ack", "unregister", "teardown"} => d[2] = rec
          /\ d[1] \in {"unregister", "teardown"} => rec.status # "deleted"
          /\ d[1] \in {"begin", "failed"} =>
               /\ rec.status \in Triable
               /\ d[2].status = IF d[1] = "begin" THEN "provisioning" ELSE "failed"
               /\ d[2].attempts = rec.attempts + 1 /\ d[2].http = rec.http
               /\ d[1] = "begin" => rec.attempts < MaxAttempts
               /\ d[1] = "failed" => rec.attempts >= MaxAttempts
      BY <1>1, DecisionFacts
    <3>4. action = "deprovision" => rec.status \in Leaving
      BY Zenon, OwnMessage DEF RecordLives, rec, action
    <3> HIDE DEF d
    <3>5. /\ action' = action /\ rec' = rec
      BY Zenon, <2>1, <3>2 DEF rec, action
    <3>6. CASE action = "provision"
      <4>1. d[1] \in {"begin", "failed"}
        BY Zenon, <1>4, <3>1, <3>3, <3>6
      <4>2. CASE d[1] = "begin"
        <5>1. Begins(h, rec)'
          BY Zenon, <3>1, <3>3, <3>5, <4>2 DEF Begins
        <5>2. QED
          BY Zenon, <3>1, <3>5, <3>6, <4>2, <5>1 DEF CopyLives, Provisioning, rec, action
      <4>3. CASE d[1] = "failed"
        <5>1. GivesUp(h, rec)'
          BY Zenon, <3>1, <3>3, <3>5, <4>3 DEF GivesUp
        <5>2. QED
          BY Zenon, <3>1, <3>5, <3>6, <4>3, <5>1 DEF CopyLives, Provisioning, rec, action
      <4>4. QED
        BY Zenon, <4>1, <4>2, <4>3
    <3>7. CASE action = "deprovision"
      <4>1. pc'[h] \in {"unregister", "teardown"} /\ loc'[h] = rec /\ rec.status = "deleting"
        BY Zenon, <1>4, <3>1, <3>3, <3>4, <3>7 DEF Leaving
      <4>2. QED
        BY Zenon, <3>5, <3>7, <4>1 DEF CopyLives, Provisioning, rec, action
    <3>8. QED
      BY Zenon, <1>1, <3>6, <3>7
  <2>4. CASE Advances(h)
    BY Zenon, <1>4, <2>1, <2>2, <2>4 DEF Advances, Straight, Writing, CopyLives, Provisioning, Begins
  <2>5. CASE HasPostgres(h)
    BY Zenon, <2>1, <2>2, <2>5 DEF HasPostgres, Writing, CopyLives, Provisioning
  <2>6. CASE HasHTTP(h)
    <3>1. svc'[JobOf(h)] \in Ports
      BY Zenon, <1>1, <2>6 DEF HasHTTP, TypeInv, DockerOK
    <3>2. Readies(h, store[JobOf(h)])'
      BY Zenon, <2>1, <2>2, <2>6, <3>1 DEF HasHTTP, Writing, CopyLives, Marks, Readies
    <3>3. QED
      BY Zenon, <2>1, <2>6, <3>2 DEF HasHTTP, CopyLives, Provisioning
  <2>7. CASE ProvisionErrs(h)
    <3>1. /\ action = "provision" /\ loc[h] = rec /\ rec.status = "provisioning"
          /\ store'[JobOf(h)] = rec
      BY Zenon, <2>2, <2>7 DEF ProvisionErrs, Writing, CopyLives, Provisioning
    <3>2. pc'[h] = "failed" => GivesUp(h, store[JobOf(h)])'
      BY Zenon, <2>1, <2>7, <3>1 DEF ProvisionErrs, Marks, GivesUp
    <3>3. QED
      BY Zenon, <2>1, <2>7, <3>1, <3>2 DEF ProvisionErrs, CopyLives, Provisioning
  <2>8. CASE TearsDown(h)
    <3>1. /\ action = "deprovision" /\ loc[h] = rec /\ rec.status = "deleting"
          /\ store'[JobOf(h)] = rec
      BY Zenon, <2>2, <2>8 DEF TearsDown, Writing, CopyLives, Provisioning
    <3>2. pc'[h] = "deleted" => Removes(h, store[JobOf(h)])'
      BY Zenon, <2>1, <2>8, <3>1 DEF TearsDown, Marks, Removes
    <3>3. QED
      BY Zenon, <2>1, <2>8, <3>1, <3>2 DEF TearsDown, CopyLives, Provisioning
  <2>9. CASE Returns(h)
    BY Zenon, <1>4, <2>9 DEF Returns
  <2>10. QED
    BY Zenon, <2>3, <2>4, <2>5, <2>6, <2>7, <2>8, <2>9 DEF Moves
<1>5. cur'[h] # cur[h] => pc'[h] \in {"get", "idle"}
  BY Zenon DEF Moves, Returns
<1>6. QED
  BY Zenon, <1>3, <1>4, <1>5

\* What a handler writes is a move of the lifecycle.  Before ready no DELETE is
\* about, and afterwards only the teardown writes.
LEMMA RecordMove ==
  ASSUME TypeInv, "put" \notin Faulty, UNCHANGED brokerVars, MessageInv,
         NEW h \in Busy, Moves(h), NEW j \in Jobs, j = JobOf(h), Counted(j),
         RecordLives(j), CopyLives(h)
  PROVE  /\ RecordLives(j)'
         /\ Follows(j)
         /\ \/ store'[j] = store[j]
            \/ stream[cur[h]].action = "provision" /\ store[j].status \in Triable
            \/ stream[cur[h]].action = "deprovision" /\ store[j].status = "deleting"
<1>1. /\ UNCHANGED <<stream, post, del, target, copy>>
      /\ OwnJob(h)
  BY Zenon DEF Moves, OwnJob, brokerVars
<1>2. store'[j] = store[j] \/ (pc[h] \in Writing /\ store'[j] = loc[h])
  BY Zenon, <1>1 DEF OwnJob
<1>3. CASE store'[j] = store[j]
  <2>1. Same202(j)
    BY Zenon, <1>1, <1>3 DEF Same202
  <2>2. RecordLives(j) => RecordLives(j)'
    BY Zenon, <1>1, <1>3 DEF RecordLives, Removals, Untouched, Deprovision
  <2>3. QED
    BY Zenon, <1>3, <2>1, <2>2 DEF Follows
<1>4. CASE pc[h] \in Writing /\ store'[j] = loc[h] /\ store'[j] # store[j]
  <2> DEFINE rec == store[j]
  <2>1. /\ pc[h] \in {"begin", "ready", "failed", "deleted"}
        /\ pc[h] = "begin" => Begins(h, rec)
        /\ pc[h] = "ready" => Readies(h, rec)
        /\ pc[h] = "failed" => GivesUp(h, rec)
        /\ pc[h] = "deleted" => Removes(h, rec)
    BY Zenon, <1>4 DEF CopyLives, Writing
  <2>2. /\ pc[h] \in {"begin", "ready", "failed"} => stream[cur[h]].action = "provision"
        /\ pc[h] = "deleted" => stream[cur[h]].action = "deprovision"
    BY Zenon DEF CopyLives, Provisioning
  <2>3. Alters(rec, loc[h])
    <3> HIDE DEF rec
    <3>1. QED
      BY Zenon, <2>1 DEF Alters, Begins, Readies, GivesUp, Removes
  <2>4. CASE pc[h] \in {"begin", "ready", "failed"}
    <3>1. rec.status \in Triable /\ loc[h].status \in {"provisioning", "ready", "failed"}
      BY Zenon, <2>1, <2>4 DEF Begins, Readies, GivesUp, Triable
    <3>2. post[j] = "202"
      BY Zenon, <2>2, <2>4, OwnMessage DEF MessageInv, Counted, JobOf
    <3>3. Untouched(j) /\ Removals(j) = {}
      BY Zenon, <3>1 DEF RecordLives, Untouched, Triable, Leaving
    <3>4. Untouched(j)' /\ Removals(j)' = {}
      BY Zenon, <1>1, <3>3 DEF Untouched, Removals, Deprovision
    <3>5. post'[j] = "202" /\ store'[j].status \notin Leaving
      BY Zenon, <1>1, <1>4, <3>1, <3>2 DEF Leaving
    <3>6. RecordLives(j)'
      BY Zenon, <3>4, <3>5 DEF RecordLives, Untouched
    <3>7. Follows(j)
      BY Zenon, <1>4, <2>3, <3>2, <3>5 DEF Follows
    <3>8. QED
      BY Zenon, <2>2, <2>4, <3>1, <3>6, <3>7
  <2>5. CASE pc[h] = "deleted"
    <3>1. rec.status = "deleting" /\ loc[h].status = "deleted"
      BY Zenon, <2>1, <2>5 DEF Removes
    <3>2. Removals(j) # {}
      BY Zenon, <2>2, <2>5, OwnMessage
    <3>3. post[j] = "202"
      BY <3>1 DEF RecordLives, Counted, NotFound, NewJob
    <3>4. Removals(j)' = Removals(j) /\ (Untouched(j)' <=> Untouched(j))
      BY Zenon, <1>1 DEF Untouched, Removals, Deprovision
    <3>5. post'[j] = "202" /\ store'[j].status \in Leaving
      BY Zenon, <1>1, <1>4, <3>1, <3>3 DEF Leaving
    <3>6. ~Untouched(j) /\ \A d \in Deletes : j \in target[d] => del[d] \notin {"put", "enqueue"}
      BY Zenon, <3>2 DEF RecordLives
    <3>7. \A i, k \in Removals(j) : i = k
      BY Zenon DEF RecordLives
    <3>8. RecordLives(j)'
      BY Zenon, <1>1, <3>4, <3>5, <3>6, <3>7 DEF RecordLives
    <3>9. Follows(j)
      BY Zenon, <1>4, <2>3, <3>3, <3>5 DEF Follows
    <3>10. QED
      BY Zenon, <2>2, <2>5, <3>1, <3>8, <3>9
  <2>6. QED
    BY Zenon, <2>1, <2>4, <2>5
<1>5. QED
  BY Zenon, <1>2, <1>3, <1>4

\* Two handlers of one job have messages of different kinds, so what one of
\* them writes is nothing the other is about to change.
LEMMA CopyStays ==
  ASSUME TypeInv, HandlerInv, MessageInv, UNCHANGED stream, NEW h \in Busy, NEW g \in Busy,
         g # h, JobOf(g) = JobOf(h), RecordLives(JobOf(h)), CopyLives(g),
         pc'[g] = pc[g], cur'[g] = cur[g], loc'[g] = loc[g],
         \/ /\ stream[cur[h]].action = "provision"
            /\ store[JobOf(h)].status \in Triable
         \/ /\ stream[cur[h]].action = "deprovision"
            /\ store[JobOf(h)].status = "deleting"
  PROVE  CopyLives(g)'
<1>1. PICK j \in Jobs : j = JobOf(h)
  BY Zenon, OwnMessage
<1>2. cur[g] # cur[h]
  BY Zenon DEF HandlerInv
<1>3. /\ cur[h] \in 1 .. Len(stream) /\ cur[g] \in 1 .. Len(stream)
      /\ stream[cur[h]] = Provision(j) \/ cur[h] \in Removals(j)
      /\ stream[cur[g]] = Provision(j) \/ cur[g] \in Removals(j)
      /\ stream[cur[h]].action = "deprovision" => cur[h] \in Removals(j)
      /\ stream[cur[g]].action = "deprovision" => cur[g] \in Removals(j)
  BY Zenon, <1>1, OwnMessage
<1>4. Provision(j).action = "provision" /\ (\A i \in Removals(j) : stream[i].action = "deprovision")
  BY DEF Provision, Deprovision, Removals
<1>5. /\ Removals(j) # {} => store[j].status \in Leaving
      /\ \A i, k \in Removals(j) : i = k
  BY Zenon, <1>1 DEF RecordLives
<1>6. CASE stream[cur[h]].action = "provision" /\ store[j].status \in Triable
  <2>1. stream[cur[g]] = stream[cur[h]] /\ stream[cur[h]].action = "provision"
    BY Zenon, <1>3, <1>4, <1>5, <1>6 DEF Triable, Leaving
  <2>2. QED
    BY Zenon, <1>2, <1>3, <2>1 DEF MessageInv
<1>7. CASE stream[cur[h]].action = "deprovision" /\ store[j].status = "deleting"
  <2>1. stream[cur[g]].action = "provision"
    BY Zenon, <1>2, <1>3, <1>4, <1>5, <1>7
  <2>2. pc[g] \notin {"begin", "postgres", "http", "retry", "ready", "failed",
                      "unregister", "teardown", "deleted", "stuck"}
    BY Zenon, <1>1, <1>7, <2>1 DEF CopyLives, Begins, Readies, GivesUp, Triable
  <2>3. QED
    BY Zenon, <2>1, <2>2 DEF CopyLives
<1>8. QED
  BY Zenon, <1>1, <1>6, <1>7

\* Every step of a worker is a step of the lifecycle.
LEMMA LifeWorker ==
  ASSUME TypeInv, TypeInv', HandlerInv, MessageInv, LifeInv, "put" \notin Faulty,
         WorkerNext, UNCHANGED brokerVars
  PROVE  LifeInv' /\ LifeStep
<1>1. UNCHANGED <<post, del, target, copy>> /\ \A j : Counted(j)' <=> Counted(j)
  BY Zenon DEF brokerVars, Counted
<1>2. ASSUME NEW j \in Jobs, store'[j] = store[j], UNCHANGED stream
      PROVE  Same202(j) /\ (RecordLives(j) => RecordLives(j)')
  <2>1. Same202(j)
    BY Zenon, <1>1, <1>2 DEF Same202
  <2>2. Removals(j)' = Removals(j) /\ (Untouched(j)' <=> Untouched(j))
    BY Zenon, <1>1, <1>2 DEF Removals, Untouched, Deprovision
  <2>3. RecordLives(j) => RecordLives(j)'
    BY Zenon, <1>1, <1>2, <2>2 DEF RecordLives
  <2>4. QED
    BY Zenon, <2>1, <2>3
<1>3. CASE Loops
  <2>1. UNCHANGED <<store, stream>>
    BY Zenon, <1>3 DEF Loops
  <2>2. \A j \in Jobs : Same202(j) /\ (RecordLives(j) => RecordLives(j)')
    BY Zenon, <1>2, <2>1
  <2>3. ASSUME NEW g \in Busy', Counted(JobOf(g))' PROVE CopyLives(g)'
    <3>1. CASE pc'[g] = "get"
      BY Zenon, <3>1 DEF CopyLives, Provisioning
    <3>2. CASE Same(g)
      <4>1. g \in Busy /\ pc'[g] = pc[g] /\ cur'[g] = cur[g] /\ loc'[g] = loc[g]
        BY Zenon, <3>2 DEF Same
      <4>2. JobOf(g)' = JobOf(g) /\ stream'[cur'[g]] = stream[cur[g]]
        BY Zenon, <2>1, <4>1 DEF JobOf
      <4>3. CopyLives(g)
        BY Zenon, <1>1, <2>3, <4>1, <4>2 DEF LifeInv
      <4>4. QED
        BY Zenon, <2>1, <4>1, <4>2, <4>3 DEF CopyLives, Begins, Readies, GivesUp, Removes
    <3>3. QED
      BY Zenon, <1>3, <2>3, <3>1, <3>2 DEF Loops
  <2>4. QED
    BY Zenon, <1>1, <2>2, <2>3 DEF LifeInv, LifeStep
<1>4. ASSUME NEW h \in Busy, Moves(h) PROVE LifeInv' /\ LifeStep
  <2>1. PICK j \in Jobs : j = JobOf(h)
    BY Zenon, OwnMessage
  <2>2. /\ UNCHANGED stream
        /\ \A k \in Jobs \ {j} : store'[k] = store[k]
        /\ \A g \in Handlers \ {h} : pc'[g] = pc[g] /\ cur'[g] = cur[g] /\ loc'[g] = loc[g]
    BY Zenon, <1>4, <2>1 DEF Moves, OwnJob, Others
  <2>3. Counted(j) => RecordLives(j) /\ CopyLives(h)
    BY Zenon, <1>4, <2>1 DEF LifeInv
  <2>4. Counted(j) =>
          /\ RecordLives(j)'
          /\ Follows(j)
          /\ \/ store'[j] = store[j]
             \/ stream[cur[h]].action = "provision" /\ store[j].status \in Triable
             \/ stream[cur[h]].action = "deprovision" /\ store[j].status = "deleting"
    BY Zenon, <1>4, <2>1, <2>3, RecordMove
  <2>5. ~Counted(j) => Same202(j)
    BY Zenon, <1>1 DEF Same202, Counted
  <2>6. \A k \in Jobs \ {j} : Same202(k) /\ (RecordLives(k) => RecordLives(k)')
    BY Zenon, <1>2, <2>2
  <2>7. LifeStep
    BY Zenon, <2>4, <2>5, <2>6 DEF LifeStep, Follows
  <2>8. \A k \in Jobs : Counted(k)' => RecordLives(k)'
    BY Zenon, <1>1, <2>4, <2>6 DEF LifeInv
  <2>9. ASSUME NEW g \in Busy', Counted(JobOf(g))' PROVE CopyLives(g)'
    <3>1. CASE g = h /\ cur'[h] # cur[h]
      <4>1. pc'[h] \in {"get", "idle"}
        BY Zenon, <1>4, <3>1 DEF Moves, Returns
      <4>2. QED
        BY Zenon, <3>1, <4>1 DEF CopyLives, Provisioning
    <3>2. CASE g = h /\ cur'[h] = cur[h]
      <4>1. Counted(j)
        BY Zenon, <1>1, <2>1, <2>2, <2>9, <3>2 DEF JobOf
      <4>2. QED
        BY Zenon, <1>4, <2>1, <2>3, <2>9, <3>2, <4>1, CopyMove
    <3>3. CASE g # h
      <4>1. g \in Busy /\ pc'[g] = pc[g] /\ cur'[g] = cur[g] /\ loc'[g] = loc[g]
        BY Zenon, <2>2, <2>9, <3>3 DEF Busy
      <4>2. JobOf(g)' = JobOf(g) /\ stream'[cur'[g]] = stream[cur[g]] /\ JobOf(g) \in Jobs
        BY Zenon, <2>2, <4>1, OwnMessage DEF JobOf
      <4>3. CopyLives(g)
        BY Zenon, <1>1, <2>9, <4>1, <4>2 DEF LifeInv
      <4>4. CASE store'[JobOf(g)] = store[JobOf(g)]
        BY Zenon, <4>1, <4>2, <4>3, <4>4 DEF CopyLives, Begins, Readies, GivesUp, Removes
      <4>5. CASE store'[JobOf(g)] # store[JobOf(g)]
        <5>1. JobOf(g) = j
          BY Zenon, <2>2, <4>2, <4>5
        <5>2. Counted(j)
          BY Zenon, <1>1, <2>9, <4>2, <5>1
        <5>3. QED
          BY Zenon, <1>4, <2>1, <2>2, <2>3, <2>4, <3>3, <4>1, <4>3, <4>5, <5>1, <5>2, CopyStays
      <4>6. QED
        BY Zenon, <4>4, <4>5
    <3>4. QED
      BY Zenon, <3>1, <3>2, <3>3
  <2>10. QED
    BY Zenon, <1>1, <2>7, <2>8, <2>9 DEF LifeInv
<1>5. QED
  BY Zenon, <1>3, <1>4, WorkerMoves

-----------------------------------------------------------------------------
(* So does the broker, for clients that wait for ready *)

\* Step by step, what a request leaves alone: job k, its messages and the
\* DELETEs that name it, unless they end.
Aside(k) ==
  /\ store'[k] = store[k]
  /\ post'[k] = post[k] \/ ~Counted(k)'
  /\ Removals(k)' = Removals(k)
  /\ \A d \in Deletes :
       /\ k \in target'[d] <=> k \in target[d]
       /\ k \in target[d] => \/ del'[d] = del[d] /\ copy'[d] = copy[d]
                             \/ del'[d] \notin {"put", "enqueue"}

LEMMA AsideLives ==
  ASSUME NEW k \in Jobs, Aside(k), Counted(k) => RecordLives(k)
  PROVE  Counted(k)' => RecordLives(k)'
<1> SUFFICES ASSUME Counted(k)' PROVE RecordLives(k)'
  OBVIOUS
<1>1. post'[k] = post[k] /\ store'[k] = store[k] /\ Removals(k)' = Removals(k) /\ RecordLives(k)
  BY Zenon DEF Aside, Counted
<1>2. Untouched(k)' <=> Untouched(k)
  BY Zenon DEF Aside, Untouched
<1>3. ASSUME NEW d \in Deletes, k \in target'[d]
      PROVE  /\ k \in target[d]
             /\ \/ del'[d] = del[d] /\ copy'[d] = copy[d]
                \/ del'[d] \notin {"put", "enqueue"}
  BY Zenon, <1>3 DEF Aside
<1>4. ASSUME NEW d \in Deletes, k \in target'[d]
      PROVE  /\ store'[k].status \in {"ready"} \cup Leaving
             /\ del'[d] \in {"put", "enqueue"} => Removals(k)' = {}
             /\ del'[d] = "enqueue" => store'[k].status = "deleting"
             /\ del'[d] = "put" =>
                  /\ store'[k].status = "ready"
                  /\ copy'[d].status = "deleting"
                  /\ copy'[d].attempts = store'[k].attempts
                  /\ copy'[d].http = store'[k].http
  BY Zenon, <1>1, <1>3, <1>4 DEF RecordLives
<1>5. QED
  BY Zenon, <1>1, <1>2, <1>4 DEF RecordLives

\* A request changes a record only where no handler is about to write it.
LEMMA CopiesAside ==
  ASSUME TypeInv, LifeInv, Grown, UNCHANGED workerVars,
         \A j \in Jobs : Counted(j)' =>
           /\ Counted(j)
           /\ \/ store'[j] = store[j]
              \/ Removals(j) = {} /\ store[j].status \notin Triable
  PROVE  \A h \in Busy' : Counted(JobOf(h))' => CopyLives(h)'
<1>1. UNCHANGED <<pc, cur, loc>> /\ Busy' = Busy
  BY Zenon DEF workerVars, handlerVars, Busy
<1> SUFFICES ASSUME NEW h \in Busy, Counted(JobOf(h))' PROVE CopyLives(h)'
  BY Zenon, <1>1
<1>2. /\ cur[h] \in 1 .. Len(stream) /\ JobOf(h) \in Jobs
      /\ stream[cur[h]].action = "deprovision" => Removals(JobOf(h)) # {}
  BY Zenon, OwnMessage
<1>3. stream'[cur'[h]] = stream[cur[h]] /\ JobOf(h)' = JobOf(h)
  BY Zenon, <1>1, <1>2 DEF Grown, JobOf
<1>4. /\ CopyLives(h)
      /\ \/ store'[JobOf(h)] = store[JobOf(h)]
         \/ Removals(JobOf(h)) = {} /\ store[JobOf(h)].status \notin Triable
  BY Zenon, <1>2, <1>3 DEF LifeInv
<1>5. CASE store'[JobOf(h)] = store[JobOf(h)]
  BY Zenon, <1>1, <1>3, <1>4, <1>5 DEF CopyLives, Begins, Readies, GivesUp, Removes
<1>6. CASE Removals(JobOf(h)) = {} /\ store[JobOf(h)].status \notin Triable
  <2>1. pc[h] \notin {"begin", "postgres", "http", "retry", "ready", "failed",
                      "unregister", "teardown", "deleted", "stuck"}
    BY Zenon, <1>2, <1>4, <1>6 DEF CopyLives, Begins, Readies, GivesUp, Triable
  <2>2. QED
    BY Zenon, <1>1, <1>3, <1>4, <2>1 DEF CopyLives
<1>7. QED
  BY Zenon, <1>4, <1>5, <1>6

\* The requests that only touch job j and leave it in order do so for all.
LEMMA LifeRequest ==
  ASSUME TypeInv, LifeInv, Grown, UNCHANGED workerVars, NEW j \in Jobs,
         \A k \in Jobs \ {j} : Aside(k),
         Counted(j)' => /\ Counted(j) /\ RecordLives(j)'
                        /\ \/ store'[j] = store[j]
                           \/ Removals(j) = {} /\ store[j].status \notin Triable,
         \A d \in Deletes : \A i, k \in target'[d] : i = k
  PROVE  LifeInv'
<1>1. \A k \in Jobs : Counted(k)' => RecordLives(k)'
  BY Zenon, AsideLives DEF LifeInv
<1>2. \A k \in Jobs : Counted(k)' =>
           /\ Counted(k)
           /\ \/ store'[k] = store[k]
              \/ Removals(k) = {} /\ store[k].status \notin Triable
  BY Zenon DEF Aside, Counted
<1>3. \A h \in Busy' : Counted(JobOf(h))' => CopyLives(h)'
  BY Zenon, <1>2, CopiesAside
<1>4. QED
  BY Zenon, <1>1, <1>3 DEF LifeInv

\* Every step of the broker is a step of the lifecycle (api.go 40-181).
LEMMA LifeBroker ==
  ASSUME TypeInv, RequestInv, MessageInv, LifeInv, "put" \notin Faulty,
         OneDeleteEach, OneDeleteEach', Patient, BrokerNext, UNCHANGED workerVars
  PROVE  LifeInv' /\ LifeStep
<1>1. /\ post \in [Jobs -> PostStates] /\ del \in [Deletes -> DelStates]
      /\ target \in [Deletes -> SUBSET Jobs]
      /\ copy \in [Deletes -> JobRecord] /\ store \in [Jobs -> JobRecord]
      /\ stream \in Seq(Message) /\ Len(stream) \in Nat
  BY DEF TypeInv, BrokerTypeOK, QueueTypeOK
<1>2. Grown /\ ~Fails("put")
  BY Zenon, BrokerMessages DEF Fails
<1>3. \A d \in Deletes : \A i, k \in target[d] : i = k
  BY Zenon DEF LifeInv
<1>4. \A j \in Jobs : Counted(j) => RecordLives(j)
  BY Zenon DEF LifeInv
<1>5. UNCHANGED stream => \A k : Removals(k)' = Removals(k)
  BY Zenon DEF Removals, Deprovision
<1>6. UNCHANGED queueVars => UNCHANGED stream
  BY Zenon DEF queueVars
<1>7. ASSUME UNCHANGED <<store, stream, target, copy>>,
             \A k \in Jobs : post'[k] = post[k] \/ (post'[k] = "lost" /\ post[k] # "202"),
             \A d \in Deletes : del'[d] \in {del[d], "lost"}
      PROVE  LifeInv' /\ LifeStep
  <2>1. \A k \in Jobs : Aside(k)
    BY Zenon, <1>5, <1>7 DEF Aside, Counted
  <2>2. \A k \in Jobs : Counted(k)' => Counted(k) /\ RecordLives(k)' /\ store'[k] = store[k]
    <3>1. \A k \in Jobs : Counted(k)' => Counted(k) /\ store'[k] = store[k]
      BY Zenon, <1>7 DEF Counted
    <3>2. QED
      BY Zenon, <1>4, <2>1, <3>1, AsideLives
  <2>3. \A h \in Busy' : Counted(JobOf(h))' => CopyLives(h)'
    BY Zenon, <1>2, <2>2, CopiesAside
  <2>4. LifeInv'
    BY Zenon, <1>3, <1>7, <2>2, <2>3 DEF LifeInv
  <2>5. \A k \in Jobs : Same202(k)
    BY Zenon, <1>7 DEF Same202
  <2>6. QED
    BY Zenon, <2>4, <2>5 DEF LifeStep
<1>8. CASE BrokerStart
  BY Zenon, <1>7, <1>8 DEF BrokerStart, EnsureGroup
<1>9. CASE BrokerCrash
  <2>1. \A k \in Jobs : post'[k] = post[k] \/ (post'[k] = "lost" /\ post[k] # "202")
    BY Zenon, <1>9 DEF BrokerCrash, InFlight
  <2>2. \A d \in Deletes : del'[d] \in {del[d], "lost"}
    BY Zenon, <1>9 DEF BrokerCrash, InFlight
  <2>3. QED
    BY Zenon, <1>6, <1>7, <1>9, <2>1, <2>2 DEF BrokerCrash
<1>10. ASSUME NEW j \in Jobs, UNCHANGED <<del, target, copy>>,
              \A k \in Jobs \ {j} : post'[k] = post[k] /\ store'[k] = store[k],
              \A k \in Jobs : Removals(k)' = Removals(k)
       PROVE  /\ \A k \in Jobs \ {j} : Aside(k) /\ Same202(k)
              /\ \A d \in Deletes : \A i, k \in target'[d] : i = k
  BY Zenon, <1>3, <1>10 DEF Aside, Same202
<1>11. ASSUME NEW j \in Jobs, PostPut(j) PROVE LifeInv' /\ LifeStep
  <2>1. /\ UNCHANGED <<stream, del, target, copy>>
        /\ post[j] = "new" /\ post'[j] = "enqueue" /\ store'[j] = NewJob
        /\ \A k \in Jobs \ {j} : post'[k] = post[k] /\ store'[k] = store[k]
    BY Zenon, <1>1, <1>2, <1>6, <1>11 DEF PostPut, PostGoto, Put
  <2>2. /\ \A k \in Jobs \ {j} : Aside(k) /\ Same202(k)
        /\ \A d \in Deletes : \A i, k \in target'[d] : i = k
    BY Zenon, <1>5, <1>10, <2>1
  <2>3. Counted(j) /\ RecordLives(j) /\ store[j].status = "absent"
    <3>1. Counted(j) /\ RecordLives(j)
      BY Zenon, <1>4, <2>1 DEF Counted
    <3>2. store[j] = NotFound
      BY Zenon, <2>1, <3>1 DEF RecordLives
    <3>3. QED
      BY <3>1, <3>2 DEF NotFound
  <2>4. /\ Untouched(j) /\ Removals(j) = {} /\ store[j].status \notin Triable
    BY Zenon, <2>3 DEF RecordLives, Untouched, Triable, Leaving
  <2>5. Untouched(j)' /\ Removals(j)' = {} /\ store'[j].status \notin Leaving
    BY <1>5, <2>1, <2>4 DEF Untouched, NewJob, Leaving
  <2>6. RecordLives(j)'
    BY Zenon, <2>1, <2>5 DEF RecordLives, Untouched
  <2>7. LifeInv'
    BY Zenon, <1>2, <2>2, <2>3, <2>4, <2>6, LifeRequest
  <2>8. Same202(j)
    BY Zenon, <2>1 DEF Same202
  <2>9. QED
    BY Zenon, <2>2, <2>7, <2>8 DEF LifeStep, Follows
<1>12. ASSUME NEW j \in Jobs, PostEnqueue(j) PROVE LifeInv' /\ LifeStep
  <2>1. /\ UNCHANGED <<store, del, target, copy>>
        /\ post[j] = "enqueue" /\ post'[j] \in {"202", "compensate"}
        /\ \A k \in Jobs \ {j} : post'[k] = post[k]
        /\ Enqueue(Provision(j)) \/ UNCHANGED stream
    BY Zenon, <1>1, <1>6, <1>12 DEF PostEnqueue, PostGoto
  <2>2. \A k \in Jobs : Removals(k)' = Removals(k)
    <3>1. CASE Enqueue(Provision(j))
      <4>1. Provision(j) \in Message
        BY Zenon DEF Provision, Message
      <4>2. /\ Len(stream') = Len(stream) + 1 /\ stream'[Len(stream) + 1] = Provision(j)
            /\ \A i \in 1 .. Len(stream) : stream'[i] = stream[i]
        BY <1>1, <3>1, <4>1 DEF Enqueue
      <4>3. /\ 1 .. Len(stream') = 1 .. Len(stream) \cup {Len(stream) + 1}
            /\ \A k : Deprovision(k)' = Deprovision(k) /\ Deprovision(k) # Provision(j)
        BY <1>1, <4>2 DEF Deprovision, Provision
      <4>4. QED
        BY Zenon, <4>2, <4>3 DEF Removals
    <3>2. QED
      BY Zenon, <1>5, <2>1, <3>1
  <2>3. /\ \A k \in Jobs \ {j} : Aside(k) /\ Same202(k)
        /\ \A d \in Deletes : \A i, k \in target'[d] : i = k
    BY Zenon, <1>10, <2>1, <2>2
  <2>4. Counted(j) /\ RecordLives(j) /\ store[j] = NewJob
    BY Zenon, <1>4, <2>1 DEF Counted, RecordLives
  <2>5. post'[j] = "202" => RecordLives(j)'
    <3>1. Removals(j)' = Removals(j) /\ store'[j] = store[j] /\ (Untouched(j)' <=> Untouched(j))
      BY Zenon, <2>1, <2>2 DEF Untouched
    <3>2. QED
      BY Zenon, <2>1, <2>4, <3>1 DEF RecordLives
  <2>6. Counted(j)' => Counted(j) /\ RecordLives(j)' /\ store'[j] = store[j]
    BY Zenon, <2>1, <2>4, <2>5 DEF Counted
  <2>7. LifeInv'
    BY Zenon, <1>2, <2>3, <2>6, LifeRequest
  <2>8. Follows(j)
    BY Zenon, <2>1, <2>4 DEF Follows, Same202
  <2>9. QED
    BY Zenon, <2>3, <2>7, <2>8 DEF LifeStep
<1>13. ASSUME NEW j \in Jobs, PostCompensate(j) PROVE LifeInv' /\ LifeStep
  <2>1. /\ UNCHANGED <<stream, del, target, copy>>
        /\ post[j] = "compensate" /\ post'[j] = "500"
        /\ \A k \in Jobs \ {j} : post'[k] = post[k] /\ store'[k] = store[k]
    BY Zenon, <1>1, <1>2, <1>6, <1>13 DEF PostCompensate, PostGoto, Put
  <2>2. /\ \A k \in Jobs \ {j} : Aside(k) /\ Same202(k)
        /\ \A d \in Deletes : \A i, k \in target'[d] : i = k
    BY Zenon, <1>5, <1>10, <2>1
  <2>3. ~Counted(j)' /\ Same202(j)
    BY Zenon, <2>1 DEF Counted, Same202
  <2>4. LifeInv'
    BY Zenon, <1>2, <2>2, <2>3, LifeRequest
  <2>5. QED
    BY Zenon, <2>2, <2>3, <2>4 DEF LifeStep, Follows
<1>14. ASSUME NEW d \in Deletes, NEW j \in Jobs, DelGet(d, j) PROVE LifeInv' /\ LifeStep
  <2>1. /\ UNCHANGED <<store, stream, post>> /\ del[d] = "new"
        /\ target' = [target EXCEPT ![d] = {j}]
    BY Zenon, <1>6, <1>14 DEF DelGet, DelGoto
  <2>2. \A e \in Deletes : e # d => del'[e] = del[e] /\ copy'[e] = copy[e] /\ target'[e] = target[e]
    BY Zenon, <1>1, <1>14, <2>1 DEF DelGet, DelGoto
  <2>3. /\ del'[d] \in {DelRoute(store[j].status), "500"}
        /\ del'[d] = DelRoute(store[j].status) /\ del'[d] = "put" =>
             copy'[d] = [store[j] EXCEPT !.status = "deleting"]
    <3> DEFINE route == DelRoute(store[j].status)
    <3>1. CASE DelGoto(d, "500")
      <4>1. del'[d] = "500"
        BY Zenon, <1>1, <3>1 DEF DelGoto
      <4>2. QED
        BY Zenon, <4>1
    <3>2. CASE /\ DelGoto(d, route)
               /\ copy' = [copy EXCEPT ![d] = IF route = "put"
                    THEN [store[j] EXCEPT !.status = "deleting"] ELSE NotFound]
      <4> HIDE DEF route
      <4>1. del'[d] = route
        BY Zenon, <1>1, <3>2 DEF DelGoto
      <4>2. route = "put" => copy'[d] = [store[j] EXCEPT !.status = "deleting"]
        BY Zenon, <1>1, <3>2
      <4>3. QED
        BY Zenon, <4>1, <4>2 DEF route
    <3>3. QED
      BY Zenon, <1>14, <3>1, <3>2 DEF DelGet
  <2>4. target[d] = {} /\ target'[d] = {j} /\ del'[d] # "new"
    BY Zenon, <1>1, <2>1, <2>3 DEF RequestInv, DelRoute
  <2>5. \A e \in Deletes : j \notin target[e]
    BY Zenon, <2>2, <2>4 DEF OneDeleteEach
  <2>6. \A k \in Jobs \ {j} : Aside(k)
    BY Zenon, <1>5, <2>1, <2>2, <2>4 DEF Aside
  <2>7. \A e \in Deletes : \A i, k \in target'[e] : i = k
    <3>1. \A e \in Deletes : target'[e] = {j} \/ target'[e] = target[e]
      BY Zenon, <2>2, <2>4
    <3>2. QED
      BY Zenon, <1>3, <3>1
  <2>8. \A k \in Jobs : Same202(k)
    BY Zenon, <2>1 DEF Same202
  <2>9. ASSUME Counted(j) PROVE RecordLives(j)'
    <3>1. RecordLives(j) /\ Removals(j)' = Removals(j) /\ UNCHANGED <<store, post>>
      BY Zenon, <1>4, <1>5, <2>1, <2>9
    <3>2. store[j].status \notin Leaving /\ Removals(j) = {}
      BY Zenon, <2>5, <3>1 DEF RecordLives, Untouched
    <3>3. store[j].status \in {"ready", "deleting", "deleted"}
      BY Zenon, <2>1, <2>4 DEF Patient
    <3>4. store[j].status = "ready" /\ del'[d] \in {"put", "500"}
      BY Zenon, <2>3, <3>2, <3>3 DEF Leaving, DelRoute
    <3>5. del'[d] = "put" => /\ copy'[d].status = "deleting"
                             /\ copy'[d].attempts = store[j].attempts
                             /\ copy'[d].http = store[j].http
      <4>1. store[j] \in JobRecord
        BY Zenon, <1>1
      <4>2. del'[d] = "put" => copy'[d] = [store[j] EXCEPT !.status = "deleting"]
        BY Zenon, <2>3, <3>4
      <4>3. QED
        BY Zenon, <4>1, <4>2 DEF JobRecord
    <3>6. \A e \in Deletes : j \in target'[e] => e = d
      BY Zenon, <2>2, <2>5
    <3>7. ~Untouched(j)'
      BY Zenon, <2>4 DEF Untouched
    <3>8. QED
      BY Zenon, <3>1, <3>2, <3>4, <3>5, <3>6, <3>7 DEF RecordLives
  <2>10. Counted(j)' => Counted(j) /\ RecordLives(j)' /\ store'[j] = store[j]
    BY Zenon, <2>1, <2>9 DEF Counted
  <2>11. LifeInv'
    BY Zenon, <1>2, <2>6, <2>7, <2>10, LifeRequest
  <2>12. QED
    BY Zenon, <2>8, <2>11 DEF LifeStep
<1>15. ASSUME NEW d \in Deletes, NEW j \in Jobs, DelPut(d, j) PROVE LifeInv' /\ LifeStep
  <2>1. /\ UNCHANGED <<stream, post, target>> /\ del[d] = "put" /\ j \in target[d]
        /\ del'[d] = "enqueue" /\ store'[j] = copy[d]
        /\ \A k \in Jobs \ {j} : store'[k] = store[k]
        /\ \A e \in Deletes : e # d => del'[e] = del[e] /\ copy'[e] = copy[e]
    BY Zenon, <1>1, <1>2, <1>6, <1>15 DEF DelPut, DelGoto, Put
  <2>2. \A k \in Jobs \ {j} : k \notin target[d]
    BY Zenon, <1>3, <2>1
  <2>3. \A e \in Deletes : j \in target[e] => e = d
    BY Zenon, <2>1 DEF OneDeleteEach
  <2>4. \A k \in Jobs \ {j} : Aside(k) /\ Same202(k)
    BY Zenon, <1>5, <2>1, <2>2 DEF Aside, Same202
  <2>5. ASSUME Counted(j)
        PROVE  /\ RecordLives(j)' /\ Removals(j) = {} /\ store[j].status = "ready"
               /\ Alters(store[j], store'[j])
    <3>1. RecordLives(j) /\ Removals(j)' = Removals(j)
      BY Zenon, <1>4, <1>5, <2>1, <2>5
    <3>2. /\ store[j].status = "ready" /\ Removals(j) = {}
          /\ copy[d].status = "deleting"
          /\ copy[d].attempts = store[j].attempts /\ copy[d].http = store[j].http
      BY Zenon, <2>1, <3>1 DEF RecordLives
    <3>3. ~Untouched(j)' /\ post[j] = "202"
      BY <2>1, <2>5, <3>1, <3>2 DEF Untouched, RecordLives, Counted, NotFound, NewJob
    <3>4. RecordLives(j)'
      BY Zenon, <2>1, <2>3, <3>1, <3>2, <3>3 DEF RecordLives, Leaving
    <3>5. QED
      BY Zenon, <2>1, <3>2, <3>4 DEF Alters
  <2>6. Counted(j)' => /\ Counted(j) /\ RecordLives(j)'
                       /\ Removals(j) = {} /\ store[j].status \notin Triable
    BY Zenon, <2>1, <2>5 DEF Counted, Triable
  <2>7. LifeInv'
    BY Zenon, <1>2, <1>3, <2>1, <2>4, <2>6, LifeRequest
  <2>8. Follows(j)
    <3>1. post[j] = "202" => Counted(j)
      BY Zenon DEF Counted
    <3>2. QED
      BY Zenon, <2>1, <2>5, <3>1 DEF Follows, Same202
  <2>9. QED
    BY Zenon, <2>4, <2>7, <2>8 DEF LifeStep
<1>16. ASSUME NEW d \in Deletes, NEW j \in Jobs, DelEnqueue(d, j) PROVE LifeInv' /\ LifeStep
  <2>1. /\ UNCHANGED <<store, post, target>> /\ del[d] = "enqueue" /\ j \in target[d]
        /\ del'[d] \in {"202", "500"} /\ UNCHANGED copy
        /\ \A e \in Deletes : e # d => del'[e] = del[e]
        /\ Enqueue(Deprovision(j)) \/ UNCHANGED stream
    BY Zenon, <1>1, <1>6, <1>16 DEF DelEnqueue, DelGoto
  <2>2. /\ \A k \in Jobs \ {j} : Removals(k)' = Removals(k)
        /\ Removals(j)' \subseteq Removals(j) \cup {Len(stream) + 1}
    <3>1. CASE Enqueue(Deprovision(j))
      <4>1. Deprovision(j) \in Message
        BY Zenon DEF Deprovision, Message
      <4>2. /\ Len(stream') = Len(stream) + 1 /\ stream'[Len(stream) + 1] = Deprovision(j)
            /\ \A i \in 1 .. Len(stream) : stream'[i] = stream[i]
        BY <1>1, <3>1, <4>1 DEF Enqueue
      <4>3. /\ 1 .. Len(stream') = 1 .. Len(stream) \cup {Len(stream) + 1}
            /\ \A k : Deprovision(k)' = Deprovision(k)
            /\ \A k : k # j => Deprovision(k) # Deprovision(j)
        BY <1>1, <4>2 DEF Deprovision
      <4>4. QED
        BY Zenon, <4>2, <4>3 DEF Removals
    <3>2. QED
      BY Zenon, <1>5, <2>1, <3>1
  <2>3. \A e \in Deletes : j \in target[e] => e = d
    BY Zenon, <2>1 DEF OneDeleteEach
  <2>4. \A k \in Jobs : Same202(k)
    BY Zenon, <2>1 DEF Same202
  <2>5. \A k \in Jobs \ {j} : Aside(k)
    BY Zenon, <2>1, <2>2 DEF Aside
  <2>6. ASSUME Counted(j) PROVE RecordLives(j)'
    <3>1. RecordLives(j)
      BY Zenon, <1>4, <2>6
    <3>2. store[j].status = "deleting" /\ Removals(j) = {}
      BY Zenon, <2>1, <3>1 DEF RecordLives
    <3>3. /\ ~Untouched(j)' /\ store'[j].status = "deleting"
          /\ \A i, k \in Removals(j)' : i = k
          /\ \A e \in Deletes : j \in target'[e] => del'[e] \notin {"put", "enqueue"}
      BY Zenon, <2>1, <2>2, <2>3, <3>2 DEF Untouched
    <3>4. post'[j] = post[j] /\ store'[j] = store[j]
      BY Zenon, <2>1
    <3>5. QED
      BY Zenon, <3>1, <3>2, <3>3, <3>4 DEF RecordLives, Leaving
  <2>7. Counted(j)' => Counted(j) /\ RecordLives(j)' /\ store'[j] = store[j]
    BY Zenon, <2>1, <2>6 DEF Counted
  <2>8. LifeInv'
    BY Zenon, <1>2, <1>3, <2>1, <2>5, <2>7, LifeRequest
  <2>9. QED
    BY Zenon, <2>4, <2>8 DEF LifeStep
<1>17. QED
  BY Zenon, <1>8, <1>9, <1>11, <1>12, <1>13, <1>14, <1>15, <1>16 DEF BrokerNext, BrokerStep

-----------------------------------------------------------------------------
(* Every step is a step of the lifecycle *)

LEMMA LifeInit == Init => LifeInv /\ Lifecycle!Init
<1> SUFFICES ASSUME Init PROVE LifeInv /\ Lifecycle!Init
  OBVIOUS
<1>1. /\ stream = << >> /\ store = [j \in Jobs |-> NotFound] /\ post = [j \in Jobs |-> "new"]
      /\ target = [d \in Deletes |-> {}] /\ pc = [h \in Handlers |-> "down"]
  BY Zenon DEF Init, QueueInit, BrokerInit, StoreInit, WorkerInit
<1>2. Busy = {}
  BY Zenon, <1>1 DEF Busy
<1>3. ASSUME NEW j \in Jobs PROVE RecordLives(j)
  <2>1. post[j] = "new" /\ store[j] = NotFound /\ Removals(j) = {} /\ Untouched(j)
    BY <1>1 DEF Removals, Untouched
  <2>2. store[j].status \notin Leaving
    BY <2>1 DEF NotFound, Leaving
  <2>3. QED
    BY Zenon, <2>1, <2>2 DEF RecordLives, Untouched
<1>4. LifeInv
  BY Zenon, <1>1, <1>2, <1>3 DEF LifeInv
<1>5. \A j \in Jobs : post[j] # "202"
  BY Zenon, <1>1
<1>6. \A j \in Jobs : /\ Seen(j, store[j].status, "absent") = "absent"
                      /\ Seen(j, store[j].attempts, 0) = 0
                      /\ Seen(j, store[j].http, NoPort) = NoPort
  BY Zenon, <1>5 DEF Seen
<1>7. Lifecycle!Init
  BY Zenon, <1>6 DEF Lifecycle!Init
<1>8. QED
  BY Zenon, <1>4, <1>7

\* As long as a message has one handler at most, every step of the system
\* under patient clients maps to a step of JobLifecycle.
LEMMA LifeNext ==
  ASSUME "put" \notin Faulty, TypeInv, TypeInv', RequestInv, HandlerInv, MessageInv, LifeInv,
         OneDeleteEach, OneDeleteEach', [Next /\ Patient]_vars
  PROVE  LifeInv' /\ [Lifecycle!Next]_(Lifecycle!vars)
<1>1. CASE BrokerNext /\ UNCHANGED workerVars /\ Patient
  BY Zenon, <1>1, LifeBroker, LifeStepMaps
<1>2. CASE WorkerNext /\ UNCHANGED brokerVars
  BY Zenon, <1>2, LifeWorker, LifeStepMaps
<1>3. CASE UNCHANGED vars
  <2>1. UNCHANGED <<store, stream, post, del, target, copy, pc, cur, loc>>
    BY Zenon, <1>3 DEF vars, queueVars, brokerVars, workerVars, handlerVars
  <2>2. LifeStep
    BY Zenon, <2>1 DEF LifeStep, Same202
  <2>3. ASSUME NEW j \in Jobs, RecordLives(j) PROVE RecordLives(j)'
    <3>1. Removals(j)' = Removals(j) /\ (Untouched(j)' <=> Untouched(j))
      BY Zenon, <2>1 DEF Removals, Untouched, Deprovision
    <3>2. store'[j] = store[j] /\ post'[j] = post[j]
      BY Zenon, <2>1
    <3>3. QED
      BY Zenon, <2>1, <2>3, <3>1, <3>2 DEF RecordLives
  <2>4. \A h \in Handlers : JobOf(h)' = JobOf(h)
    BY Zenon, <2>1 DEF JobOf
  <2>5. ASSUME NEW h \in Handlers, CopyLives(h) PROVE CopyLives(h)'
    <3>1. /\ pc'[h] = pc[h] /\ cur'[h] = cur[h] /\ loc'[h] = loc[h]
          /\ store'[JobOf(h)] = store[JobOf(h)]
          /\ JobOf(h)' = JobOf(h) /\ stream'[cur'[h]] = stream[cur[h]]
      BY Zenon, <2>1, <2>4
    <3>2. QED
      BY Zenon, <2>5, <3>1 DEF CopyLives, Begins, Readies, GivesUp, Removes
  <2>6. LifeInv'
    BY Zenon, <2>1, <2>3, <2>4, <2>5 DEF LifeInv, Counted, Busy
  <2>7. QED
    BY Zenon, <2>2, <2>6, LifeStepMaps
<1>4. QED
  BY Zenon, <1>1, <1>2, <1>3 DEF Next

====
