-------------------------- MODULE InfraforgeMoves ---------------------------
(***************************************************************************)
(* Type correctness of the control plane, and what a step of it may do,    *)
(* said once: a move of a handler that has a message, a step of the loops  *)
(* of a worker, a step of a request.  Both hold for any jobs, workers,     *)
(* requests, faults and bounds and with handlers that outlast              *)
(* ReclaimMinIdle and work on the same message at once.                    *)
(*                                                                         *)
(* TypeOK is not inductive by itself: which job a handler works on has a   *)
(* type only if it has a message in hand, and a route has one only if the  *)
(* record it is made from has an endpoint.                                 *)
(***************************************************************************)
EXTENDS Infraforge, TLAPS, Integers

-----------------------------------------------------------------------------
(* Types *)

\* A busy handler has a message of the stream, and a record that is about to
\* be routed or unrouted has an endpoint.
InHandOK ==
  \A h \in Handlers :
    /\ h \in Busy => cur[h] \in 1 .. Len(stream)
    /\ pc[h] \in {"ready", "register", "unregister"} => loc[h].http \in Ports

\* The types of the handlers, apart from those of Docker and the registry.
HandlersOK ==
  /\ pc \in [Handlers -> Labels]
  /\ cur \in [Handlers -> 0 .. Len(stream)]
  /\ loc \in [Handlers -> JobRecord]
  /\ batch \in [Handlers -> SUBSET (1 .. Len(stream))]
  /\ prompt \in [Handlers -> BOOLEAN]
  /\ InHandOK

\* The types of what Docker and the registry hold.
DockerOK ==
  /\ pg \in [Jobs -> BOOLEAN]
  /\ svc \in [Jobs -> Ports \cup {NoPort}]
  /\ routes \subseteq Services \X Ports
  /\ calls \in [Jobs -> Nat]

TypeInv ==
  /\ store \in [Jobs -> JobRecord]
  /\ QueueTypeOK
  /\ FaultTypeOK
  /\ BrokerTypeOK
  /\ HandlersOK
  /\ DockerOK

\* The ways an operation of queue.go changes the queue.
QueueStep ==
  \/ EnsureGroup
  \/ \E m \in Message : Enqueue(m)
  \/ Deliver
  \/ \E B \in Claimable : Claim(B)
  \/ \E i \in Nat : Ack(i) \/ BecomeIdle(i)
  \/ \E e \in DeadEntry : DeadLetter(e)
  \/ UNCHANGED queueVars

\* The stream only grows at its end.
Grown ==
  /\ Len(stream) <= Len(stream')
  /\ \A i \in 1 .. Len(stream) : stream'[i] = stream[i]

-----------------------------------------------------------------------------
\* A dead-letter write keeps a sequence of entries.
LEMMA DeadLetterType ==
  ASSUME dead \in Seq(DeadEntry), NEW e \in DeadEntry, DeadLetter(e)
  PROVE  dead' \in Seq(DeadEntry)
<1> DEFINE grown == Append(dead, e)
<1>1. grown \in Seq(DeadEntry)
  OBVIOUS
<1>2. PICK cut \in 0 .. Len(grown) : dead' = SubSeq(grown, cut + 1, Len(grown))
  BY Zenon DEF DeadLetter
<1>3. Len(grown) \in Nat /\ \A i \in 1 .. Len(grown) : grown[i] \in DeadEntry
  BY <1>1
<1> HIDE DEF grown
<1>4. cut + 1 \in Int /\ Len(grown) \in Int
  BY <1>3
<1>5. \A i \in cut + 1 .. Len(grown) : grown[i] \in DeadEntry
  BY <1>3
<1>6. SubSeq(grown, cut + 1, Len(grown)) \in Seq(DeadEntry)
  BY <1>4, <1>5
<1>7. QED
  BY Zenon, <1>2, <1>6

\* Every operation of the queue keeps its types and the order of the stream.
LEMMA QueueType ==
  ASSUME QueueTypeOK, QueueStep
  PROVE  QueueTypeOK' /\ Grown
<1>1. CASE EnsureGroup
  BY <1>1 DEF EnsureGroup, QueueTypeOK, Grown
<1>2. ASSUME NEW m \in Message, Enqueue(m) PROVE QueueTypeOK' /\ Grown
  <2>1. /\ stream' \in Seq(Message)
        /\ Len(stream') = Len(stream) + 1
        /\ \A i \in 1 .. Len(stream) : stream'[i] = stream[i]
    BY <1>2 DEF Enqueue, QueueTypeOK
  <2>2. QED
    BY <1>2, <2>1 DEF Enqueue, QueueTypeOK, Grown
<1>3. CASE Deliver
  BY <1>3 DEF Deliver, QueueTypeOK, Grown
<1>4. ASSUME NEW B \in Claimable, Claim(B) PROVE QueueTypeOK' /\ Grown
  <2>1. UNCHANGED <<stream, group, cursor, pel, dead>> /\ idle' \subseteq idle
    BY Zenon, <1>4 DEF Claim
  <2>2. QED
    BY <2>1 DEF QueueTypeOK, Grown
<1>5. ASSUME NEW i \in Nat, Ack(i) \/ BecomeIdle(i) PROVE QueueTypeOK' /\ Grown
  <2>1. UNCHANGED <<stream, group, cursor, dead>>
    BY Zenon, <1>5 DEF Ack, BecomeIdle
  <2>2. pel' \subseteq pel /\ idle' \subseteq pel'
    BY Zenon, <1>5 DEF Ack, BecomeIdle, QueueTypeOK
  <2>3. QED
    BY <2>1, <2>2 DEF QueueTypeOK, Grown
<1>6. ASSUME NEW e \in DeadEntry, DeadLetter(e) PROVE QueueTypeOK' /\ Grown
  <2>1. dead' \in Seq(DeadEntry)
    BY Zenon, <1>6, DeadLetterType DEF QueueTypeOK
  <2>2. UNCHANGED <<stream, group, cursor, pel, idle>>
    BY Zenon, <1>6 DEF DeadLetter
  <2>3. QED
    BY <2>1, <2>2 DEF QueueTypeOK, Grown
<1>7. CASE UNCHANGED queueVars
  BY <1>7 DEF queueVars, QueueTypeOK, Grown
<1>8. QED
  BY Zenon, <1>1, <1>2, <1>3, <1>4, <1>5, <1>6, <1>7 DEF QueueStep

\* So does every way a call may end keep the fault counters.
LEMMA FaultType ==
  ASSUME FaultTypeOK, Works \/ Dies \/ \E call \in RemoteCalls : Fails(call)
  PROVE  FaultTypeOK'
  BY FaultAssumption DEF FaultTypeOK, Works, Dies, Fails, faultVars

\* A record that is put has the type of a record.
LEMMA PutType ==
  ASSUME store \in [Jobs -> JobRecord], NEW j, NEW rec \in JobRecord,
         Put(j, rec) \/ UNCHANGED store
  PROVE  store' \in [Jobs -> JobRecord]
  BY Zenon DEF Put

\* The records the code makes from nothing are records.
LEMMA RecordTypes ==
  /\ NotFound \in JobRecord
  /\ NewJob \in JobRecord
  /\ [NewJob EXCEPT !.status = "failed"] \in JobRecord
  BY Zenon DEF NotFound, NewJob, JobRecord, Status

-----------------------------------------------------------------------------
\* A growing stream does not disturb the handlers.
LEMMA SameHandlers ==
  ASSUME QueueTypeOK, QueueTypeOK', HandlersOK, Grown, UNCHANGED handlerVars
  PROVE  HandlersOK'
<1>1. Len(stream) \in Nat /\ Len(stream') \in Nat
  BY DEF QueueTypeOK
<1>2. QED
  BY <1>1 DEF HandlersOK, InHandOK, Grown, handlerVars, Busy

\* A handler keeps its types when it goes on to a call it can make.
LEMMA GotoType ==
  ASSUME QueueTypeOK, QueueTypeOK', HandlersOK, Grown,
         NEW h \in Busy, NEW l \in Labels, NEW rec \in JobRecord,
         l \in {"ready", "register", "unregister"} => rec.http \in Ports,
         Goto(h, l, rec)
  PROVE  HandlersOK'
<1>1. Len(stream) \in Nat /\ Len(stream') \in Nat
  BY DEF QueueTypeOK
<1>2. QED
  BY <1>1 DEF HandlersOK, InHandOK, Grown, Goto, Busy

\* A handler keeps its types when it begins a message of the stream.
LEMMA BeginType ==
  ASSUME QueueTypeOK, QueueTypeOK', HandlersOK, Grown,
         NEW h \in Handlers, NEW i \in 1 .. Len(stream),
         NEW rest \in SUBSET (1 .. Len(stream)),
         Begin(h, i, rest)
  PROVE  HandlersOK'
<1>1. Len(stream) \in Nat /\ Len(stream') \in Nat
  BY DEF QueueTypeOK
<1>2. QED
  BY <1>1 DEF HandlersOK, InHandOK, Grown, Begin, Busy, Labels

\* A handler keeps its types when it returns to its batch or its loop.
LEMMA ReturnType ==
  ASSUME QueueTypeOK, QueueTypeOK', HandlersOK, Grown,
         NEW h \in Handlers, Return(h)
  PROVE  HandlersOK'
<1>1. Len(stream) \in Nat /\ Len(stream') \in Nat
  BY DEF QueueTypeOK
<1>2. CASE batch[h] = {} /\ pc' = [pc EXCEPT ![h] = "idle"]
           /\ cur' = [cur EXCEPT ![h] = 0] /\ UNCHANGED batch
  BY <1>1, <1>2, RecordTypes DEF HandlersOK, InHandOK, Grown, Return, Busy, Labels
<1>3. ASSUME NEW i \in batch[h],
             pc' = [pc EXCEPT ![h] = "get"],
             cur' = [cur EXCEPT ![h] = i],
             batch' = [batch EXCEPT ![h] = @ \ {i}]
      PROVE  HandlersOK'
  <2>1. i \in 1 .. Len(stream)
    BY Zenon, <1>3 DEF HandlersOK
  <2>2. QED
    BY <1>1, <1>3, <2>1, RecordTypes DEF HandlersOK, InHandOK, Grown, Return, Busy, Labels
<1>4. QED
  BY Zenon, <1>2, <1>3 DEF Return

-----------------------------------------------------------------------------
\* What a busy handler has in hand is a message about a job.
LEMMA InHandType ==
  ASSUME TypeInv, NEW h \in Busy
  PROVE  /\ h \in Handlers
         /\ cur[h] \in 1 .. Len(stream)
         /\ stream[cur[h]] \in Message
         /\ JobOf(h) \in Jobs
         /\ loc[h] \in JobRecord
<1>1. h \in Handlers
  BY Zenon DEF Busy
<1>2. cur[h] \in 1 .. Len(stream)
  BY Zenon, <1>1 DEF TypeInv, HandlersOK, InHandOK
<1>3. stream[cur[h]] \in Message
  BY <1>2 DEF TypeInv, QueueTypeOK
<1>4. QED
  BY Zenon, <1>1, <1>2, <1>3 DEF JobOf, Message, TypeInv, HandlersOK

\* Where handle goes after Get, and with which record.
LEMMA DecisionType ==
  ASSUME NEW rec \in JobRecord, NEW action
  PROVE  LET d == Decision(action, rec)
         IN  /\ d[1] \in Labels /\ d[2] \in JobRecord
             /\ d[1] \in {"ready", "register", "unregister"} => d[2].http \in Ports
<1>1. rec.status \in Status /\ rec.attempts \in Nat /\ rec.http \in Ports \cup {NoPort}
  BY Zenon DEF JobRecord
<1>2. LET d == ProvisionDecision(rec)
      IN  d[1] \in {"ack", "failed", "begin"} /\ d[2] \in JobRecord
  <2>1. [rec EXCEPT !.attempts = @ + 1] \in JobRecord
    BY <1>1 DEF JobRecord
  <2>2. /\ [[rec EXCEPT !.attempts = @ + 1] EXCEPT !.status = "failed"] \in JobRecord
        /\ [[rec EXCEPT !.attempts = @ + 1] EXCEPT !.status = "provisioning"] \in JobRecord
    BY Zenon, <2>1 DEF JobRecord, Status
  <2>3. QED
    BY Zenon, <2>2 DEF ProvisionDecision
<1>3. LET d == DeprovisionDecision(rec)
      IN  /\ d[1] \in {"ack", "unregister", "teardown"} /\ d[2] = rec
          /\ d[1] = "unregister" => rec.http \in Ports
  BY Zenon, <1>1 DEF DeprovisionDecision
<1>4. QED
  BY Zenon, <1>2, <1>3 DEF Decision, Labels

-----------------------------------------------------------------------------
\* Every step of the broker keeps the types.
LEMMA BrokerTypeStep ==
  ASSUME TypeInv, BrokerNext, UNCHANGED workerVars
  PROVE  TypeInv'
<1> DEFINE Kept == /\ store' \in [Jobs -> JobRecord]
                   /\ QueueStep /\ FaultTypeOK' /\ BrokerTypeOK'
<1> USE DEF TypeInv
<1>1. ASSUME BrokerStart PROVE Kept
  <2>1. QueueStep /\ UNCHANGED <<store, faultVars>>
    BY Zenon, <1>1 DEF BrokerStart, QueueStep
  <2>2. BrokerTypeOK'
    BY Zenon, <1>1 DEF BrokerStart, BrokerTypeOK
  <2>3. QED
    BY Zenon, <2>1, <2>2 DEF FaultTypeOK, faultVars
<1>2. ASSUME BrokerCrash PROVE Kept
  <2>1. QueueStep /\ UNCHANGED store
    BY Zenon, <1>2 DEF BrokerCrash, QueueStep
  <2>2. BrokerTypeOK'
    BY Zenon, <1>2 DEF BrokerCrash, BrokerTypeOK, PostStates, DelStates
  <2>3. QED
    BY Zenon, <1>2, <2>1, <2>2, FaultType DEF BrokerCrash
<1>3. ASSUME NEW j \in Jobs, PostPut(j) PROVE Kept
  <2>1. QueueStep
    BY Zenon, <1>3 DEF PostPut, QueueStep
  <2>2. store' \in [Jobs -> JobRecord]
    BY Zenon, <1>3, PutType, RecordTypes DEF PostPut
  <2>3. BrokerTypeOK'
    BY Zenon, <1>3 DEF PostPut, PostGoto, BrokerTypeOK, PostStates
  <2>4. FaultTypeOK'
    BY Zenon, <1>3, FaultType DEF PostPut, RemoteCalls
  <2>5. QED
    BY Zenon, <2>1, <2>2, <2>3, <2>4
<1>4. ASSUME NEW j \in Jobs, PostEnqueue(j) PROVE Kept
  <2>1. QueueStep
    BY Zenon, <1>4 DEF PostEnqueue, QueueStep, Provision, Message
  <2>2. BrokerTypeOK'
    BY Zenon, <1>4 DEF PostEnqueue, PostGoto, BrokerTypeOK, PostStates
  <2>3. FaultTypeOK'
    BY Zenon, <1>4, FaultType DEF PostEnqueue, RemoteCalls
  <2>4. QED
    BY Zenon, <1>4, <2>1, <2>2, <2>3 DEF PostEnqueue
<1>5. ASSUME NEW j \in Jobs, PostCompensate(j) PROVE Kept
  <2>1. QueueStep
    BY Zenon, <1>5 DEF PostCompensate, QueueStep
  <2>2. store' \in [Jobs -> JobRecord]
    BY Zenon, <1>5, PutType, RecordTypes DEF PostCompensate
  <2>3. BrokerTypeOK'
    BY Zenon, <1>5 DEF PostCompensate, PostGoto, BrokerTypeOK, PostStates
  <2>4. FaultTypeOK'
    BY Zenon, <1>5, FaultType DEF PostCompensate, RemoteCalls
  <2>5. QED
    BY Zenon, <2>1, <2>2, <2>3, <2>4
<1>6. ASSUME NEW d \in Deletes, NEW j \in Jobs, DelGet(d, j) PROVE Kept
  <2>1. QueueStep /\ UNCHANGED store
    BY Zenon, <1>6 DEF DelGet, QueueStep
  <2>2. [store[j] EXCEPT !.status = "deleting"] \in JobRecord
    BY Zenon DEF JobRecord, Status
  <2>3. DelRoute(store[j].status) \in DelStates
    BY Zenon DEF DelRoute, DelStates
  <2>4. PICK l \in DelStates : DelGoto(d, l)
    BY Zenon, <1>6, <2>3 DEF DelGet, DelStates
  <2>5. copy' \in [Deletes -> JobRecord]
    BY Zenon, <1>6, <2>2, RecordTypes DEF DelGet, BrokerTypeOK
  <2>6. target' \in [Deletes -> SUBSET Jobs]
    BY Zenon, <1>6 DEF DelGet, BrokerTypeOK
  <2>7. BrokerTypeOK'
    BY Zenon, <2>4, <2>5, <2>6 DEF DelGoto, BrokerTypeOK
  <2>8. FaultTypeOK'
    BY Zenon, <1>6, FaultType DEF DelGet, RemoteCalls
  <2>9. QED
    BY Zenon, <2>1, <2>7, <2>8
<1>7. ASSUME NEW d \in Deletes, NEW j \in Jobs, DelPut(d, j) PROVE Kept
  <2>1. QueueStep
    BY Zenon, <1>7 DEF DelPut, QueueStep
  <2>2. copy[d] \in JobRecord
    BY Zenon DEF BrokerTypeOK
  <2>3. store' \in [Jobs -> JobRecord]
    BY Zenon, <1>7, <2>2, PutType DEF DelPut
  <2>4. BrokerTypeOK'
    BY Zenon, <1>7, RecordTypes DEF DelPut, DelGoto, BrokerTypeOK, DelStates
  <2>5. FaultTypeOK'
    BY Zenon, <1>7, FaultType DEF DelPut, RemoteCalls
  <2>6. QED
    BY Zenon, <2>1, <2>3, <2>4, <2>5
<1>8. ASSUME NEW d \in Deletes, NEW j \in Jobs, DelEnqueue(d, j) PROVE Kept
  <2>1. QueueStep
    BY Zenon, <1>8 DEF DelEnqueue, QueueStep, Deprovision, Message
  <2>2. BrokerTypeOK'
    BY Zenon, <1>8 DEF DelEnqueue, DelGoto, BrokerTypeOK, DelStates
  <2>3. FaultTypeOK'
    BY Zenon, <1>8, FaultType DEF DelEnqueue, RemoteCalls
  <2>4. QED
    BY Zenon, <1>8, <2>1, <2>2, <2>3 DEF DelEnqueue
<1>9. Kept
  BY Zenon, <1>1, <1>2, <1>3, <1>4, <1>5, <1>6, <1>7, <1>8 DEF BrokerNext, BrokerStep
<1>10. QueueTypeOK' /\ Grown
  BY Zenon, <1>9, QueueType
<1>11. HandlersOK'
  BY Zenon, <1>10, SameHandlers DEF workerVars
<1>12. DockerOK'
  BY Zenon DEF DockerOK, workerVars, dockerVars
<1>13. QED
  BY Zenon, <1>9, <1>10, <1>11, <1>12

-----------------------------------------------------------------------------
\* A call whose error the handler ignores keeps the types.
LEMMA TryPutType ==
  ASSUME TypeInv, NEW h \in Busy, TryPut(JobOf(h), loc[h])
  PROVE  store' \in [Jobs -> JobRecord] /\ FaultTypeOK'
<1>1. store' \in [Jobs -> JobRecord]
  BY Zenon, InHandType, PutType DEF TypeInv, TryPut
<1>2. FaultTypeOK'
  BY Zenon, FaultType DEF TypeInv, TryPut, RemoteCalls
<1>3. QED
  BY Zenon, <1>1, <1>2

\* An acknowledgement whose error is ignored keeps the types.
LEMMA TryAckType ==
  ASSUME TypeInv, NEW i \in Nat, TryAck(i)
  PROVE  QueueStep /\ FaultTypeOK'
<1>1. QueueStep
  BY Zenon DEF TryAck, QueueStep
<1>2. FaultTypeOK'
  BY Zenon, FaultType DEF TypeInv, TryAck, RemoteCalls
<1>3. QED
  BY Zenon, <1>1, <1>2

\* Every step of a handler that has a message in hand keeps the types.
LEMMA HandlerTypeStep ==
  ASSUME TypeInv, NEW h \in Busy, HandlerStep(h), UNCHANGED brokerVars
  PROVE  TypeInv'
<1> DEFINE Kept == /\ store' \in [Jobs -> JobRecord]
                   /\ FaultTypeOK' /\ QueueTypeOK' /\ HandlersOK' /\ DockerOK'
<1>1. /\ h \in Handlers /\ pc[h] \notin {"down", "idle"}
      /\ cur[h] \in Nat
      /\ stream[cur[h]] \in Message /\ JobOf(h) \in Jobs /\ loc[h] \in JobRecord
  BY SMTT(20), InHandType DEF Busy
<1>2. loc[h].status \in Status /\ loc[h].attempts \in Nat /\ loc[h].http \in Ports \cup {NoPort}
  BY Zenon, <1>1 DEF JobRecord
<1>3. ServiceOf[JobOf(h)] \in Services
  BY Zenon, <1>1, WorkerAssumption
<1>4. UNCHANGED queueVars => QueueTypeOK' /\ Grown
  BY Zenon, QueueType DEF TypeInv, QueueStep
<1>5. UNCHANGED <<dockerVars, routes>> => DockerOK'
  BY Zenon DEF TypeInv, DockerOK, dockerVars
<1>6. UNCHANGED faultVars => FaultTypeOK'
  BY Zenon DEF TypeInv, FaultTypeOK, faultVars
<1>7. ASSUME Get(h) PROVE Kept
  <2>1. store[JobOf(h)] \in JobRecord
    BY Zenon, <1>1 DEF TypeInv
  <2>2. FaultTypeOK'
    BY Zenon, <1>7, FaultType DEF Get, TypeInv, RemoteCalls
  <2>3. HandlersOK'
    <3>1. CASE Goto(h, "ack", NotFound)
      BY Zenon, <1>4, <1>7, <3>1, GotoType, RecordTypes DEF Get, TypeInv, Labels
    <3>2. ASSUME NEW d, d = Decision(stream[cur[h]].action, store[JobOf(h)]),
                 Goto(h, d[1], d[2])
          PROVE  HandlersOK'
      <4>1. /\ d[1] \in Labels /\ d[2] \in JobRecord
            /\ d[1] \in {"ready", "register", "unregister"} => d[2].http \in Ports
        BY Zenon, <2>1, <3>2, DecisionType
      <4>2. QED
        BY Zenon, <1>4, <1>7, <3>2, <4>1, GotoType DEF Get, TypeInv
    <3>3. QED
      BY Zenon, <1>7, <3>1, <3>2 DEF Get
  <2>4. QED
    BY Zenon, <1>4, <1>5, <1>7, <2>2, <2>3 DEF Get, TypeInv
<1>8. ASSUME PutProvisioning(h) PROVE Kept
  <2>1. HandlersOK'
    BY Zenon, <1>1, <1>4, <1>8, GotoType DEF PutProvisioning, TypeInv, Labels
  <2>2. QED
    BY Zenon, <1>4, <1>5, <1>8, <2>1, TryPutType DEF PutProvisioning
<1>9. ASSUME QueueTypeOK', Grown, NEW class, ProvisionFailed(h, class) PROVE HandlersOK'
  <2>1. [loc[h] EXCEPT !.status = "failed"] \in JobRecord
    BY Zenon, <1>1 DEF JobRecord, Status
  <2>2. QED
    BY Zenon, <1>1, <1>9, <2>1, GotoType DEF ProvisionFailed, TypeInv, Labels
<1>10. ASSUME ProvisionPostgres(h) PROVE Kept
  <2>1. HandlersOK'
    <3>1. CASE Goto(h, "http", loc[h])
      BY Zenon, <1>1, <1>4, <1>10, <3>1, GotoType DEF ProvisionPostgres, TypeInv, Labels
    <3>2. QED
      BY Zenon, <1>4, <1>9, <1>10, <3>1 DEF ProvisionPostgres
  <2>2. DockerOK'
    <3>1. pg' \in [Jobs -> BOOLEAN]
      BY Zenon, <1>1, <1>10 DEF ProvisionPostgres, TypeInv, DockerOK
    <3>2. calls' \in [Jobs -> Nat]
      <4> DEFINE n == IF calls[JobOf(h)] > MaxAttempts THEN calls[JobOf(h)]
                      ELSE calls[JobOf(h)] + 1
      <4>1. calls \in [Jobs -> Nat] /\ calls' = [calls EXCEPT ![JobOf(h)] = n]
        BY Zenon, <1>10 DEF ProvisionPostgres, TypeInv, DockerOK
      <4>2. n \in Nat
        BY <1>1, <4>1
      <4> HIDE DEF n
      <4>3. QED
        BY Zenon, <4>1, <4>2
    <3>3. QED
      BY Zenon, <1>10, <3>1, <3>2 DEF ProvisionPostgres, TypeInv, DockerOK
  <2>3. QED
    BY Zenon, <1>4, <1>6, <1>10, <2>1, <2>2 DEF ProvisionPostgres, TypeInv
<1>11. ASSUME ProvisionHTTP(h) PROVE Kept
  <2>1. SvcPorts(JobOf(h)) \subseteq Ports
    BY Zenon, <1>1 DEF SvcPorts, FreePorts, TypeInv, DockerOK
  <2>2. HandlersOK'
    <3>1. ASSUME NEW p \in SvcPorts(JobOf(h)),
                 Goto(h, "ready", [loc[h] EXCEPT !.status = "ready", !.http = p])
          PROVE  HandlersOK'
      <4>1. /\ [loc[h] EXCEPT !.status = "ready", !.http = p] \in JobRecord
            /\ [loc[h] EXCEPT !.status = "ready", !.http = p].http \in Ports
        BY Zenon, <1>1, <2>1 DEF JobRecord, Status
      <4>2. QED
        BY Zenon, <1>4, <1>11, <3>1, <4>1, GotoType DEF ProvisionHTTP, TypeInv, Labels
    <3>2. QED
      BY Zenon, <1>4, <1>9, <1>11, <3>1 DEF ProvisionHTTP
  <2>3. DockerOK'
    BY Zenon, <1>1, <1>11, <2>1 DEF ProvisionHTTP, TypeInv, DockerOK
  <2>4. QED
    BY Zenon, <1>4, <1>6, <1>11, <2>2, <2>3 DEF ProvisionHTTP, TypeInv
<1>12. ASSUME PutReady(h) PROVE Kept
  <2>1. loc[h].http \in Ports
    BY Zenon, <1>1, <1>12 DEF PutReady, TypeInv, HandlersOK, InHandOK
  <2>2. HandlersOK'
    BY Zenon, <1>1, <1>4, <1>12, <2>1, GotoType DEF PutReady, TypeInv, Labels
  <2>3. QED
    BY Zenon, <1>4, <1>5, <1>12, <2>2, TryPutType DEF PutReady
<1>13. ASSUME Register(h) PROVE Kept
  <2>1. loc[h].http \in Ports
    BY Zenon, <1>1, <1>13 DEF Register, TypeInv, HandlersOK, InHandOK
  <2>2. HandlersOK'
    BY Zenon, <1>1, <1>4, <1>13, GotoType DEF Register, TypeInv, Labels
  <2>3. DockerOK'
    BY <1>3, <1>13, <2>1 DEF Register, TypeInv, DockerOK, dockerVars
  <2>4. FaultTypeOK'
    BY Zenon, <1>13, FaultType DEF Register, TypeInv, RemoteCalls
  <2>5. QED
    BY Zenon, <1>4, <1>13, <2>2, <2>3, <2>4 DEF Register, TypeInv
<1>14. ASSUME PutTransient(h) PROVE Kept
  <2>1. HandlersOK'
    BY Zenon, <1>1, <1>4, <1>14, ReturnType DEF PutTransient, TypeInv
  <2>2. QED
    BY Zenon, <1>4, <1>5, <1>14, <2>1, TryPutType DEF PutTransient
<1>15. ASSUME PutFailed(h) PROVE Kept
  <2>1. HandlersOK'
    BY Zenon, <1>1, <1>4, <1>15, GotoType DEF PutFailed, TypeInv, Labels
  <2>2. QED
    BY Zenon, <1>4, <1>5, <1>15, <2>1, TryPutType DEF PutFailed
<1>16. ASSUME AckFailed(h) PROVE Kept
  <2>1. QueueTypeOK' /\ Grown /\ FaultTypeOK'
    BY Zenon, <1>1, <1>16, TryAckType, QueueType DEF AckFailed, TypeInv
  <2>2. HandlersOK'
    BY Zenon, <1>1, <1>16, <2>1, GotoType DEF AckFailed, TypeInv, Labels
  <2>3. QED
    BY Zenon, <1>5, <1>16, <2>1, <2>2 DEF AckFailed, TypeInv
<1>17. ASSUME WriteDeadLetter(h) PROVE Kept
  <2> DEFINE n == loc[h].attempts
             e == [job |-> JobOf(h), attempts |-> IF n > MaxAttempts THEN n - 1 ELSE n]
  <2>1. e \in DeadEntry
    BY <1>1, <1>2, WorkerAssumption DEF DeadEntry
  <2>2. DeadLetter(e) \/ UNCHANGED queueVars
    BY Zenon, <1>17 DEF WriteDeadLetter
  <2>3. FaultTypeOK'
    BY Zenon, <1>17, FaultType DEF WriteDeadLetter, TypeInv, RemoteCalls
  <2> HIDE DEF e
  <2>4. QueueTypeOK' /\ Grown
    BY Zenon, <2>1, <2>2, QueueType DEF TypeInv, QueueStep
  <2>5. HandlersOK'
    BY Zenon, <1>1, <1>17, <2>4, ReturnType DEF WriteDeadLetter, TypeInv
  <2>6. QED
    BY Zenon, <1>5, <1>17, <2>3, <2>4, <2>5 DEF WriteDeadLetter, TypeInv
<1>18. ASSUME AckMessage(h) PROVE Kept
  <2>1. QueueTypeOK' /\ Grown /\ FaultTypeOK'
    BY Zenon, <1>1, <1>18, TryAckType, QueueType DEF AckMessage, TypeInv
  <2>2. HandlersOK'
    BY Zenon, <1>1, <1>18, <2>1, ReturnType DEF AckMessage, TypeInv
  <2>3. QED
    BY Zenon, <1>5, <1>18, <2>1, <2>2 DEF AckMessage, TypeInv
<1>19. ASSUME Unregister(h) PROVE Kept
  <2>1. HandlersOK'
    BY Zenon, <1>1, <1>4, <1>19, GotoType DEF Unregister, TypeInv, Labels
  <2>2. DockerOK'
    BY Zenon, <1>19 DEF Unregister, TypeInv, DockerOK, dockerVars
  <2>3. FaultTypeOK'
    BY Zenon, <1>19, FaultType DEF Unregister, TypeInv, RemoteCalls
  <2>4. QED
    BY Zenon, <1>4, <1>19, <2>1, <2>2, <2>3 DEF Unregister, TypeInv
<1>20. ASSUME Teardown(h) PROVE Kept
  <2>1. [loc[h] EXCEPT !.status = "deleted", !.http = NoPort] \in JobRecord
    BY Zenon, <1>1 DEF JobRecord, Status
  <2>2. HandlersOK'
    BY Zenon, <1>1, <1>4, <1>20, <2>1, GotoType DEF Teardown, TypeInv, Labels
  <2>3. DockerOK'
    BY Zenon, <1>1, <1>20 DEF Teardown, TypeInv, DockerOK
  <2>4. QED
    BY Zenon, <1>4, <1>6, <1>20, <2>2, <2>3 DEF Teardown, TypeInv
<1>21. ASSUME PutTornDown(h) PROVE Kept
  <2>1. HandlersOK'
    BY Zenon, <1>1, <1>4, <1>21, GotoType DEF PutTornDown, TypeInv, Labels
  <2>2. QED
    BY Zenon, <1>4, <1>5, <1>21, <2>1, TryPutType DEF PutTornDown
<1>22. Kept
  BY Zenon, <1>1, <1>7, <1>8, <1>10, <1>11, <1>12, <1>13, <1>14, <1>15, <1>16, <1>17,
     <1>18, <1>19, <1>20, <1>21 DEF HandlerStep, Dequeue, Reclaim
<1>23. QED
  BY Zenon, <1>22 DEF TypeInv, BrokerTypeOK, brokerVars

-----------------------------------------------------------------------------
\* Every step of a worker keeps the types.
LEMMA WorkerTypeStep ==
  ASSUME TypeInv, WorkerNext, UNCHANGED brokerVars
  PROVE  TypeInv'
<1> DEFINE Kept == /\ store' \in [Jobs -> JobRecord]
                   /\ FaultTypeOK' /\ QueueTypeOK' /\ HandlersOK' /\ DockerOK'
<1>1. UNCHANGED queueVars => QueueTypeOK' /\ Grown
  BY Zenon, QueueType DEF TypeInv, QueueStep
<1>2. UNCHANGED <<dockerVars, routes>> => DockerOK'
  BY Zenon DEF TypeInv, DockerOK, dockerVars
<1>3. UNCHANGED faultVars => FaultTypeOK'
  BY Zenon DEF TypeInv, FaultTypeOK, faultVars
<1>4. ASSUME NEW w \in Workers, WorkerStart(w) PROVE Kept
  <2>1. QueueTypeOK' /\ Grown
    BY Zenon, <1>4, QueueType DEF WorkerStart, TypeInv, QueueStep
  <2>2. Len(stream) \in Nat /\ Len(stream') \in Nat
    BY <2>1 DEF TypeInv, QueueTypeOK
  <2>3. \A h \in Handlers : pc'[h] = "idle" \/ pc'[h] = pc[h]
    BY Zenon, <1>4 DEF WorkerStart, Handlers
  <2>4. pc' \in [Handlers -> Labels]
    BY Zenon, <1>4 DEF WorkerStart, TypeInv, HandlersOK, Labels
  <2>5. HandlersOK'
    BY <1>4, <2>1, <2>2, <2>3, <2>4 DEF WorkerStart, TypeInv, HandlersOK, InHandOK, Grown, Busy
  <2>6. QED
    BY Zenon, <1>2, <1>3, <1>4, <2>1, <2>5 DEF WorkerStart, TypeInv
<1>5. ASSUME NEW w \in Workers, WorkerCrash(w) PROVE Kept
  <2>1. QueueTypeOK' /\ Grown
    BY Zenon, <1>1, <1>5 DEF WorkerCrash
  <2>2. FaultTypeOK'
    BY Zenon, <1>5, FaultType DEF WorkerCrash, TypeInv
  <2>3. stream' = stream
    BY Zenon, <1>5 DEF WorkerCrash, queueVars
  <2>4. Len(stream) \in Nat
    BY DEF TypeInv, QueueTypeOK
  <2>5. HandlersOK'
    <3>1. \A h \in Handlers :
            \/ pc'[h] = "down" /\ cur'[h] = 0 /\ loc'[h] = NotFound
               /\ batch'[h] = {} /\ prompt'[h] = FALSE
            \/ pc'[h] = pc[h] /\ cur'[h] = cur[h] /\ loc'[h] = loc[h]
               /\ batch'[h] = batch[h] /\ prompt'[h] = prompt[h]
      BY Zenon, <1>5 DEF WorkerCrash
    <3>2. /\ pc' \in [Handlers -> Labels]
          /\ loc' \in [Handlers -> JobRecord]
          /\ prompt' \in [Handlers -> BOOLEAN]
      BY Zenon, <1>5, RecordTypes DEF WorkerCrash, TypeInv, HandlersOK, Labels
    <3>3. /\ cur' \in [Handlers -> 0 .. Len(stream)]
          /\ batch' \in [Handlers -> SUBSET (1 .. Len(stream))]
      BY <1>5, <2>4 DEF WorkerCrash, TypeInv, HandlersOK
    <3>4. InHandOK'
      BY Zenon, <2>3, <3>1 DEF TypeInv, HandlersOK, InHandOK, Busy
    <3>5. QED
      BY Zenon, <2>3, <3>2, <3>3, <3>4 DEF HandlersOK
  <2>6. QED
    BY Zenon, <1>2, <1>5, <2>1, <2>2, <2>5 DEF WorkerCrash, TypeInv
<1>6. ASSUME NEW h \in Handlers, Dequeue(h) PROVE Kept
  <2>1. QueueTypeOK' /\ Grown
    BY Zenon, <1>6, QueueType DEF Dequeue, TypeInv, QueueStep
  <2>2. FaultTypeOK'
    BY Zenon, <1>6, FaultType DEF Dequeue, TypeInv, RemoteCalls
  <2>3. HandlersOK'
    <3>1. CASE UNCHANGED handlerVars
      BY Zenon, <2>1, <3>1, SameHandlers DEF TypeInv
    <3>2. CASE Begin(h, cursor + 1, {})
      <4>1. cursor + 1 \in 1 .. Len(stream)
        BY <1>6 DEF Dequeue, Deliver, TypeInv, QueueTypeOK
      <4>2. QED
        BY Zenon, <2>1, <3>2, <4>1, BeginType DEF TypeInv
    <3>3. QED
      BY Zenon, <1>6, <3>1, <3>2 DEF Dequeue
  <2>4. QED
    BY Zenon, <1>2, <1>6, <2>1, <2>2, <2>3 DEF Dequeue, TypeInv
<1>7. ASSUME NEW h \in Handlers, Reclaim(h) PROVE Kept
  <2>1. PICK B \in Claimable :
          /\ Claim(B)
          /\ \/ /\ Works
                /\ \E i \in B : (\A k \in B : i <= k) /\ Begin(h, i, B \ {i})
             \/ Fails("reclaim") /\ UNCHANGED handlerVars
    BY Zenon, <1>7 DEF Reclaim
  <2>2. QueueTypeOK' /\ Grown
    BY Zenon, <2>1, QueueType DEF TypeInv, QueueStep
  <2>3. FaultTypeOK'
    BY Zenon, <2>1, FaultType DEF TypeInv, RemoteCalls
  <2>4. B \subseteq 1 .. Len(stream)
    BY DEF Claimable, TypeInv, QueueTypeOK
  <2>5. HandlersOK'
    <3>1. CASE UNCHANGED handlerVars
      BY Zenon, <2>2, <3>1, SameHandlers DEF TypeInv
    <3>2. ASSUME NEW i \in B, Begin(h, i, B \ {i}) PROVE HandlersOK'
      <4>1. i \in 1 .. Len(stream) /\ B \ {i} \in SUBSET (1 .. Len(stream))
        BY Zenon, <2>4
      <4>2. QED
        BY Zenon, <2>2, <3>2, <4>1, BeginType DEF TypeInv
    <3>3. QED
      BY Zenon, <2>1, <3>1, <3>2
  <2>6. QED
    BY Zenon, <1>2, <1>7, <2>2, <2>3, <2>5 DEF Reclaim, TypeInv
<1>8. ASSUME NEW h \in Handlers, DequeueNothing(h) PROVE Kept
  <2>1. HandlersOK'
    BY Zenon, <1>1, <1>8, SameHandlers DEF DequeueNothing, workerVars, TypeInv
  <2>2. QED
    BY Zenon, <1>1, <1>2, <1>3, <1>8, <2>1 DEF DequeueNothing, workerVars, TypeInv
<1>9. ASSUME NEW i \in pel, MinIdlePasses(i) PROVE Kept
  <2>1. i \in Nat
    BY DEF TypeInv, QueueTypeOK
  <2>2. QueueTypeOK' /\ Grown
    BY Zenon, <1>9, <2>1, QueueType DEF MinIdlePasses, TypeInv, QueueStep
  <2>3. HandlersOK'
    BY Zenon, <1>9, <2>2, SameHandlers DEF MinIdlePasses, workerVars, TypeInv
  <2>4. QED
    BY Zenon, <1>2, <1>3, <1>9, <2>2, <2>3 DEF MinIdlePasses, workerVars, TypeInv
<1>10. Kept => TypeInv'
  BY Zenon DEF TypeInv, BrokerTypeOK, brokerVars
<1>11. ASSUME NEW h \in Handlers, HandlerStep(h), ~ (Dequeue(h) \/ Reclaim(h))
       PROVE  TypeInv'
  <2>1. h \in Busy
    BY Zenon, <1>11 DEF HandlerStep, Busy, Get, PutProvisioning, ProvisionPostgres,
       ProvisionHTTP, PutReady, Register, PutTransient, PutFailed, AckFailed,
       WriteDeadLetter, AckMessage, Unregister, Teardown, PutTornDown
  <2>2. QED
    BY Zenon, <1>11, <2>1, HandlerTypeStep
<1>12. QED
  BY Zenon, <1>4, <1>5, <1>6, <1>7, <1>8, <1>9, <1>10, <1>11 DEF WorkerNext

-----------------------------------------------------------------------------
\* The invariant holds at the start: no process runs and nothing is stored.
LEMMA TypeInit == Init => TypeInv
<1> SUFFICES ASSUME Init PROVE TypeInv
  OBVIOUS
<1> USE DEF Init
<1>1. store \in [Jobs -> JobRecord]
  BY Zenon, RecordTypes DEF StoreInit
<1>2. QueueTypeOK
  <2>1. stream \in Seq(Message) /\ dead \in Seq(DeadEntry) /\ Len(stream) = 0
    BY DEF QueueInit
  <2>2. cursor \in 0 .. Len(stream) /\ pel \subseteq 1 .. cursor /\ idle \subseteq pel
    BY <2>1 DEF QueueInit
  <2>3. QED
    BY Zenon, <2>1, <2>2 DEF QueueInit, QueueTypeOK
<1>3. FaultTypeOK
  BY FaultAssumption DEF FaultInit, FaultTypeOK
<1>4. BrokerTypeOK
  BY Zenon, RecordTypes DEF BrokerInit, BrokerTypeOK, PostStates, DelStates
<1>5. HandlersOK
  <2>1. Len(stream) = 0
    BY Zenon DEF QueueInit
  <2>2. QED
    BY <2>1, RecordTypes DEF WorkerInit, HandlersOK, InHandOK, Busy, Labels
<1>6. DockerOK
  BY Zenon DEF WorkerInit, DockerOK
<1>7. QED
  BY Zenon, <1>1, <1>2, <1>3, <1>4, <1>5, <1>6 DEF TypeInv

\* Every step of the system keeps the invariant.
LEMMA TypeNext == TypeInv /\ [Next]_vars => TypeInv'
<1> SUFFICES ASSUME TypeInv, [Next]_vars PROVE TypeInv'
  OBVIOUS
<1>1. CASE BrokerNext /\ UNCHANGED workerVars
  BY Zenon, <1>1, BrokerTypeStep
<1>2. CASE WorkerNext /\ UNCHANGED brokerVars
  BY Zenon, <1>2, WorkerTypeStep
<1>3. CASE UNCHANGED vars
  <2>1. QueueTypeOK' /\ Grown
    BY Zenon, <1>3, QueueType DEF vars, TypeInv, QueueStep
  <2>2. HandlersOK'
    BY Zenon, <1>3, <2>1, SameHandlers DEF vars, workerVars, TypeInv
  <2>3. QED
    BY Zenon, <1>3, <2>1, <2>2 DEF vars, TypeInv, workerVars, dockerVars, faultVars,
       brokerVars, DockerOK, FaultTypeOK, BrokerTypeOK
<1>4. QED
  BY Zenon, <1>1, <1>2, <1>3 DEF Next

\* The invariant is inductive.
THEOREM TypeInvariant == Spec => []TypeInv
<1>1. QED
  BY TypeInit, TypeNext, PTL DEF Spec

\* The records, the stream with its pending entries, the requests, the
\* handlers, the containers and the routes keep their types: in particular
\* the entries that may be reclaimed are pending, the pending ones were
\* delivered, and a route always has a port (queue.go 114-158, worker.go
\* 242-277).
THEOREM TypeCorrect == Spec => []TypeOK
<1>1. TypeInv => TypeOK
  BY Zenon DEF TypeInv, TypeOK, WorkerTypeOK, HandlersOK, DockerOK
<1>2. QED
  BY <1>1, TypeInvariant, PTL

-----------------------------------------------------------------------------
(* The invariants the proofs share *)

\* h is the reclaim loop of the only worker.
Sole(h) == h[2] = "reclaim" /\ Workers = {h[1]}

\* A handler has a message that no other handler has, nor any batch: it is
\* pending until the handler acknowledges it, and Reclaim cannot take it, since
\* it is not idle, or since the handler is the only one that could.  Batches
\* are pending too, and only that handler has one.  Both loops of a worker go
\* down together.
HandlerInv ==
  /\ \A h \in Handlers : batch[h] # {} => h \in Busy /\ Sole(h)
  /\ \A h \in Busy :
       /\ prompt[h] \/ Sole(h)
       /\ prompt[h] => cur[h] \notin idle
       /\ cur[h] \in 1 .. cursor
       /\ pc[h] # "deadletter" => cur[h] \in pel
       /\ batch[h] \subseteq pel \ {cur[h]}
  /\ \A g, h \in Busy : g # h => cur[g] # cur[h] /\ cur[g] \notin batch[h]
  /\ \A g, h \in Handlers : g[1] = h[1] /\ pc[g] = "down" => pc[h] = "down"

\* Nothing is queued before the group exists, and a job is queued once.
MessageInv ==
  /\ ~group => Len(stream) = 0
  /\ serving => group
  /\ \A i \in 1 .. Len(stream) :
       stream[i].action = "provision" => post[stream[i].job] \notin {"new", "enqueue"}
  /\ \A i, k \in 1 .. Len(stream) :
       stream[i] = stream[k] /\ stream[i].action = "provision" => i = k

\* Jobs whose record a compensation has not overwritten (api.go 93-96).
Counted(j) == post[j] \in {"new", "enqueue", "202"}

\* The states from which a job may be tried again (worker.go 166-179).
Triable == {"pending", "provisioning", "failed"}

\* No DELETE has named job j.
Untouched(j) == \A d \in Deletes : j \notin target[d]

-----------------------------------------------------------------------------
(* What a step leaves alone *)

\* The other handlers stay as they are.
Others(h) ==
  \A g \in Handlers \ {h} :
    pc'[g] = pc[g] /\ cur'[g] = cur[g] /\ loc'[g] = loc[g] /\ prompt'[g] = prompt[g]

\* What Goto changes: the label and the record of one handler.
LEMMA GotoShape ==
  ASSUME TypeInv, NEW h \in Handlers, NEW l, NEW rec, Goto(h, l, rec)
  PROVE  /\ Others(h) /\ UNCHANGED batch
         /\ pc'[h] = l /\ loc'[h] = rec /\ cur'[h] = cur[h] /\ prompt'[h] = prompt[h]
  BY Zenon DEF TypeInv, HandlersOK, Goto, Others

\* The calls that write the handler's copy of the record.
Writing == {"begin", "ready", "retry", "failed", "deleted", "stuck"}

\* Job j has no container.
Gone(j) == ~pg[j] /\ svc[j] = NoPort

\* Containers of j may appear.  None goes, and none changes its port.
Grows(j) == (pg[j] => pg'[j]) /\ (svc[j] # NoPort => svc'[j] = svc[j])

\* Containers of j may go.  None appears.
Shrinks(j) == (pg'[j] => pg[j]) /\ svc'[j] \in {svc[j], NoPort}

\* Only h moves, only its job is touched, and only its message may go.
OwnJob(h) ==
  /\ UNCHANGED <<stream, group, cursor, crashes>>
  /\ Others(h)
  /\ \A j \in Jobs \ {JobOf(h)} :
       store'[j] = store[j] /\ pg'[j] = pg[j] /\ svc'[j] = svc[j]
  /\ \/ store'[JobOf(h)] = store[JobOf(h)]
     \/ pc[h] \in Writing /\ store'[JobOf(h)] = loc[h]
  /\ pc[h] \in Writing /\ "put" \notin Faulty => store'[JobOf(h)] = loc[h]
  /\ pel' = pel \/ (pc[h] \in {"ack", "failedAck"} /\ pel' = pel \ {cur[h]})
  /\ pc[h] # "deadletter" => dead' = dead

-----------------------------------------------------------------------------
(* The moves of a busy handler *)

\* handle returns.
Returns(h) ==
  /\ pc[h] \in {"retry", "deadletter", "ack"}
  /\ pc'[h] \in {"idle", "get"}
  /\ UNCHANGED <<pg, svc>>
  /\ pc[h] = "deadletter" =>
       \/ \E e \in DeadEntry : e.job = JobOf(h) /\ DeadLetter(e)
       \/ "deadletter" \in Faulty /\ dead' = dead

\* The record is read and a decision taken on it.
Decides(h) ==
  /\ pc[h] = "get" /\ UNCHANGED <<pg, svc, pel>>
  /\ LET d == Decision(stream[cur[h]].action, store[JobOf(h)]) IN
       \/ pc'[h] = d[1] /\ loc'[h] = d[2]
       \/ "get" \in Faulty /\ pc'[h] = "ack" /\ loc'[h] = NotFound

\* The steps that need nothing from Docker.
Straight == {<<"begin", "postgres">>, <<"ready", "register">>, <<"register", "ack">>,
             <<"failed", "failedAck">>, <<"failedAck", "deadletter">>,
             <<"unregister", "teardown">>, <<"deleted", "ack">>, <<"stuck", "ack">>}

Advances(h) ==
  /\ <<pc[h], pc'[h]>> \in Straight
  /\ loc'[h] = loc[h]
  /\ UNCHANGED <<pg, svc>>

\* Postgres is up.
HasPostgres(h) ==
  /\ pc[h] = "postgres" /\ pc'[h] = "http"
  /\ loc'[h] = loc[h]
  /\ pg'[JobOf(h)] /\ UNCHANGED svc

\* The copy has its status and its endpoint changed.
Marks(h, status, e) ==
  loc'[h].status = status /\ loc'[h].http = e /\ loc'[h].attempts = loc[h].attempts

\* The HTTP container is up.
HasHTTP(h) ==
  /\ pc[h] = "http" /\ pc'[h] = "ready"
  /\ UNCHANGED pg
  /\ svc'[JobOf(h)] # NoPort /\ Grows(JobOf(h))
  /\ Marks(h, "ready", svc'[JobOf(h)])

\* Provision failed, and may have left containers behind.
ProvisionErrs(h) ==
  /\ pc[h] \in {"postgres", "http"} /\ Grows(JobOf(h))
  /\ \/ pc'[h] = "retry" /\ loc'[h] = loc[h]
     \/ pc'[h] = "failed" /\ Marks(h, "failed", loc[h].http)

\* Deprovision removed the containers, or failed.
TearsDown(h) ==
  /\ pc[h] = "teardown"
  /\ \/ pc'[h] = "deleted" /\ Gone(JobOf(h))' /\ Marks(h, "deleted", NoPort)
     \/ /\ "teardown" \in DockerErrs /\ pc'[h] = "stuck" /\ loc'[h] = loc[h]
        /\ Shrinks(JobOf(h))

Moves(h) ==
  /\ OwnJob(h)
  /\ \/ Returns(h)
     \/ /\ cur'[h] = cur[h]
        /\ \/ Decides(h) \/ Advances(h) \/ HasPostgres(h) \/ HasHTTP(h)
           \/ ProvisionErrs(h) \/ TearsDown(h)

-----------------------------------------------------------------------------
\* What Return changes: one handler, which goes on to its batch or its loop.
LEMMA ReturnMoves ==
  ASSUME TypeInv, NEW h \in Handlers, Return(h)
  PROVE  Others(h) /\ pc'[h] \in {"idle", "get"}
<1>1. \A g \in Handlers \ {h} :
        pc'[g] = pc[g] /\ cur'[g] = cur[g] /\ loc'[g] = loc[g] /\ prompt'[g] = prompt[g]
  BY Zenon DEF TypeInv, HandlersOK, Return
<1>2. pc'[h] \in {"idle", "get"}
  BY Zenon DEF TypeInv, HandlersOK, Return
<1>3. QED
  BY Zenon, <1>1, <1>2 DEF Others

\* Every call of a busy handler is one of its moves (worker.go 145-300).
LEMMA HandlerMoves ==
  ASSUME TypeInv, NEW h \in Busy, HandlerStep(h)
  PROVE  Moves(h)
<1> DEFINE job == JobOf(h)
           Alone == \A j \in Jobs \ {job} : pg'[j] = pg[j] /\ svc'[j] = svc[j]
<1>1. /\ h \in Handlers /\ pc[h] \notin {"down", "idle"}
      /\ stream[cur[h]] \in Message /\ job \in Jobs /\ loc[h] \in JobRecord
  BY Zenon, InHandType DEF Busy
<1>2. /\ store \in [Jobs -> JobRecord] /\ pg \in [Jobs -> BOOLEAN]
      /\ svc \in [Jobs -> Ports \cup {NoPort}] /\ NoPort \notin Ports
  BY Zenon, PortAssumption DEF TypeInv, DockerOK
<1> HIDE DEF job
<1>3. UNCHANGED queueVars => UNCHANGED <<stream, group, cursor, pel, dead>>
  BY Zenon DEF queueVars
<1>4. UNCHANGED <<dockerVars, routes>> => UNCHANGED <<pg, svc>> /\ Alone
  BY Zenon DEF dockerVars
<1>5. ASSUME TryPut(job, loc[h]), pc[h] \in Writing
      PROVE  /\ \A j \in Jobs \ {job} : store'[j] = store[j]
             /\ store'[job] = store[job] \/ store'[job] = loc[h]
             /\ "put" \notin Faulty => store'[job] = loc[h]
             /\ UNCHANGED crashes
  BY Zenon, <1>1, <1>2, <1>5 DEF TryPut, Put, Fails, Works, faultVars
\* A write of the copy, and nothing else outside the handler.
<1>6. ASSUME TryPut(job, loc[h]), pc[h] \in Writing, UNCHANGED queueVars, Alone, Others(h)
      PROVE  OwnJob(h)
  BY Zenon, <1>3, <1>5, <1>6 DEF OwnJob, job, Writing
\* No write.
<1>7. ASSUME UNCHANGED <<store, crashes>>, UNCHANGED queueVars, Alone, Others(h),
             pc[h] \notin Writing
      PROVE  OwnJob(h)
  BY Zenon, <1>3, <1>7 DEF OwnJob, job
<1>8. ASSUME NEW l, NEW rec, Goto(h, l, rec)
      PROVE  Others(h) /\ pc'[h] = l /\ loc'[h] = rec /\ cur'[h] = cur[h]
  BY Zenon, <1>1, <1>8, GotoShape
<1>9. ASSUME Works PROVE UNCHANGED crashes
  BY Zenon, <1>9 DEF Works, faultVars
<1>10. ASSUME NEW call, Fails(call) PROVE UNCHANGED crashes /\ call \in Faulty
  BY Zenon, <1>10 DEF Fails
\* A put on the way to the next call.
<1>11. ASSUME NEW l, <<pc[h], l>> \in Straight, Goto(h, l, loc[h]),
              TryPut(job, loc[h]), pc[h] \in Writing,
              UNCHANGED queueVars, UNCHANGED <<dockerVars, routes>>
       PROVE  Moves(h)
  <2>1. OwnJob(h)
    BY Zenon, <1>4, <1>6, <1>8, <1>11
  <2>2. Advances(h)
    BY Zenon, <1>4, <1>8, <1>11 DEF Advances
  <2>3. QED
    BY Zenon, <1>8, <1>11, <2>1, <2>2 DEF Moves
<1>12. CASE Get(h)
  <2> DEFINE d == Decision(stream[cur[h]].action, store[JobOf(h)])
  <2>1. PICK l, rec : Goto(h, l, rec) /\ \/ l = d[1] /\ rec = d[2]
                                         \/ "get" \in Faulty /\ l = "ack" /\ rec = NotFound
    BY Zenon, <1>12, <1>10 DEF Get
  <2> HIDE DEF d
  <2>2. UNCHANGED store /\ UNCHANGED queueVars /\ UNCHANGED <<dockerVars, routes>>
    BY Zenon, <1>12 DEF Get
  <2>3. UNCHANGED crashes
    BY Zenon, <1>9, <1>10, <1>12 DEF Get
  <2>4. OwnJob(h)
    BY Zenon, <1>4, <1>7, <1>8, <1>12, <2>1, <2>2, <2>3 DEF Get, Writing
  <2>5. Decides(h)
    BY Zenon, <1>3, <1>4, <1>8, <1>12, <2>1, <2>2 DEF Decides, Get, d
  <2>6. QED
    BY Zenon, <1>8, <2>1, <2>4, <2>5 DEF Moves
<1>13. CASE PutProvisioning(h)
  BY <1>11, <1>13 DEF PutProvisioning, Straight, Writing, job
<1>14. ASSUME NEW class, ProvisionFailed(h, class)
       PROVE  /\ Others(h) /\ cur'[h] = cur[h]
              /\ \/ pc'[h] = "retry" /\ loc'[h] = loc[h]
                 \/ pc'[h] = "failed" /\ Marks(h, "failed", loc[h].http)
  <2>1. [loc[h] EXCEPT !.status = "failed"].status = "failed"
    BY Zenon, <1>1 DEF JobRecord
  <2>2. /\ [loc[h] EXCEPT !.status = "failed"].http = loc[h].http
        /\ [loc[h] EXCEPT !.status = "failed"].attempts = loc[h].attempts
    BY Zenon, <1>1 DEF JobRecord
  <2>3. QED
    BY Zenon, <1>8, <1>14, <2>1, <2>2 DEF ProvisionFailed, Marks
<1>15. CASE ProvisionPostgres(h)
  <2>1. UNCHANGED <<store, crashes, svc>> /\ UNCHANGED queueVars
    BY Zenon, <1>15 DEF ProvisionPostgres, faultVars
  <2>2. pg' = [pg EXCEPT ![job] = TRUE] \/ UNCHANGED pg
    BY Zenon, <1>15 DEF ProvisionPostgres, job
  <2>3. Alone /\ Grows(job)
    BY Zenon, <1>1, <1>2, <2>1, <2>2 DEF Grows
  <2>4. CASE pg' = [pg EXCEPT ![job] = TRUE] /\ Goto(h, "http", loc[h])
    <3>1. pg'[job]
      BY Zenon, <1>1, <1>2, <2>4
    <3>2. OwnJob(h)
      BY Zenon, <1>7, <1>8, <1>15, <2>1, <2>3, <2>4 DEF ProvisionPostgres, Writing
    <3>3. HasPostgres(h)
      BY Zenon, <1>8, <1>15, <2>1, <2>4, <3>1 DEF HasPostgres, ProvisionPostgres, job
    <3>4. QED
      BY Zenon, <1>8, <2>4, <3>2, <3>3 DEF Moves
  <2>5. ASSUME NEW class, ProvisionFailed(h, class) PROVE Moves(h)
    <3>1. OwnJob(h)
      BY Zenon, <1>7, <1>14, <1>15, <2>1, <2>3, <2>5 DEF ProvisionPostgres, Writing
    <3>2. ProvisionErrs(h)
      BY Zenon, <1>14, <1>15, <2>3, <2>5 DEF ProvisionErrs, ProvisionPostgres, job
    <3>3. QED
      BY Zenon, <1>14, <2>5, <3>1, <3>2 DEF Moves
  <2>6. QED
    BY Zenon, <1>15, <2>4, <2>5 DEF ProvisionPostgres, job
<1>16. CASE ProvisionHTTP(h)
  <2>1. UNCHANGED <<store, crashes, pg>> /\ UNCHANGED queueVars
    BY Zenon, <1>16 DEF ProvisionHTTP, faultVars
  <2>2. SvcPorts(job) \subseteq Ports /\ \A p \in SvcPorts(job) : svc[job] # NoPort => p = svc[job]
    BY Zenon, <1>1, <1>2 DEF SvcPorts, FreePorts
  <2>3. ASSUME NEW p \in SvcPorts(job), svc' = [svc EXCEPT ![job] = p]
        PROVE  Alone /\ Grows(job) /\ svc'[job] = p /\ p # NoPort
    BY Zenon, <1>1, <1>2, <2>1, <2>2, <2>3 DEF Grows
  <2>4. UNCHANGED svc => Alone /\ Grows(job)
    BY Zenon, <2>1 DEF Grows
  <2>5. ASSUME NEW p \in SvcPorts(job), svc' = [svc EXCEPT ![job] = p],
               Goto(h, "ready", [loc[h] EXCEPT !.status = "ready", !.http = p])
        PROVE  Moves(h)
    <3> DEFINE rec == [loc[h] EXCEPT !.status = "ready", !.http = p]
    <3>1. rec.status = "ready" /\ rec.http = p /\ rec.attempts = loc[h].attempts
      BY Zenon, <1>1 DEF JobRecord
    <3>2. Others(h) /\ pc'[h] = "ready" /\ loc'[h] = rec /\ cur'[h] = cur[h]
      BY Zenon, <1>8, <2>5
    <3> HIDE DEF rec
    <3>3. OwnJob(h)
      BY Zenon, <1>7, <1>16, <2>1, <2>3, <2>5, <3>2 DEF ProvisionHTTP, Writing
    <3>4. HasHTTP(h)
      BY Zenon, <1>16, <2>1, <2>3, <2>5, <3>1, <3>2 DEF HasHTTP, Marks, ProvisionHTTP, job
    <3>5. QED
      BY Zenon, <3>2, <3>3, <3>4 DEF Moves
  <2>6. ASSUME NEW class, ProvisionFailed(h, class), Alone, Grows(job) PROVE Moves(h)
    <3>1. OwnJob(h)
      BY Zenon, <1>7, <1>14, <1>16, <2>1, <2>6 DEF ProvisionHTTP, Writing
    <3>2. ProvisionErrs(h)
      BY Zenon, <1>14, <1>16, <2>6 DEF ProvisionErrs, ProvisionHTTP, job
    <3>3. QED
      BY Zenon, <1>14, <2>6, <3>1, <3>2 DEF Moves
  <2>7. QED
    BY Zenon, <1>16, <2>3, <2>4, <2>5, <2>6 DEF ProvisionHTTP, job
<1>17. CASE PutReady(h)
  BY <1>11, <1>17 DEF PutReady, Straight, Writing, job
<1>18. CASE PutFailed(h)
  BY <1>11, <1>18 DEF PutFailed, Straight, Writing, job
<1>19. CASE PutTornDown(h)
  BY <1>11, <1>19 DEF PutTornDown, Straight, Writing, job
\* A step that writes no record on the way to the next call.
<1>20. ASSUME NEW l, <<pc[h], l>> \in Straight, Goto(h, l, loc[h]), pc[h] \notin Writing,
              UNCHANGED <<store, crashes, pg, svc>>, UNCHANGED queueVars
       PROVE  Moves(h)
  <2>1. OwnJob(h)
    BY Zenon, <1>7, <1>8, <1>20
  <2>2. Advances(h)
    BY Zenon, <1>8, <1>20 DEF Advances
  <2>3. QED
    BY Zenon, <1>8, <1>20, <2>1, <2>2 DEF Moves
<1>21. CASE Register(h)
  <2>1. UNCHANGED <<store, crashes, pg, svc>> /\ UNCHANGED queueVars
    BY Zenon, <1>4, <1>9, <1>10, <1>21 DEF Register, dockerVars
  <2>2. QED
    BY <1>20, <1>21, <2>1 DEF Register, Straight, Writing
<1>22. CASE Unregister(h)
  <2>1. UNCHANGED <<store, crashes, pg, svc>> /\ UNCHANGED queueVars
    BY Zenon, <1>4, <1>9, <1>10, <1>22 DEF Unregister, dockerVars
  <2>2. QED
    BY <1>20, <1>22, <2>1 DEF Unregister, Straight, Writing
<1>23. CASE Teardown(h)
  <2>1. UNCHANGED <<store, crashes>> /\ UNCHANGED queueVars
    BY Zenon, <1>23 DEF Teardown, faultVars
  <2>2. /\ pg' = [pg EXCEPT ![job] = FALSE] \/ UNCHANGED pg
        /\ svc' = [svc EXCEPT ![job] = NoPort] \/ UNCHANGED svc
    BY Zenon, <1>23 DEF Teardown, job
  <2>3. Alone
    BY Zenon, <1>1, <1>2, <2>2
  <2>4. ASSUME NEW l, NEW rec, Goto(h, l, rec) PROVE OwnJob(h)
    BY Zenon, <1>7, <1>8, <1>23, <2>1, <2>3, <2>4 DEF Teardown, Writing
  <2>5. CASE /\ pg' = [pg EXCEPT ![job] = FALSE]
             /\ svc' = [svc EXCEPT ![job] = NoPort]
             /\ Goto(h, "deleted", [loc[h] EXCEPT !.status = "deleted", !.http = NoPort])
    <3> DEFINE rec == [loc[h] EXCEPT !.status = "deleted", !.http = NoPort]
    <3>1. rec.status = "deleted" /\ rec.http = NoPort /\ rec.attempts = loc[h].attempts
      BY Zenon, <1>1 DEF JobRecord
    <3>2. pc'[h] = "deleted" /\ loc'[h] = rec /\ cur'[h] = cur[h]
      BY Zenon, <1>8, <2>5
    <3>3. OwnJob(h)
      BY Zenon, <2>4, <2>5
    <3> HIDE DEF rec
    <3>4. ~pg'[job] /\ svc'[job] = NoPort /\ stream' = stream
      BY Zenon, <1>1, <1>2, <1>3, <2>1, <2>5
    <3>5. Gone(JobOf(h))'
      BY Zenon, <3>2, <3>4 DEF Gone, JobOf, job
    <3>6. TearsDown(h)
      BY Zenon, <1>23, <3>1, <3>2, <3>5 DEF TearsDown, Marks, Teardown
    <3>7. QED
      BY Zenon, <3>2, <3>3, <3>6 DEF Moves
  <2>6. CASE "teardown" \in DockerErrs /\ Goto(h, "stuck", loc[h])
    <3>1. Shrinks(job)
      BY Zenon, <1>1, <1>2, <2>2 DEF Shrinks
    <3>2. TearsDown(h) /\ cur'[h] = cur[h]
      BY Zenon, <1>8, <1>23, <2>6, <3>1 DEF TearsDown, Teardown, job
    <3>3. QED
      BY Zenon, <2>4, <2>6, <3>2 DEF Moves
  <2>7. QED
    BY Zenon, <1>23, <2>5, <2>6 DEF Teardown, job
<1>24. CASE PutTransient(h)
  <2>1. Others(h) /\ pc'[h] \in {"idle", "get"}
    BY Zenon, <1>1, <1>24, ReturnMoves DEF PutTransient
  <2>2. OwnJob(h)
    BY Zenon, <1>4, <1>6, <1>24, <2>1 DEF PutTransient, Writing, job
  <2>3. Returns(h)
    BY Zenon, <1>4, <1>24, <2>1 DEF PutTransient, Returns
  <2>4. QED
    BY Zenon, <2>2, <2>3 DEF Moves
\* An acknowledgement.
<1>25. ASSUME TryAck(cur[h]), pc[h] \in {"ack", "failedAck"}, UNCHANGED store, Alone, Others(h)
       PROVE  OwnJob(h)
  <2>1. UNCHANGED crashes
    BY Zenon, <1>9, <1>10, <1>25 DEF TryAck
  <2>2. /\ UNCHANGED <<stream, group, cursor, dead>>
        /\ pel' = pel \/ pel' = pel \ {cur[h]}
    BY Zenon, <1>3, <1>25 DEF TryAck, Ack
  <2>3. QED
    BY Zenon, <1>25, <2>1, <2>2 DEF OwnJob, Writing, job
<1>26. CASE AckFailed(h)
  <2>1. OwnJob(h)
    BY Zenon, <1>4, <1>8, <1>25, <1>26 DEF AckFailed
  <2>2. Advances(h)
    BY Zenon, <1>4, <1>8, <1>26 DEF AckFailed, Advances, Straight
  <2>3. QED
    BY Zenon, <1>8, <1>26, <2>1, <2>2 DEF Moves, AckFailed
<1>27. CASE AckMessage(h)
  <2>1. Others(h) /\ pc'[h] \in {"idle", "get"}
    BY Zenon, <1>1, <1>27, ReturnMoves DEF AckMessage
  <2>2. OwnJob(h)
    BY Zenon, <1>4, <1>25, <1>27, <2>1 DEF AckMessage
  <2>3. Returns(h)
    BY Zenon, <1>4, <1>27, <2>1 DEF AckMessage, Returns
  <2>4. QED
    BY Zenon, <2>2, <2>3 DEF Moves
<1>28. CASE WriteDeadLetter(h)
  <2> DEFINE n == loc[h].attempts
             e == [job |-> JobOf(h), attempts |-> IF n > MaxAttempts THEN n - 1 ELSE n]
  <2>1. Others(h) /\ pc'[h] \in {"idle", "get"}
    BY Zenon, <1>1, <1>28, ReturnMoves DEF WriteDeadLetter
  <2>2. n \in Nat /\ MaxAttempts \in Nat
    BY Zenon, <1>1, WorkerAssumption DEF JobRecord
  <2>3. e \in DeadEntry /\ e.job = JobOf(h)
    BY <1>1, <2>2 DEF DeadEntry, job
  <2>4. DeadLetter(e) \/ ("deadletter" \in Faulty /\ UNCHANGED queueVars)
    BY Zenon, <1>10, <1>28 DEF WriteDeadLetter
  <2> HIDE DEF e
  <2>5. UNCHANGED <<stream, group, cursor, pel>>
    BY Zenon, <1>3, <2>4 DEF DeadLetter
  <2>6. UNCHANGED crashes
    BY Zenon, <1>9, <1>10, <1>28 DEF WriteDeadLetter
  <2>7. OwnJob(h)
    BY Zenon, <1>4, <1>28, <2>1, <2>5, <2>6 DEF OwnJob, WriteDeadLetter, Writing, job
  <2>8. Returns(h)
    BY Zenon, <1>3, <1>4, <1>28, <2>1, <2>3, <2>4 DEF Returns, WriteDeadLetter
  <2>9. QED
    BY Zenon, <2>7, <2>8 DEF Moves
<1>29. QED
  BY Zenon, <1>1, <1>12, <1>13, <1>15, <1>16, <1>17, <1>18, <1>19, <1>21, <1>22, <1>23, <1>24,
     <1>26, <1>27, <1>28 DEF HandlerStep, Dequeue, Reclaim

-----------------------------------------------------------------------------
(* The loops of a worker *)

\* g goes on with what it has.
Same(g) == g \in Busy /\ pc'[g] = pc[g] /\ cur'[g] = cur[g] /\ loc'[g] = loc[g]

\* The two goroutines of a worker run and die together (main.go 103-115).
Paired == \A w \in Workers : pc[<<w, "main">>] = "down" => pc[<<w, "reclaim">>] = "down"

\* Handlers only take messages, or die with their process.
Loops ==
  /\ UNCHANGED <<store, stream, pg, svc, dead>>
  /\ pel \subseteq pel' /\ pel' \subseteq pel \cup {cursor + 1}
  /\ \A g \in Busy' : pc'[g] = "get" \/ Same(g)
  /\ crashes' = 0 => crashes = 0
  /\ Paired => Paired'
  /\ Paired /\ crashes' = 0 => \A g \in Busy : g \in Busy' /\ Same(g)

\* A step of a worker takes or loses messages, or is a move of a handler that
\* has one (worker.go 91-143, main.go 72-128).
LEMMA WorkerMoves ==
  ASSUME TypeInv, WorkerNext
  PROVE  Loops \/ \E h \in Busy : HandlerStep(h) /\ Moves(h)
<1>1. /\ \A w \in Workers : <<w, "main">> \in Handlers /\ <<w, "reclaim">> \in Handlers
      /\ \A h \in Handlers : h[1] \in Workers /\ (h = <<h[1], "main">> \/ h = <<h[1], "reclaim">>)
  BY DEF Handlers
<1>2. UNCHANGED queueVars => UNCHANGED <<stream, pel, dead>>
  BY Zenon DEF queueVars
<1>3. UNCHANGED dockerVars => UNCHANGED <<pg, svc>>
  BY Zenon DEF dockerVars
<1>4. ASSUME UNCHANGED handlerVars
      PROVE  /\ \A g \in Busy' : Same(g)
             /\ \A g \in Busy : g \in Busy' /\ Same(g)
             /\ Paired => Paired'
  BY Zenon, <1>4 DEF handlerVars, Busy, Same, Paired
<1>5. pc \in [Handlers -> Labels] /\ cur \in [Handlers -> 0 .. Len(stream)]
  BY Zenon DEF TypeInv, HandlersOK
<1>6. ASSUME NEW h \in Handlers, pc[h] = "idle", NEW i, NEW rest, Begin(h, i, rest)
      PROVE  /\ \A g \in Busy' : pc'[g] = "get" \/ Same(g)
             /\ \A g \in Busy : g \in Busy' /\ Same(g)
             /\ Paired => Paired'
  <2>1. /\ pc'[h] = "get" /\ UNCHANGED loc
        /\ \A g \in Handlers : g # h => pc'[g] = pc[g] /\ cur'[g] = cur[g]
    BY Zenon, <1>5, <1>6 DEF Begin
  <2>2. h \notin Busy
    BY Zenon, <1>6 DEF Busy
  <2>3. Paired => Paired'
    BY Zenon, <1>1, <1>6, <2>1 DEF Paired
  <2>4. QED
    BY Zenon, <2>1, <2>2, <2>3 DEF Busy, Same
<1>0. /\ Works => crashes' = crashes
      /\ \A call : Fails(call) => crashes' = crashes
      /\ UNCHANGED faultVars => crashes' = crashes
  BY Zenon DEF Works, Fails, faultVars
<1>7. ASSUME NEW w \in Workers, WorkerStart(w) PROVE Loops
  <2>1. /\ UNCHANGED <<store, stream, pg, svc, dead, pel, cur, loc, crashes>>
        /\ pc[<<w, "main">>] = "down"
        /\ \A g \in Handlers : pc'[g] = IF g[1] = w THEN "idle" ELSE pc[g]
    BY Zenon, <1>0, <1>3, <1>7 DEF WorkerStart, EnsureGroup
  <2>2. \A g \in Busy' : Same(g)
    BY Zenon, <2>1 DEF Busy, Same
  <2>3. Paired => Paired'
    BY Zenon, <1>1, <2>1 DEF Paired
  <2>4. Paired => \A g \in Busy : g[1] # w
    BY <1>1, <2>1 DEF Paired, Busy
  <2>5. Paired => \A g \in Busy : g \in Busy' /\ Same(g)
    BY Zenon, <2>1, <2>4 DEF Busy, Same
  <2>6. QED
    BY Zenon, <2>1, <2>2, <2>3, <2>5 DEF Loops
<1>8. ASSUME NEW w \in Workers, WorkerCrash(w) PROVE Loops
  <2>1. UNCHANGED <<store, stream, pg, svc, dead, pel>>
    BY Zenon, <1>2, <1>3, <1>8 DEF WorkerCrash
  <2>2. \A g \in Handlers :
          /\ g[1] = w => pc'[g] = "down"
          /\ g[1] # w => pc'[g] = pc[g] /\ cur'[g] = cur[g] /\ loc'[g] = loc[g]
    BY Zenon, <1>8 DEF WorkerCrash
  <2>3. \A g \in Busy' : Same(g)
    BY Zenon, <2>2 DEF Busy, Same
  <2>4. Paired => Paired'
    BY Zenon, <1>1, <2>2 DEF Paired
  <2>5. crashes' # 0
    BY <1>8 DEF WorkerCrash, Dies, TypeInv, FaultTypeOK
  <2>6. QED
    BY Zenon, <2>1, <2>3, <2>4, <2>5 DEF Loops
<1>9. ASSUME NEW h \in Handlers, Dequeue(h) PROVE Loops
  <2>1. UNCHANGED <<store, stream, pg, svc, dead>> /\ pel' = pel \cup {cursor + 1} /\ pc[h] = "idle"
    BY Zenon, <1>3, <1>9 DEF Dequeue, Deliver
  <2>0. UNCHANGED crashes
    BY Zenon, <1>0, <1>9 DEF Dequeue
  <2>2. /\ \A g \in Busy' : pc'[g] = "get" \/ Same(g)
        /\ \A g \in Busy : g \in Busy' /\ Same(g)
        /\ Paired => Paired'
    BY Zenon, <1>4, <1>6, <1>9, <2>1 DEF Dequeue
  <2>3. QED
    BY Zenon, <2>0, <2>1, <2>2 DEF Loops
<1>10. ASSUME NEW h \in Handlers, Reclaim(h) PROVE Loops
  <2>1. PICK B \in Claimable :
          /\ Claim(B)
          /\ (\E i \in B : Begin(h, i, B \ {i})) \/ UNCHANGED handlerVars
    BY Zenon, <1>10 DEF Reclaim
  <2>0. UNCHANGED crashes
    BY Zenon, <1>0, <1>10 DEF Reclaim
  <2>2. UNCHANGED <<store, stream, pg, svc, dead, pel>> /\ pc[h] = "idle"
    BY Zenon, <1>3, <1>10, <2>1 DEF Reclaim, Claim
  <2>3. /\ \A g \in Busy' : pc'[g] = "get" \/ Same(g)
        /\ \A g \in Busy : g \in Busy' /\ Same(g)
        /\ Paired => Paired'
    BY Zenon, <1>4, <1>6, <2>1, <2>2
  <2>4. QED
    BY Zenon, <2>0, <2>2, <2>3 DEF Loops
<1>11. ASSUME NEW h \in Handlers, DequeueNothing(h) PROVE Loops
  BY Zenon, <1>0, <1>2, <1>3, <1>4, <1>11 DEF DequeueNothing, workerVars, Loops
<1>12. ASSUME NEW i \in pel, MinIdlePasses(i) PROVE Loops
  <2>1. UNCHANGED <<store, stream, pg, svc, dead, pel, handlerVars, crashes>>
    BY Zenon, <1>0, <1>3, <1>12 DEF MinIdlePasses, BecomeIdle, workerVars
  <2>2. QED
    BY Zenon, <1>4, <2>1 DEF Loops
<1>13. ASSUME NEW h \in Handlers, HandlerStep(h), ~ (Dequeue(h) \/ Reclaim(h))
       PROVE  h \in Busy /\ Moves(h)
  <2>1. h \in Busy
    BY Zenon, <1>13 DEF HandlerStep, Busy, Get, PutProvisioning, ProvisionPostgres,
       ProvisionHTTP, PutReady, Register, PutTransient, PutFailed, AckFailed,
       WriteDeadLetter, AckMessage, Unregister, Teardown, PutTornDown
  <2>2. QED
    BY Zenon, <1>13, <2>1, HandlerMoves
<1>14. QED
  BY Zenon, <1>7, <1>8, <1>9, <1>10, <1>11, <1>12, <1>13 DEF WorkerNext

-----------------------------------------------------------------------------
(* The broker *)

\* How the POST of j goes on.
PostMoves(j) ==
  \/ post'[j] = post[j]
  \/ post[j] = "new" /\ post'[j] \in {"enqueue", "500"}
  \/ post[j] = "enqueue" /\ post'[j] \in {"202", "compensate", "lost"}
  \/ post[j] = "compensate" /\ post'[j] \in {"500", "lost"}

\* What a request may write in the record of j.
RequestWrites(j) ==
  \/ store'[j] = store[j]
  \/ post[j] = "new" /\ post'[j] # "new" /\ store'[j] = NewJob
  \/ post[j] = "compensate" /\ post'[j] = "500" /\ store'[j].status = "failed"
  \/ \E d \in Deletes : del[d] = "put" /\ j \in target[d] /\ store'[j] = copy[d]

\* A message that a request has put in the stream.
Requested(m) ==
  \/ post[m.job] = "enqueue" /\ post'[m.job] # "enqueue" /\ m = Provision(m.job)
  \/ \E d \in Deletes : del[d] = "enqueue" /\ m.job \in target[d] /\ m = Deprovision(m.job)

\* A DELETE has no target before its record is read, and writes deleting.
RequestInv ==
  \A d \in Deletes :
    /\ del[d] = "new" => target[d] = {}
    /\ del[d] = "put" => copy[d].status = "deleting"

Requesting ==
  /\ UNCHANGED <<pg, svc, dead, pc, cur, loc, pel>>
  /\ Grown
  /\ \A i \in 1 .. Len(stream') : i \in 1 .. Len(stream) \/ Requested(stream'[i])
  /\ \A j \in Jobs : PostMoves(j) /\ RequestWrites(j)
  /\ \A d \in Deletes : target[d] \subseteq target'[d]
  /\ crashes' = 0 => crashes = 0

\* Every step of the broker does no more than that (api.go 40-181).
LEMMA BrokerMoves ==
  ASSUME TypeInv, RequestInv, BrokerNext, UNCHANGED workerVars
  PROVE  Requesting /\ RequestInv'
<1> DEFINE Handled == UNCHANGED <<dead, pel>> /\ (crashes' = 0 => crashes = 0)
           Grew == Grown /\ \A i \in 1 .. Len(stream') :
                              i \in 1 .. Len(stream) \/ Requested(stream'[i])
           Wrote == \A j \in Jobs : PostMoves(j) /\ RequestWrites(j)
           Aims == RequestInv' /\ \A d \in Deletes : target[d] \subseteq target'[d]
           Kept == Handled /\ Grew /\ Wrote /\ Aims
<1>1. /\ post \in [Jobs -> PostStates] /\ del \in [Deletes -> DelStates]
      /\ target \in [Deletes -> SUBSET Jobs]
      /\ copy \in [Deletes -> JobRecord] /\ store \in [Jobs -> JobRecord]
      /\ stream \in Seq(Message) /\ Len(stream) \in Nat /\ crashes \in Nat
  BY FaultAssumption DEF TypeInv, BrokerTypeOK, QueueTypeOK, FaultTypeOK
<1>2. UNCHANGED stream => Grew
  BY DEF Grown
<1>3. UNCHANGED queueVars => UNCHANGED <<stream, dead, pel>>
  BY Zenon DEF queueVars
<1>4. Works => crashes' = crashes
  BY Zenon DEF Works, faultVars
<1>5. \A call : Fails(call) => crashes' = crashes
  BY Zenon DEF Fails
<1>6. UNCHANGED <<del, target, copy>> => Aims
  BY Zenon DEF RequestInv
<1>7. UNCHANGED <<store, post>> => Wrote
  BY Zenon DEF PostMoves, RequestWrites
<1>8. ASSUME BrokerStart PROVE Kept
  <2>1. UNCHANGED <<store, post, del, target, copy, stream, dead, pel, crashes>>
    BY Zenon, <1>8 DEF BrokerStart, EnsureGroup, faultVars
  <2>2. QED
    BY Zenon, <1>2, <1>6, <1>7, <2>1
<1>9. ASSUME BrokerCrash PROVE Kept
  <2>1. UNCHANGED <<store, stream, dead, pel, target, copy>> /\ crashes' # 0
    BY <1>1, <1>3, <1>9 DEF BrokerCrash, Dies
  <2>2. Wrote
    BY Zenon, <1>1, <1>9, <2>1 DEF BrokerCrash, InFlight, PostStates, PostMoves, RequestWrites
  <2>3. Aims
    BY Zenon, <1>9, <2>1 DEF BrokerCrash, InFlight, RequestInv
  <2>4. QED
    BY Zenon, <1>2, <2>1, <2>2, <2>3
<1>10. ASSUME NEW j \in Jobs, PostPut(j) PROVE Kept
  <2>1. UNCHANGED <<stream, dead, pel, del, target, copy, crashes>>
    BY Zenon, <1>3, <1>4, <1>5, <1>10 DEF PostPut, PostGoto
  <2>2. /\ post[j] = "new" /\ post'[j] \in {"enqueue", "500"}
        /\ \A k \in Jobs : k # j => post'[k] = post[k]
    BY Zenon, <1>1, <1>10 DEF PostPut, PostGoto
  <2>3. \A k \in Jobs : store'[k] = store[k] \/ (k = j /\ store'[k] = NewJob)
    BY Zenon, <1>1, <1>10 DEF PostPut, Put
  <2>4. Wrote
    BY Zenon, <2>2, <2>3 DEF PostMoves, RequestWrites
  <2>5. QED
    BY Zenon, <1>2, <1>6, <2>1, <2>4
<1>11. ASSUME NEW j \in Jobs, PostEnqueue(j) PROVE Kept
  <2>1. UNCHANGED <<store, del, target, copy, crashes>>
    BY Zenon, <1>4, <1>5, <1>11 DEF PostEnqueue, PostGoto
  <2>2. /\ post[j] = "enqueue" /\ post'[j] \in {"202", "compensate"}
        /\ \A k \in Jobs : k # j => post'[k] = post[k]
    BY Zenon, <1>1, <1>11 DEF PostEnqueue, PostGoto
  <2>3. Wrote
    BY Zenon, <2>1, <2>2 DEF PostMoves, RequestWrites
  <2>4. UNCHANGED <<dead, pel>>
    BY Zenon, <1>3, <1>11 DEF PostEnqueue, Enqueue
  <2>5. CASE Enqueue(Provision(j))
    <3>1. Provision(j) \in Message /\ Provision(j).job = j
      BY Zenon DEF Provision, Message
    <3>2. /\ Len(stream') = Len(stream) + 1 /\ stream'[Len(stream) + 1] = Provision(j)
          /\ \A i \in 1 .. Len(stream) : stream'[i] = stream[i]
      BY <1>1, <2>5, <3>1 DEF Enqueue
    <3>3. Requested(Provision(j))
      BY Zenon, <2>2, <3>1 DEF Requested
    <3>4. \A i \in 1 .. Len(stream') : i \in 1 .. Len(stream) \/ i = Len(stream) + 1
      BY <1>1, <3>2
    <3>5. Len(stream) <= Len(stream')
      BY <1>1, <3>2
    <3>6. QED
      BY Zenon, <1>6, <2>1, <2>3, <2>4, <3>2, <3>3, <3>4, <3>5 DEF Grown
  <2>6. CASE UNCHANGED queueVars
    BY Zenon, <1>2, <1>3, <1>6, <2>1, <2>3, <2>4, <2>6
  <2>7. QED
    BY Zenon, <1>11, <2>5, <2>6 DEF PostEnqueue
<1>12. ASSUME NEW j \in Jobs, PostCompensate(j) PROVE Kept
  <2>1. UNCHANGED <<stream, dead, pel, del, target, copy, crashes>>
    BY Zenon, <1>3, <1>4, <1>5, <1>12 DEF PostCompensate, PostGoto
  <2>2. /\ post[j] = "compensate" /\ post'[j] = "500"
        /\ \A k \in Jobs : k # j => post'[k] = post[k]
    BY Zenon, <1>1, <1>12 DEF PostCompensate, PostGoto
  <2>3. [NewJob EXCEPT !.status = "failed"].status = "failed"
    BY Zenon DEF NewJob
  <2>4. \A k \in Jobs : store'[k] = store[k] \/ (k = j /\ store'[k].status = "failed")
    BY Zenon, <1>1, <1>12, <2>3 DEF PostCompensate, Put
  <2>5. Wrote
    BY Zenon, <2>2, <2>4 DEF PostMoves, RequestWrites
  <2>6. QED
    BY Zenon, <1>2, <1>6, <2>1, <2>5
<1>13. ASSUME NEW d \in Deletes, NEW j \in Jobs, DelGet(d, j) PROVE Kept
  <2>1. UNCHANGED <<store, post, stream, dead, pel, crashes>> /\ del[d] = "new"
    BY Zenon, <1>3, <1>4, <1>5, <1>13 DEF DelGet, DelGoto
  <2>2. /\ del'[d] # "new"
        /\ del'[d] = "put" => copy'[d] = [store[j] EXCEPT !.status = "deleting"]
    BY Zenon, <1>1, <1>13 DEF DelGet, DelGoto, DelRoute
  <2>3. [store[j] EXCEPT !.status = "deleting"].status = "deleting"
    BY Zenon, <1>1 DEF JobRecord
  <2>4. /\ target'[d] = {j}
        /\ \A e \in Deletes : e # d =>
             del'[e] = del[e] /\ target'[e] = target[e] /\ copy'[e] = copy[e]
    BY Zenon, <1>1, <1>13 DEF DelGet, DelGoto
  <2>5. Aims
    BY <2>1, <2>2, <2>3, <2>4 DEF RequestInv
  <2>6. QED
    BY Zenon, <1>2, <1>7, <2>1, <2>5
<1>14. ASSUME NEW d \in Deletes, NEW j \in Jobs, DelPut(d, j) PROVE Kept
  <2>1. UNCHANGED <<post, stream, dead, pel, target, crashes>> /\ del[d] = "put" /\ j \in target[d]
    BY Zenon, <1>3, <1>4, <1>5, <1>14 DEF DelPut, DelGoto
  <2>2. /\ del'[d] \in {"enqueue", "500"}
        /\ \A e \in Deletes : e # d => del'[e] = del[e] /\ copy'[e] = copy[e]
    BY Zenon, <1>1, <1>14 DEF DelPut, DelGoto
  <2>3. \A k \in Jobs : store'[k] = store[k] \/ (k = j /\ store'[k] = copy[d])
    BY Zenon, <1>1, <1>14 DEF DelPut, Put
  <2>4. Wrote
    BY Zenon, <2>1, <2>3 DEF PostMoves, RequestWrites
  <2>5. Aims
    BY Zenon, <2>1, <2>2 DEF RequestInv
  <2>6. QED
    BY Zenon, <1>2, <2>1, <2>4, <2>5
<1>15. ASSUME NEW d \in Deletes, NEW j \in Jobs, DelEnqueue(d, j) PROVE Kept
  <2>1. UNCHANGED <<store, post, target, copy, crashes>> /\ del[d] = "enqueue" /\ j \in target[d]
    BY Zenon, <1>4, <1>5, <1>15 DEF DelEnqueue, DelGoto
  <2>2. /\ del'[d] \in {"202", "500"}
        /\ \A e \in Deletes : e # d => del'[e] = del[e]
    BY Zenon, <1>1, <1>15 DEF DelEnqueue, DelGoto
  <2>3. Aims
    BY Zenon, <2>1, <2>2 DEF RequestInv
  <2>4. UNCHANGED <<dead, pel>>
    BY Zenon, <1>3, <1>15 DEF DelEnqueue, Enqueue
  <2>5. CASE Enqueue(Deprovision(j))
    <3>1. Deprovision(j) \in Message /\ Deprovision(j).job = j
      BY Zenon DEF Deprovision, Message
    <3>2. /\ Len(stream') = Len(stream) + 1 /\ stream'[Len(stream) + 1] = Deprovision(j)
          /\ \A i \in 1 .. Len(stream) : stream'[i] = stream[i]
      BY <1>1, <2>5, <3>1 DEF Enqueue
    <3>3. Requested(Deprovision(j))
      BY Zenon, <2>1, <3>1 DEF Requested
    <3>4. \A i \in 1 .. Len(stream') : i \in 1 .. Len(stream) \/ i = Len(stream) + 1
      BY <1>1, <3>2
    <3>5. Len(stream) <= Len(stream')
      BY <1>1, <3>2
    <3>6. QED
      BY Zenon, <1>7, <2>1, <2>3, <2>4, <3>2, <3>3, <3>4, <3>5 DEF Grown
  <2>6. CASE UNCHANGED queueVars
    BY Zenon, <1>2, <1>3, <1>7, <2>1, <2>3, <2>4, <2>6
  <2>7. QED
    BY Zenon, <1>15, <2>5, <2>6 DEF DelEnqueue
<1>16. Kept
  BY Zenon, <1>8, <1>9, <1>10, <1>11, <1>12, <1>13, <1>14, <1>15 DEF BrokerNext, BrokerStep
<1>17. UNCHANGED <<pg, svc, pc, cur, loc>>
  BY Zenon DEF workerVars, handlerVars, dockerVars
<1>18. QED
  BY Zenon, <1>16, <1>17 DEF Requesting

\* Every step of the system is a step of the broker, of the loops of a worker
\* or of a handler.
Steps ==
  \/ Requesting
  \/ Loops /\ UNCHANGED brokerVars
  \/ UNCHANGED brokerVars /\ \E h \in Busy : Moves(h)

LEMMA NextSteps ==
  TypeInv /\ RequestInv /\ [Next]_vars => Steps /\ RequestInv'
<1> SUFFICES ASSUME TypeInv, RequestInv, [Next]_vars PROVE Steps /\ RequestInv'
  OBVIOUS
<1>1. UNCHANGED brokerVars => RequestInv'
  BY Zenon DEF brokerVars, RequestInv
<1>2. CASE BrokerNext /\ UNCHANGED workerVars
  BY Zenon, <1>2, BrokerMoves DEF Steps
<1>3. CASE WorkerNext /\ UNCHANGED brokerVars
  BY Zenon, <1>1, <1>3, WorkerMoves DEF Steps
<1>4. CASE UNCHANGED vars
  <2>1. /\ UNCHANGED <<store, stream, pg, svc, dead, pel, crashes, pc, cur, loc>>
        /\ UNCHANGED brokerVars
    BY Zenon, <1>4 DEF vars, queueVars, faultVars, workerVars, handlerVars, dockerVars
  <2>2. Loops
    BY Zenon, <2>1 DEF Loops, Same, Busy, Paired
  <2>3. QED
    BY Zenon, <1>1, <2>1, <2>2 DEF Steps
<1>5. QED
  BY Zenon, <1>2, <1>3, <1>4 DEF Next

\* What a handler does with the record it reads (worker.go 149-203, 262-291).
LEMMA DecisionFacts ==
  ASSUME NEW rec \in JobRecord, NEW action \in {"provision", "deprovision"}
  PROVE  LET d == Decision(action, rec) IN
         /\ action = "provision" => d[1] \in {"ack", "begin", "failed"}
         /\ action = "deprovision" => d[1] \in {"ack", "unregister", "teardown"}
         /\ d[1] \in {"ack", "unregister", "teardown"} => d[2] = rec
         /\ d[1] = "ack" => rec.status \notin Triable \/ action = "deprovision"
         /\ d[1] = "ack" => rec.status \in {"absent", "deleted"} \/ action = "provision"
         /\ d[1] \in {"unregister", "teardown"} => rec.status # "deleted"
         /\ d[1] \in {"begin", "failed"} =>
              /\ rec.status \in Triable
              /\ d[2].status = IF d[1] = "begin" THEN "provisioning" ELSE "failed"
              /\ d[2].attempts = rec.attempts + 1 /\ d[2].http = rec.http
              /\ d[1] = "begin" => rec.attempts < MaxAttempts
              /\ d[1] = "failed" => rec.attempts >= MaxAttempts
<1> DEFINE counted == [rec EXCEPT !.attempts = @ + 1]
           f == [counted EXCEPT !.status = "failed"]
           b == [counted EXCEPT !.status = "provisioning"]
<1>1. rec.status \in Status /\ rec.attempts \in Nat /\ MaxAttempts \in Nat
  BY Zenon, WorkerAssumption DEF JobRecord
<1>2. f.status = "failed" /\ f.attempts = rec.attempts + 1 /\ f.http = rec.http
  BY Zenon DEF JobRecord
<1>3. b.status = "provisioning" /\ b.attempts = rec.attempts + 1 /\ b.http = rec.http
  BY Zenon DEF JobRecord
<1>4. CASE rec.status = "absent"
  <2>1. Decision(action, rec) = <<"ack", rec>>
    BY Zenon, <1>4 DEF Decision
  <2>2. QED
    BY <1>4, <2>1 DEF Triable
<1>5. CASE rec.status # "absent" /\ action = "deprovision"
  <2>1. Decision(action, rec) = DeprovisionDecision(rec)
    BY Zenon, <1>5 DEF Decision
  <2>2. QED
    BY <1>5, <2>1 DEF DeprovisionDecision
<1>6. CASE rec.status # "absent" /\ action = "provision"
  <2>1. Decision(action, rec) = ProvisionDecision(rec)
    BY Zenon, <1>6 DEF Decision
  <2>2. CASE rec.status \in {"ready", "deleting", "deleted"}
    <3>1. Decision(action, rec) = <<"ack", rec>>
      BY Zenon, <2>1, <2>2 DEF ProvisionDecision
    <3>2. QED
      BY <1>6, <2>2, <3>1 DEF Triable
  <2>3. CASE rec.status \in Triable /\ rec.attempts >= MaxAttempts
    <3>1. Decision(action, rec) = <<"failed", f>>
      BY Zenon, <2>1, <2>3 DEF ProvisionDecision, Triable
    <3> HIDE DEF f
    <3>2. QED
      BY <1>1, <1>2, <1>6, <2>3, <3>1
  <2>4. CASE rec.status \in Triable /\ ~(rec.attempts >= MaxAttempts)
    <3>1. Decision(action, rec) = <<"begin", b>>
      BY Zenon, <2>1, <2>4 DEF ProvisionDecision, Triable
    <3> HIDE DEF b
    <3>2. QED
      BY <1>1, <1>3, <1>6, <2>4, <3>1
  <2>5. QED
    BY Zenon, <1>1, <1>6, <2>2, <2>3, <2>4 DEF Status, Triable
<1>7. QED
  BY Zenon, <1>4, <1>5, <1>6

-----------------------------------------------------------------------------
(* The stream *)

\* A group is only ever created over an empty stream.
LEMMA GroupAtStart ==
  ASSUME TypeInv, MessageInv, EnsureGroup
  PROVE  UNCHANGED <<stream, cursor, pel, idle>> /\ group'
<1>1. cursor \in 0 .. Len(stream)
  BY Zenon DEF TypeInv, QueueTypeOK
<1>2. Len(stream) \in Nat
  BY DEF TypeInv, QueueTypeOK
<1>3. ~group => cursor = Len(stream)
  BY <1>1, <1>2 DEF MessageInv
<1>4. QED
  BY Zenon, <1>3 DEF EnsureGroup

\* Enqueue adds its message at the end of the stream (queue.go 107-112).
LEMMA EnqueueShape ==
  ASSUME stream \in Seq(Message), NEW m \in Message, Enqueue(m)
  PROVE  /\ Len(stream') = Len(stream) + 1
         /\ stream'[Len(stream) + 1] = m
         /\ \A i \in 1 .. Len(stream) : stream'[i] = stream[i]
         /\ \A i \in 1 .. Len(stream') : i \in 1 .. Len(stream) \/ i = Len(stream) + 1
         /\ Grown
         /\ UNCHANGED <<group, cursor, pel, idle>>
<1>1. Len(stream) \in Nat
  OBVIOUS
<1>2. /\ Len(stream') = Len(stream) + 1
      /\ stream'[Len(stream) + 1] = m
      /\ \A i \in 1 .. Len(stream) : stream'[i] = stream[i]
  BY DEF Enqueue
<1>3. \A i \in 1 .. Len(stream') : i \in 1 .. Len(stream) \/ i = Len(stream) + 1
  BY <1>1, <1>2
<1>4. Grown
  BY <1>1, <1>2 DEF Grown
<1>5. QED
  BY Zenon, <1>2, <1>3, <1>4 DEF Enqueue

\* Every step of the broker keeps what is said of the stream, and adds one
\* message at most (main.go 47-75, api.go 80-181).
LEMMA BrokerMessages ==
  ASSUME TypeInv, MessageInv, BrokerNext
  PROVE  MessageInv' /\ Grown /\ UNCHANGED <<cursor, pel, idle>>
<1>1. /\ post \in [Jobs -> PostStates] /\ del \in [Deletes -> DelStates]
      /\ stream \in Seq(Message) /\ Len(stream) \in Nat
  BY DEF TypeInv, BrokerTypeOK, QueueTypeOK
<1>2. \A i \in 1 .. Len(stream) : stream[i].job \in Jobs
  <2>1. \A i \in 1 .. Len(stream) : stream[i] \in Message
    BY <1>1
  <2>2. QED
    BY Zenon, <2>1 DEF Message
<1>3. UNCHANGED queueVars => Grown /\ UNCHANGED <<stream, group, cursor, pel, idle>>
  BY <1>1 DEF queueVars, Grown
\* The stream does not change, and no job is put back.
<1>4. ASSUME Grown, UNCHANGED <<stream, cursor, pel, idle>>, group => group',
             serving' => serving \/ group',
             \A j \in Jobs : post[j] \notin {"new", "enqueue"} => post'[j] \notin {"new", "enqueue"}
      PROVE  MessageInv' /\ Grown /\ UNCHANGED <<cursor, pel, idle>>
  BY Zenon, <1>2, <1>4 DEF MessageInv
<1>5. ASSUME NEW j \in Jobs, NEW l, PostGoto(j, l)
      PROVE  /\ serving' = serving /\ post'[j] = l
             /\ \A k \in Jobs \ {j} : post'[k] = post[k]
  BY Zenon, <1>1, <1>5 DEF PostGoto
<1>6. CASE BrokerStart
  <2>1. UNCHANGED <<stream, cursor, pel, idle, post>> /\ group'
    BY Zenon, <1>6, GroupAtStart DEF BrokerStart
  <2>2. Grown
    BY <1>1, <2>1 DEF Grown
  <2>3. QED
    BY Zenon, <1>4, <2>1, <2>2
<1>7. CASE BrokerCrash
  <2>1. UNCHANGED queueVars /\ serving' = FALSE
        /\ \A j \in Jobs : post'[j] = post[j] \/ post'[j] = "lost"
    BY Zenon, <1>7 DEF BrokerCrash
  <2>2. QED
    BY <1>3, <1>4, <2>1
<1>8. ASSUME NEW j \in Jobs, PostPut(j) \/ PostCompensate(j)
      PROVE  MessageInv' /\ Grown /\ UNCHANGED <<cursor, pel, idle>>
  <2>1. /\ UNCHANGED queueVars
        /\ PostGoto(j, "500") \/ (PostGoto(j, "enqueue") /\ post[j] = "new")
    BY Zenon, <1>8 DEF PostPut, PostCompensate
  <2>2. QED
    BY <1>3, <1>4, <1>5, <2>1
<1>9. ASSUME NEW d \in Deletes, NEW j \in Jobs, DelGet(d, j) \/ DelPut(d, j)
      PROVE  MessageInv' /\ Grown /\ UNCHANGED <<cursor, pel, idle>>
  <2>1. UNCHANGED queueVars /\ UNCHANGED <<serving, post>>
    BY Zenon, <1>9 DEF DelGet, DelPut, DelGoto
  <2>2. QED
    BY <1>3, <1>4, <2>1
\* A message is added by a request that is served.
<1>10. ASSUME NEW m \in Message, Enqueue(m), serving, serving' = serving,
              \A j \in Jobs : post[j] \notin {"new", "enqueue"}
                               => post'[j] \notin {"new", "enqueue"},
              m.action = "provision" => /\ post[m.job] = "enqueue"
                                        /\ post'[m.job] \notin {"new", "enqueue"}
       PROVE  MessageInv' /\ Grown /\ UNCHANGED <<cursor, pel, idle>>
  <2>1. /\ Len(stream') = Len(stream) + 1
        /\ stream'[Len(stream) + 1] = m
        /\ \A i \in 1 .. Len(stream) : stream'[i] = stream[i]
        /\ \A i \in 1 .. Len(stream') : i \in 1 .. Len(stream) \/ i = Len(stream) + 1
    BY Zenon, <1>1, <1>10, EnqueueShape
  <2>2. Grown /\ UNCHANGED <<group, cursor, pel, idle>>
    BY Zenon, <1>1, <1>10, EnqueueShape
  <2>3. group' /\ (serving' => group')
    BY Zenon, <1>10, <2>2 DEF MessageInv
  <2>4. \A i \in 1 .. Len(stream) : stream[i].action = "provision" => stream[i] # m
    BY Zenon, <1>10 DEF MessageInv
  <2>5. ASSUME NEW i \in 1 .. Len(stream'), stream'[i].action = "provision"
        PROVE  post'[stream'[i].job] \notin {"new", "enqueue"}
    <3>1. CASE i = Len(stream) + 1
      BY Zenon, <1>10, <2>1, <2>5, <3>1
    <3>2. CASE i \in 1 .. Len(stream)
      BY Zenon, <1>2, <1>10, <2>1, <2>5, <3>2 DEF MessageInv
    <3>3. QED
      BY Zenon, <2>1, <3>1, <3>2
  <2>6. ASSUME NEW i \in 1 .. Len(stream'), NEW k \in 1 .. Len(stream'),
               stream'[i] = stream'[k], stream'[i].action = "provision"
        PROVE  i = k
    <3>1. CASE i \in 1 .. Len(stream) /\ k \in 1 .. Len(stream)
      BY Zenon, <2>1, <2>6, <3>1 DEF MessageInv
    <3>2. CASE i = Len(stream) + 1 \/ k = Len(stream) + 1
      <4>1. i = Len(stream) + 1 /\ k = Len(stream) + 1
        BY Zenon, <2>1, <2>4, <2>6, <3>2
      <4>2. QED
        BY Zenon, <4>1
    <3>3. QED
      BY Zenon, <2>1, <3>1, <3>2
  <2>7. QED
    BY Zenon, <2>2, <2>3, <2>5, <2>6 DEF MessageInv
<1>11. ASSUME NEW j \in Jobs, PostEnqueue(j)
       PROVE  MessageInv' /\ Grown /\ UNCHANGED <<cursor, pel, idle>>
  <2>1. /\ serving /\ post[j] = "enqueue"
        /\ PostGoto(j, "202") \/ PostGoto(j, "compensate")
        /\ Enqueue(Provision(j)) \/ UNCHANGED queueVars
    BY Zenon, <1>11 DEF PostEnqueue
  <2>2. /\ serving' = serving /\ post'[j] \notin {"new", "enqueue"}
        /\ \A k \in Jobs : post[k] \notin {"new", "enqueue"} => post'[k] \notin {"new", "enqueue"}
    <3>1. PICK l \in {"202", "compensate"} : PostGoto(j, l)
      BY Zenon, <2>1
    <3>2. serving' = serving /\ post'[j] = l /\ \A k \in Jobs \ {j} : post'[k] = post[k]
      BY Zenon, <1>5, <3>1
    <3>3. l \notin {"new", "enqueue"}
      OBVIOUS
    <3>4. QED
      BY Zenon, <3>2, <3>3
  <2>3. Provision(j) \in Message /\ Provision(j).job = j
    BY Zenon DEF Provision, Message
  <2>4. CASE Enqueue(Provision(j))
    BY Zenon, <1>10, <2>1, <2>2, <2>3, <2>4
  <2>5. CASE UNCHANGED queueVars
    BY <1>3, <1>4, <2>2, <2>5
  <2>6. QED
    BY Zenon, <2>1, <2>4, <2>5
<1>12. ASSUME NEW d \in Deletes, NEW j \in Jobs, DelEnqueue(d, j)
       PROVE  MessageInv' /\ Grown /\ UNCHANGED <<cursor, pel, idle>>
  <2>1. /\ serving /\ UNCHANGED <<serving, post>>
        /\ Enqueue(Deprovision(j)) \/ UNCHANGED queueVars
    BY Zenon, <1>12 DEF DelEnqueue, DelGoto
  <2>2. Deprovision(j) \in Message /\ Deprovision(j).action = "deprovision"
    BY Zenon DEF Deprovision, Message
  <2>3. CASE Enqueue(Deprovision(j))
    BY Zenon, <1>10, <2>1, <2>2, <2>3
  <2>4. CASE UNCHANGED queueVars
    BY <1>3, <1>4, <2>1, <2>4
  <2>5. QED
    BY Zenon, <2>1, <2>3, <2>4
<1>13. QED
  BY Zenon, <1>6, <1>7, <1>8, <1>9, <1>11, <1>12 DEF BrokerNext, BrokerStep

\* No step of a worker passes over a message, whatever fails: the group moves
\* on over what it delivers (queue.go 89-105, 114-158).
LEMMA WorkerMessages ==
  ASSUME TypeInv, MessageInv, WorkerNext, UNCHANGED brokerVars
  PROVE  /\ MessageInv' /\ UNCHANGED stream
         /\ \A k \in 1 .. Len(stream) : k > cursor => k > cursor' \/ k \in pel'
<1> DEFINE Passes == UNCHANGED <<stream, group, cursor>>
<1>1. UNCHANGED queueVars => Passes
  BY Zenon DEF queueVars
<1>3. CASE \E w \in Workers : WorkerStart(w)
  <2>1. EnsureGroup
    BY Zenon, <1>3 DEF WorkerStart
  <2>2. UNCHANGED <<stream, cursor>> /\ group'
    BY Zenon, <2>1, GroupAtStart
  <2>3. QED
    BY Zenon, <2>2 DEF MessageInv, brokerVars
<1>4. CASE \E h \in Handlers : Dequeue(h)
  <2>1. UNCHANGED <<stream, group>> /\ cursor' = cursor + 1 /\ pel' = pel \cup {cursor + 1}
    BY Zenon, <1>4 DEF Dequeue, Deliver
  <2>2. cursor \in Nat
    BY DEF TypeInv, QueueTypeOK
  <2>3. \A k \in 1 .. Len(stream) : k > cursor => k > cursor' \/ k \in pel'
    BY <2>1, <2>2
  <2>4. MessageInv'
    BY Zenon, <2>1 DEF MessageInv, brokerVars
  <2>5. QED
    BY Zenon, <2>1, <2>3, <2>4
<1>5. ASSUME Passes
      PROVE  /\ MessageInv' /\ UNCHANGED stream
             /\ \A k \in 1 .. Len(stream) : k > cursor => k > cursor' \/ k \in pel'
  BY Zenon, <1>5 DEF MessageInv, brokerVars
<1>6. CASE (\E w \in Workers : WorkerCrash(w)) \/ (\E h \in Handlers : DequeueNothing(h))
  <2>1. UNCHANGED queueVars
    BY Zenon, <1>6 DEF WorkerCrash, DequeueNothing
  <2>2. QED
    BY Zenon, <1>1, <1>5, <2>1
<1>7. CASE \E i \in pel : MinIdlePasses(i)
  BY Zenon, <1>5, <1>7 DEF MinIdlePasses, BecomeIdle
<1>8. CASE \E h \in Handlers : Reclaim(h)
  BY Zenon, <1>5, <1>8 DEF Reclaim, Claim
<1>9. CASE \E h \in Handlers : PutTransient(h) \/ WriteDeadLetter(h) \/ AckMessage(h) \/ AckFailed(h)
  <2>1. \A i : TryAck(i) => Passes
    BY Zenon, <1>1 DEF TryAck, Ack
  <2>2. \A e : DeadLetter(e) => Passes
    BY Zenon DEF DeadLetter
  <2>3. Passes
    BY Zenon, <1>1, <1>9, <2>1, <2>2 DEF PutTransient, WriteDeadLetter, AckMessage, AckFailed
  <2>4. QED
    BY Zenon, <1>5, <2>3
<1>10. CASE \E h \in Handlers : \/ Get(h) \/ PutProvisioning(h) \/ ProvisionPostgres(h)
                                \/ ProvisionHTTP(h) \/ PutReady(h) \/ Register(h) \/ PutFailed(h)
                                \/ Unregister(h) \/ Teardown(h) \/ PutTornDown(h)
  <2>1. UNCHANGED queueVars
    BY Zenon, <1>10 DEF Get, PutProvisioning, ProvisionPostgres, ProvisionHTTP, PutReady, Register,
       PutFailed, Unregister, Teardown, PutTornDown
  <2>2. QED
    BY Zenon, <1>1, <1>5, <2>1
<1>11. QED
  BY Zenon, <1>3, <1>4, <1>6, <1>7, <1>8, <1>9, <1>10 DEF WorkerNext, HandlerStep

\* MessageInv needs no condition at all: nobody removes a message.
LEMMA MessageNext == TypeInv /\ MessageInv /\ [Next]_vars => MessageInv'
<1> SUFFICES ASSUME TypeInv, MessageInv, [Next]_vars PROVE MessageInv'
  OBVIOUS
<1>1. CASE UNCHANGED vars
  BY Zenon, <1>1 DEF vars, queueVars, brokerVars, MessageInv
<1>2. QED
  BY Zenon, <1>1, BrokerMessages, WorkerMessages DEF Next

-----------------------------------------------------------------------------
(* Two invariants that need no condition *)

LEMMA RequestInit == Init => RequestInv
  BY Zenon DEF Init, BrokerInit, RequestInv

\* A DELETE that is about to write its copy of the record back writes deleting
\* (api.go 166-173).
THEOREM RequestInvariant == Spec => []RequestInv
<1>1. QED
  BY RequestInit, NextSteps, TypeInvariant, PTL DEF Spec

LEMMA MessageInit == Init => MessageInv
<1> SUFFICES ASSUME Init PROVE MessageInv
  OBVIOUS
<1>1. stream = << >> /\ serving = FALSE
  BY Zenon DEF Init, QueueInit, BrokerInit
<1>2. QED
  BY <1>1 DEF MessageInv

\* A job is queued for provisioning once at most, and nothing before the
\* consumer group exists (queue.go 99-104, api.go 82-101).
THEOREM MessageInvariant == Spec => []MessageInv
<1>1. QED
  BY MessageInit, MessageNext, TypeInvariant, PTL DEF Spec

=============================================================================
