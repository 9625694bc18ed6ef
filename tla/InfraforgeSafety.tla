-------------------------- MODULE InfraforgeSafety --------------------------
(***************************************************************************)
(* Accepted work is not lost, no message has two handlers and no job is    *)
(* tried too often: for any jobs, workers, requests and bounds, whatever   *)
(* crashes, lost deliveries, failed acknowledgements and provisioning      *)
(* errors there are, provided the environment is Reliable.  Without any    *)
(* one conjunct of Reliable TLC finds NoWorkLost violated on a small       *)
(* instance.                                                               *)
(***************************************************************************)
EXTENDS InfraforgeWork, InfraforgeLifecycle, FiniteSetTheorems

\* With ReclaimCount one, what is claimed is one message.
LEMMA ClaimOne ==
  ASSUME ReclaimCount = 1, TypeInv, NEW B \in Claimable, NEW i \in B
  PROVE  B \ {i} = {}
<1>1. IsFiniteSet(B)
  <2>1. IsFiniteSet(1 .. cursor)
    BY FS_Interval DEF TypeInv, QueueTypeOK
  <2>2. B \subseteq 1 .. cursor
    BY Zenon DEF Claimable, TypeInv, QueueTypeOK
  <2>3. QED
    BY Zenon, <2>1, <2>2, FS_Subset
<1>2. /\ IsFiniteSet(B \ {i})
      /\ Cardinality(B \ {i}) = Cardinality(B) - 1
  BY Zenon, <1>1, FS_RemoveElement
<1>3. Cardinality(B) \in Nat /\ Cardinality(B \ {i}) \in Nat /\ Cardinality(B) <= 1
  BY Zenon, <1>1, <1>2, FS_CardinalityType DEF Claimable
<1>4. Cardinality(B \ {i}) = 0
  BY <1>2, <1>3
<1>5. QED
  BY Zenon, <1>2, <1>4, FS_EmptySet

\* The invariant holds at the start.
LEMMA WorkInit == Init => WorkInv
<1> SUFFICES ASSUME Init PROVE WorkInv
  OBVIOUS
<1>1. Busy = {} /\ \A h \in Handlers : batch[h] = {} /\ pc[h] = "down"
  BY Zenon DEF Init, WorkerInit, Busy
<1>2. HandlerInv
  BY Zenon, <1>1 DEF HandlerInv
<1>3. Len(stream) = 0 /\ ~serving
  BY Zenon DEF Init, QueueInit, BrokerInit
<1>4. MessageInv
  BY <1>3 DEF MessageInv
<1>5. CopyInv /\ NoWorkLost
  BY Zenon DEF Init, BrokerInit, CopyInv, NoWorkLost
<1>6. QED
  BY Zenon, <1>1, <1>2, <1>4, <1>5 DEF WorkInv

\* Every step of the system keeps it.
LEMMA WorkNext ==
  ASSUME Reliable
  PROVE  TypeInv /\ TypeInv' /\ WorkInv /\ [Next]_vars => WorkInv'
<1> SUFFICES ASSUME TypeInv, TypeInv', WorkInv, [Next]_vars PROVE WorkInv'
  OBVIOUS
<1>1. CASE BrokerNext /\ UNCHANGED workerVars
  BY Zenon, <1>1, BrokerWork
<1>2. CASE WorkerNext /\ UNCHANGED brokerVars
  <2>1. ClaimsApart
    BY Zenon, ClaimOne DEF ClaimsApart, Reliable, Prompt
  <2>2. QED
    BY Zenon, <1>2, <2>1, WorkerWork
<1>3. CASE UNCHANGED vars
  <2>1. UNCHANGED <<store, stream, group, cursor, pel, idle, handlerVars>> /\ UNCHANGED brokerVars
    BY Zenon, <1>3 DEF vars, queueVars, workerVars
  <2>2. Busy' = Busy /\ cursor \in Nat
    BY <2>1 DEF handlerVars, Busy, TypeInv, QueueTypeOK
  <2>3. \A g \in Busy' : Keeps(g)
    BY Zenon, <2>1, <2>2 DEF Keeps, handlerVars, WorkInv, HandlerInv
  <2>4. /\ \A g \in Handlers \ Busy' : batch'[g] = {}
        /\ \A f, g \in Handlers : f[1] = g[1] /\ pc'[f] = "down" => pc'[g] = "down"
    BY Zenon, <2>1, <2>2 DEF handlerVars, WorkInv, HandlerInv
  <2>5. QED
    BY <2>1, <2>2, <2>3, <2>4, LoopWork DEF Looped
<1>4. QED
  BY Zenon, <1>1, <1>2, <1>3 DEF Next

\* The invariant is inductive when the environment is Reliable.
THEOREM WorkInvariant ==
  ASSUME Reliable
  PROVE  Spec => []WorkInv
<1>1. TypeInv /\ TypeInv' /\ WorkInv /\ [Next]_vars => WorkInv'
  BY Zenon, WorkNext
<1>2. QED
  BY <1>1, WorkInit, TypeInvariant, PTL DEF Spec

\* A job that was accepted and is not settled has its provision message
\* waiting for a worker, whatever crashes, lost deliveries, failed
\* acknowledgements and provisioning errors there are (worker.go 145-260,
\* queue.go 114-158, api.go 85-104).
THEOREM AcceptedWorkIsKept ==
  ASSUME Reliable
  PROVE  Spec => []NoWorkLost
<1>1. WorkInv => NoWorkLost
  BY Zenon DEF WorkInv
<1>2. QED
  BY <1>1, WorkInvariant, PTL

\* A message has one handler at most, and the stream is as MessageInv says,
\* whatever calls fail.
LEMMA HandlersNext ==
  ASSUME Prompt
  PROVE  /\ TypeInv /\ TypeInv' /\ MessageInv /\ HandlerInv /\ [Next]_vars
         => MessageInv' /\ HandlerInv'
<1> SUFFICES ASSUME TypeInv, TypeInv', MessageInv, HandlerInv, [Next]_vars
             PROVE  MessageInv' /\ HandlerInv'
  OBVIOUS
<1>1. ASSUME UNCHANGED <<cursor, pel, idle>>, UNCHANGED workerVars PROVE HandlerInv'
  <2>1. UNCHANGED <<cursor, pel, idle, pc, cur, batch, prompt>>
    BY Zenon, <1>1 DEF workerVars, handlerVars
  <2>2. Busy' = Busy
    BY Zenon, <2>1 DEF Busy
  <2>3. QED
    BY <2>1, <2>2 DEF HandlerInv
<1>2. CASE BrokerNext /\ UNCHANGED workerVars
  <2>1. MessageInv' /\ UNCHANGED <<cursor, pel, idle>>
    BY Zenon, <1>2, BrokerMessages
  <2>2. QED
    BY <1>1, <1>2, <2>1
<1>3. CASE WorkerNext /\ UNCHANGED brokerVars
  <2>1. ClaimsApart /\ ~SlowHandlers
    BY Zenon, ClaimOne DEF ClaimsApart, Prompt
  <2>2. QED
    BY Zenon, <1>3, <2>1, WorkerHandlers, WorkerMessages
<1>4. CASE UNCHANGED vars
  <2>1. /\ UNCHANGED <<stream, group, cursor, pel, idle, serving, post>>
        /\ UNCHANGED workerVars
    BY Zenon, <1>4 DEF vars, queueVars, brokerVars
  <2>2. MessageInv'
    BY Zenon, <2>1 DEF MessageInv
  <2>3. QED
    BY <1>1, <2>1, <2>2
<1>5. QED
  BY Zenon, <1>2, <1>3, <1>4 DEF Next

\* Under these two conditions alone they are invariants.
THEOREM HandlersInvariant ==
  ASSUME Prompt
  PROVE  Spec => [](MessageInv /\ HandlerInv)
<1>1. Init => MessageInv /\ HandlerInv
  BY WorkInit DEF WorkInv
<1>2. TypeInv /\ TypeInv' /\ (MessageInv /\ HandlerInv) /\ [Next]_vars => (MessageInv /\ HandlerInv)'
  BY HandlersNext
<1>3. QED
  BY <1>1, <1>2, TypeInvariant, PTL DEF Spec

\* No message is in the hands of two handlers, neither of the main loops nor of
\* the reclaim loops, whatever calls fail and however often processes die
\* (worker.go 91-143), when handlers are Prompt: with one worker, whatever the
\* batches, and with any number of workers that reclaim one message at a time.
THEOREM MessagesAreExclusive ==
  ASSUME Prompt
  PROVE  Spec => []OneHandlerPerMessage
<1>1. HandlerInv => OneHandlerPerMessage
  BY Zenon DEF HandlerInv, OneHandlerPerMessage
<1>2. QED
  BY <1>1, HandlersInvariant, PTL

-----------------------------------------------------------------------------
(* The attempts of a job are counted *)

\* The count is right at the start, and every step keeps it.
LEMMA CountInit == Init => CountInv
<1> SUFFICES ASSUME Init PROVE CountInv
  OBVIOUS
<1>1. Busy = {} /\ \A j \in Jobs : calls[j] = 0
  BY Zenon DEF Init, WorkerInit, Busy
<1>2. \A j \in Jobs : store[j].status = "absent"
  BY Zenon DEF Init, StoreInit, NotFound
<1>3. \A j \in Jobs : RecordCounts(j)
  <2>1. 0 <= MaxAttempts /\ "absent" \notin Triable
    BY WorkerAssumption DEF Triable
  <2>2. QED
    BY Zenon, <1>1, <1>2, <2>1 DEF RecordCounts
<1>4. QED
  BY Zenon, <1>1, <1>3 DEF CountInv

LEMMA CountNext ==
  ASSUME Reliable
  PROVE  TypeInv /\ WorkInv /\ CountInv /\ [Next]_vars => CountInv'
<1> SUFFICES ASSUME TypeInv, WorkInv, CountInv, [Next]_vars PROVE CountInv'
  OBVIOUS
<1>1. CASE BrokerNext /\ UNCHANGED workerVars
  BY Zenon, <1>1, BrokerCount
<1>2. CASE WorkerNext /\ UNCHANGED brokerVars
  <2>1. ClaimsApart
    BY Zenon, ClaimOne DEF ClaimsApart, Reliable, Prompt
  <2>2. QED
    BY Zenon, <1>2, <2>1, WorkerCount
<1>3. CASE UNCHANGED vars
  <2>1. UNCHANGED <<store, stream, calls, brokerVars>>
    BY Zenon, <1>3 DEF vars, queueVars, workerVars, dockerVars
  <2>2. UNCHANGED <<pc, cur, loc>> /\ Busy' = Busy
    BY Zenon, <1>3 DEF vars, workerVars, handlerVars, Busy
  <2>3. QED
    BY Zenon, <2>1, <2>2, LoopCount
<1>4. QED
  BY Zenon, <1>1, <1>2, <1>3 DEF Next

\* Provision is called at most MaxAttempts times for an accepted job, however
\* many workers, crashes and redeliveries there are and whatever stale copy a
\* DELETE writes over the counter (worker.go 181-203, model.go 48-52), in a
\* Reliable environment.
THEOREM AttemptsAreCapped ==
  ASSUME Reliable
  PROVE  Spec => []AttemptsCapped
<1>1. CountInv => AttemptsCapped
  BY Zenon DEF CountInv, AttemptsCapped, Counted, RecordCounts
<1>2. TypeInv /\ WorkInv /\ CountInv /\ [Next]_vars => CountInv'
  BY Zenon, CountNext
<1>3. QED
  BY <1>1, <1>2, CountInit, TypeInvariant, WorkInvariant, PTL DEF Spec

-----------------------------------------------------------------------------
(* An accepted job follows its lifecycle *)

\* The control plane implements JobLifecycle: an accepted job goes through the
\* status diagram of model.go 8-12 and nothing else, its attempts are counted
\* one by one up to the cap, and it has an endpoint from ready to deleted
\* (worker.go 165-300, api.go 138-181).  That holds for any number of jobs,
\* requests and workers, for every error of a call but of a write to the job
\* store, and for crashes at any time, as long as handlers are Prompt
\* and clients delete a job once and only when they have seen it ready.
THEOREM JobsFollowLifecycle ==
  ASSUME Prompt, "put" \notin Faulty
  PROVE  PatientSpec /\ []OneDeleteEach => FollowsLifecycle
<1>1. PatientSpec => Spec
  <2>1. [Next /\ Patient]_vars => [Next]_vars
    BY Zenon
  <2>2. QED
    BY <2>1, PTL DEF PatientSpec, Spec
<1>2. Init => LifeInv /\ Lifecycle!Init
  BY Zenon, LifeInit
<1>3. /\ TypeInv /\ TypeInv' /\ RequestInv /\ (MessageInv /\ HandlerInv) /\ LifeInv
      /\ OneDeleteEach /\ OneDeleteEach' /\ [Next /\ Patient]_vars
      => LifeInv' /\ [Lifecycle!Next]_(Lifecycle!vars)
  BY Zenon, LifeNext
<1>4. QED
  BY <1>1, <1>2, <1>3, TypeInvariant, RequestInvariant, HandlersInvariant, PTL
  DEF PatientSpec, FollowsLifecycle, Lifecycle!Spec

====
