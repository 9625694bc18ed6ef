--------------------------- MODULE InfraforgeWork ---------------------------
(***************************************************************************)
(* The inductive invariants behind the safety theorems of the control      *)
(* plane, the discipline by which a handler keeps the first when the       *)
(* environment is Reliable, and the steps of the workers and of the        *)
(* broker, which keep both.                                                *)
(***************************************************************************)
EXTENDS InfraforgeMoves

\* No handler outlasts ReclaimMinIdle, and what Reclaim takes does not wait for
\* a handler while another worker could take it: Reclaim takes one message at a
\* time, or there is one worker.
Prompt ==
  /\ ~SlowHandlers
  /\ ReclaimCount = 1 \/ \E w \in Workers : Workers = {w}

\* Besides, reading and writing a job record does not fail, nor does a
\* teardown.
Reliable ==
  /\ Prompt
  /\ "get" \notin Faulty /\ "put" \notin Faulty
  /\ "teardown" \notin DockerErrs

-----------------------------------------------------------------------------
(* The inductive invariant *)

\* What a handler does fits its message, and what it is about to write fits
\* the outcome it has seen.
Fits(h) ==
  /\ pc[h] \in {"begin", "postgres", "http", "retry"}
       => stream[cur[h]].action = "provision"
  /\ pc[h] \in {"unregister", "teardown", "deleted"}
       => stream[cur[h]].action = "deprovision"
  /\ pc[h] = "ready" => loc[h].status = "ready"
  /\ pc[h] = "failed" => loc[h].status = "failed"
  /\ pc[h] = "deleted" => loc[h].status = "deleted"
  /\ pc[h] # "stuck"

\* A handler that is about to acknowledge a provision message has seen its
\* job settled, and settled it stays.
Settled(h) ==
  /\ pc[h] \in {"register", "ack", "failedAck"}
  /\ stream[cur[h]].action = "provision"
  => ~Unfinished(JobOf(h))

\* So does a DELETE that is about to write its copy back.
CopyInv == \A d \in Deletes : del[d] = "put" => copy[d].status = "deleting"

WorkInv ==
  /\ HandlerInv
  /\ MessageInv
  /\ CopyInv
  /\ \A h \in Busy : Fits(h) /\ Settled(h)
  /\ NoWorkLost

-----------------------------------------------------------------------------
(* The attempts of a job are counted *)

\* Nobody has tried a job before it is queued, and as long as it may be tried
\* again its record counts every call made.
RecordCounts(j) ==
  /\ calls[j] <= MaxAttempts
  /\ post[j] \in {"new", "enqueue"} => calls[j] = 0
  /\ store[j].status \in Triable => calls[j] <= store[j].attempts

\* So does the copy of a handler that will write it back, and a handler about
\* to call Provision has counted that call already, in the record too unless
\* somebody has taken the record out of its hands.
CopyCounts(h) ==
  /\ pc[h] \in {"begin", "postgres"}
       => calls[JobOf(h)] < loc[h].attempts /\ loc[h].attempts <= MaxAttempts
  /\ pc[h] = "postgres" /\ store[JobOf(h)].status \in Triable
       => calls[JobOf(h)] < store[JobOf(h)].attempts
  /\ pc[h] \in {"http", "retry", "failed"} => calls[JobOf(h)] <= loc[h].attempts

CountInv ==
  /\ \A j \in Jobs : Counted(j) => RecordCounts(j)
  /\ \A h \in Busy :
       /\ pc[h] = "failed" => stream[cur[h]].action = "provision"
       /\ Counted(JobOf(h)) => CopyCounts(h)

-----------------------------------------------------------------------------
(* What a step of a busy handler may do, whichever call it makes *)

GoesOn(h) ==
  /\ pc'[h] \notin {"down", "idle"}
  /\ cur'[h] = cur[h]
  /\ Fits(h)' /\ Settled(h)'

\* It acknowledges only a message whose job is settled.
Acks(h) ==
  /\ pel' = pel \ {cur[h]}
  /\ UNCHANGED store
  /\ stream[cur[h]].action = "provision" => ~Unfinished(JobOf(h))

\* It makes a job unfinished only while it has the job's message.
Writes(h) ==
  /\ pel' = pel
  /\ \A j \in Jobs :
       Unfinished(j)' => Unfinished(j) \/ (stream[cur[h]] = Provision(j) /\ cur[h] \in pel)

Discipline(h) ==
  /\ UNCHANGED <<stream, group, cursor>>
  /\ Others(h)
  /\ pc'[h] \in {"idle", "get"} \/ GoesOn(h)
  /\ Acks(h) \/ Writes(h)

-----------------------------------------------------------------------------
\* A provision message is determined by its job (queue.go 53-59).
LEMMA ProvisionForm ==
  ASSUME NEW m \in Message, m.action = "provision"
  PROVE  m = Provision(m.job)
  BY Zenon DEF Message, Provision

\* A handler returns to its loop or begins the next message of its batch
\* (worker.go 108, 132-140).
LEMMA ReturnShape ==
  ASSUME TypeInv, NEW h \in Handlers, Return(h)
  PROVE  /\ Others(h) /\ \A g \in Handlers \ {h} : batch'[g] = batch[g]
         /\ \/ pc'[h] = "idle" /\ batch'[h] = {}
            \/ \E i \in batch[h] : /\ pc'[h] = "get" /\ cur'[h] = i /\ ~prompt'[h]
                                   /\ batch'[h] = batch[h] \ {i}
  BY Zenon DEF TypeInv, HandlersOK, Return, Others

\* A message whose handler keeps the discipline is never lost.
LEMMA DisciplineWork ==
  ASSUME TypeInv, TypeInv', WorkInv, NEW h \in Busy, Discipline(h), HandlerInv',
         UNCHANGED brokerVars
  PROVE  WorkInv'
<1> USE DEF Discipline
<1>1. h \in Handlers /\ Busy \subseteq Handlers /\ Busy' \subseteq Handlers
  BY Zenon DEF Busy
<1>2. \A g \in Busy' : g # h => g \in Busy /\ cur'[g] = cur[g] /\ pc'[g] = pc[g]
                                /\ loc'[g] = loc[g] /\ prompt'[g] = prompt[g]
  BY Zenon, <1>1 DEF Busy, Others
<1>3. h \in Busy' => pc'[h] = "get" \/ GoesOn(h)
  BY Zenon DEF Busy
<1>5. \A g \in Busy : g # h => cur[g] # cur[h]
  BY Zenon DEF WorkInv, HandlerInv
<1>7. MessageInv' /\ CopyInv'
  BY Zenon DEF WorkInv, MessageInv, CopyInv, brokerVars
<1>8. \A g \in Busy' : Fits(g)' /\ Settled(g)'
  <2> SUFFICES ASSUME NEW g \in Busy', g # h PROVE Fits(g)' /\ Settled(g)'
    BY Zenon, <1>3 DEF GoesOn, Fits, Settled
  <2>1. /\ g \in Busy /\ Fits(g) /\ Settled(g)
        /\ cur'[g] = cur[g] /\ pc'[g] = pc[g] /\ loc'[g] = loc[g]
    BY Zenon, <1>2 DEF WorkInv
  <2>2. Fits(g)'
    BY Zenon, <2>1 DEF Fits
  <2>3. stream[cur[g]] \in Message /\ JobOf(g) \in Jobs /\ cur[g] \in 1 .. Len(stream)
    BY Zenon, <2>1, InHandType
  <2>4. cur[h] \in 1 .. Len(stream)
    BY Zenon, InHandType
  <2>5. stream[cur[g]].action = "provision" => stream[cur[h]] # Provision(JobOf(g))
    <3> SUFFICES ASSUME stream[cur[g]].action = "provision",
                        stream[cur[h]] = Provision(JobOf(g))
                 PROVE  FALSE
      OBVIOUS
    <3>1. stream[cur[g]] = stream[cur[h]]
      BY Zenon, <2>3, ProvisionForm DEF JobOf
    <3>2. cur[g] = cur[h]
      BY Zenon, <2>3, <2>4, <3>1 DEF WorkInv, MessageInv
    <3>3. QED
      BY Zenon, <1>5, <2>1, <3>2
  <2>6. /\ stream[cur[g]].action = "provision"
        /\ store'[JobOf(g)].status \in {"pending", "provisioning"}
        => Unfinished(JobOf(g))
    <3>1. \A j \in Jobs : /\ stream[cur[h]] # Provision(j)
                         /\ store'[j].status \in {"pending", "provisioning"}
                         => store[j].status \in {"pending", "provisioning"}
      BY Zenon DEF Acks, Writes, Unfinished
    <3>2. QED
      BY Zenon, <2>3, <2>5, <3>1 DEF Unfinished
  <2>7. Settled(g)'
    BY Zenon, <2>1, <2>6 DEF Settled, JobOf, Unfinished
  <2>8. QED
    BY Zenon, <2>2, <2>7
<1>9. NoWorkLost'
  <2> SUFFICES ASSUME NEW j \in Jobs, post[j] = "202", Unfinished(j)'
               PROVE  \E i \in 1 .. Len(stream) :
                        stream[i] = Provision(j) /\ (i > cursor \/ i \in pel')
    BY Zenon DEF NoWorkLost, Outstanding, brokerVars, Provision
  <2>1. cur[h] \in 1 .. Len(stream) /\ stream[cur[h]] \in Message
    BY Zenon, InHandType
  <2>2. CASE Unfinished(j)
    <3>1. PICK i \in 1 .. Len(stream) :
                 stream[i] = Provision(j) /\ (i > cursor \/ i \in pel)
      BY Zenon, <2>2 DEF WorkInv, NoWorkLost, Outstanding
    <3>2. Acks(h) => i # cur[h]
      BY SMTT(20), <2>2, <3>1 DEF Acks, Provision, JobOf
    <3>3. QED
      BY Zenon, <3>1, <3>2 DEF Acks, Writes
  <2>3. CASE ~Unfinished(j)
    BY Zenon, <2>1, <2>3 DEF Acks, Writes, Unfinished
  <2>4. QED
    BY Zenon, <2>2, <2>3
<1>10. QED
  BY Zenon, <1>7, <1>8, <1>9 DEF WorkInv

-----------------------------------------------------------------------------
\* Every call of a busy handler keeps the discipline.
LEMMA HandlerDiscipline ==
  ASSUME Reliable, TypeInv, WorkInv, NEW h \in Busy, HandlerStep(h)
  PROVE  Discipline(h)
<1>1. /\ h \in Handlers /\ pc[h] \notin {"down", "idle"}
      /\ stream[cur[h]] \in Message /\ JobOf(h) \in Jobs
  BY Zenon, InHandType DEF Busy
<1>2. /\ Fits(h) /\ Settled(h) /\ HandlerInv
      /\ pc[h] # "deadletter" => cur[h] \in pel
  BY Zenon DEF WorkInv, HandlerInv
<1>3. UNCHANGED queueVars => UNCHANGED <<stream, group, cursor, pel, idle>>
  BY Zenon DEF queueVars
<1>4. UNCHANGED queueVars /\ UNCHANGED store => Writes(h)
  BY Zenon, <1>3 DEF Writes, Unfinished
\* What a put of the local copy does to the job.
<1>5. ASSUME TryPut(JobOf(h), loc[h])
      PROVE  /\ store'[JobOf(h)] = loc[h]
             /\ \A j \in Jobs : j # JobOf(h) => store'[j] = store[j]
  BY Zenon, <1>1, <1>5 DEF TryPut, Fails, Put, Reliable, TypeInv
<1>6. ASSUME TryPut(JobOf(h), loc[h]), UNCHANGED queueVars,
             loc[h].status \notin {"pending", "provisioning"}
      PROVE  Writes(h)
  BY Zenon, <1>3, <1>5, <1>6 DEF Writes, Unfinished
<1>7. ASSUME TryPut(JobOf(h), loc[h]), UNCHANGED queueVars,
             stream[cur[h]].action = "provision", cur[h] \in pel
      PROVE  Writes(h)
  <2>1. stream[cur[h]] = Provision(JobOf(h))
    BY Zenon, <1>1, <1>7, ProvisionForm DEF JobOf
  <2>2. QED
    BY Zenon, <1>3, <1>5, <1>7, <2>1 DEF Writes, Unfinished
<1>8. ASSUME TryAck(cur[h]), UNCHANGED store, pc[h] \in {"ack", "failedAck"}
      PROVE  /\ Acks(h) \/ Writes(h)
             /\ UNCHANGED <<stream, group, cursor>> /\ idle' \subseteq idle
  BY Zenon, <1>2, <1>3, <1>4, <1>8 DEF TryAck, Ack, Acks, Settled
\* Steps to a label of which nothing is asked.
<1>9. ASSUME NEW l \in {"postgres", "http", "retry"}, NEW rec,
             Goto(h, l, rec), UNCHANGED queueVars, Writes(h),
             pc[h] \in {"begin", "postgres", "http"}
      PROVE  Discipline(h)
  <2>1. GoesOn(h)
    BY Zenon, <1>1, <1>2, <1>3, <1>9, GotoShape DEF GoesOn, Fits, Settled
  <2>2. QED
    BY Zenon, <1>1, <1>3, <1>9, <2>1, GotoShape DEF Discipline
<1>10. ASSUME NEW class, ProvisionFailed(h, class), UNCHANGED queueVars,
              UNCHANGED store, pc[h] \in {"postgres", "http"}
       PROVE  Discipline(h)
  <2>1. CASE Goto(h, "retry", loc[h])
    BY Zenon, <1>4, <1>9, <1>10, <2>1
  <2>2. CASE Goto(h, "failed", [loc[h] EXCEPT !.status = "failed"])
    <3> DEFINE rec == [loc[h] EXCEPT !.status = "failed"]
    <3>1. rec.status = "failed" /\ Goto(h, "failed", rec)
      BY Zenon, <2>2, InHandType DEF JobRecord
    <3> HIDE DEF rec
    <3>2. GoesOn(h)
      <4>1. /\ pc'[h] = "failed" /\ loc'[h].status = "failed"
            /\ cur'[h] = cur[h] /\ prompt'[h] = prompt[h]
        BY SMTT(20), <1>1, <3>1, GotoShape
      <4>2. QED
        BY Zenon, <1>3, <1>10, <4>1 DEF GoesOn, Fits, Settled
    <3>3. QED
      BY Zenon, <1>1, <1>3, <1>4, <1>10, <3>1, <3>2, GotoShape DEF Discipline
  <2>3. QED
    BY Zenon, <1>10, <2>1, <2>2 DEF ProvisionFailed
<1>11. CASE Get(h)
  <2> DEFINE a == stream[cur[h]].action
             r == store[JobOf(h)]
             d == Decision(a, r)
  <2>1. Goto(h, d[1], d[2])
    BY Zenon, <1>11 DEF Get, Fails, Reliable
  <2>2. a \in {"provision", "deprovision"}
    BY Zenon, <1>1 DEF Message
  <2>3. /\ d[1] \in {"ack", "failed", "begin", "unregister", "teardown"}
        /\ d[1] = "failed" => d[2].status = "failed"
        /\ d[1] = "begin" => a = "provision"
        /\ d[1] \in {"unregister", "teardown"} => a = "deprovision"
        /\ d[1] = "ack" /\ a = "provision" => ~Unfinished(JobOf(h))
    <3>1. r \in JobRecord
      BY Zenon, <1>1 DEF TypeInv
    <3>2. [[r EXCEPT !.attempts = @ + 1] EXCEPT !.status = "failed"].status = "failed"
      BY Zenon, <3>1 DEF JobRecord
    <3>3. QED
      BY Zenon, <2>2, <3>1, <3>2 DEF Decision, DeprovisionDecision, ProvisionDecision, Unfinished
  <2>4. UNCHANGED queueVars /\ UNCHANGED store
    BY Zenon, <1>11 DEF Get
  <2> HIDE DEF d
  <2>5. GoesOn(h)
    <3>1. /\ pc'[h] = d[1] /\ loc'[h] = d[2] /\ cur'[h] = cur[h]
          /\ prompt'[h] = prompt[h]
      BY SMTT(20), <1>1, <2>1, GotoShape
    <3>2. Fits(h)'
      BY Zenon, <1>3, <2>3, <2>4, <3>1 DEF Fits
    <3>3. Settled(h)'
      BY Zenon, <1>3, <2>3, <2>4, <3>1 DEF Settled, JobOf, Unfinished
    <3>4. QED
      BY Zenon, <1>3, <1>11, <2>3, <2>4, <3>1, <3>2, <3>3 DEF GoesOn, Get
  <2>6. QED
    BY Zenon, <1>1, <1>3, <1>4, <2>1, <2>4, <2>5, GotoShape DEF Discipline
<1>12. CASE PutProvisioning(h)
  <2>1. Writes(h)
    BY Zenon, <1>2, <1>7, <1>12 DEF PutProvisioning, Fits
  <2>2. QED
    BY Zenon, <1>9, <1>12, <2>1 DEF PutProvisioning
<1>13. CASE ProvisionPostgres(h)
  <2>1. CASE Goto(h, "http", loc[h])
    BY Zenon, <1>4, <1>9, <1>13, <2>1 DEF ProvisionPostgres
  <2>2. QED
    BY Zenon, <1>10, <1>13, <2>1 DEF ProvisionPostgres
<1>14. CASE ProvisionHTTP(h)
  <2>1. ASSUME NEW p, Goto(h, "ready", [loc[h] EXCEPT !.status = "ready", !.http = p])
        PROVE  Discipline(h)
    <3> DEFINE rec == [loc[h] EXCEPT !.status = "ready", !.http = p]
    <3>1. rec.status = "ready" /\ Goto(h, "ready", rec)
      BY Zenon, <2>1, InHandType DEF JobRecord
    <3> HIDE DEF rec
    <3>2. GoesOn(h)
      <4>1. /\ pc'[h] = "ready" /\ loc'[h].status = "ready"
            /\ cur'[h] = cur[h] /\ prompt'[h] = prompt[h]
        BY <1>1, <3>1, GotoShape
      <4>2. QED
        BY Zenon, <1>3, <1>14, <4>1 DEF GoesOn, Fits, Settled, ProvisionHTTP
    <3>3. QED
      BY Zenon, <1>1, <1>3, <1>4, <1>14, <3>1, <3>2, GotoShape
         DEF Discipline, ProvisionHTTP
  <2>2. QED
    BY Zenon, <1>10, <1>14, <2>1 DEF ProvisionHTTP
\* A put of a settled record, or no put at all, on the way to l.
<1>15. ASSUME NEW l \in {"register", "ack", "failedAck", "teardown", "deleted"},
              NEW rec, Goto(h, l, rec), UNCHANGED queueVars,
              pc[h] # "deadletter",
              \/ /\ TryPut(JobOf(h), loc[h])
                 /\ loc[h].status \notin {"pending", "provisioning"}
              \/ /\ UNCHANGED store
                 /\ l \in {"register", "ack", "failedAck"} =>
                      stream[cur[h]].action = "deprovision" \/ ~Unfinished(JobOf(h)),
              l \in {"teardown", "deleted"} => stream[cur[h]].action = "deprovision",
              l = "deleted" => rec.status = "deleted"
       PROVE  Discipline(h)
  <2>1. Writes(h)
    BY Zenon, <1>4, <1>6, <1>15
  <2>2. /\ pc'[h] = l /\ loc'[h] = rec /\ cur'[h] = cur[h] /\ prompt'[h] = prompt[h]
    BY <1>1, <1>15, GotoShape
  <2>3. Fits(h)'
    BY Zenon, <1>3, <1>15, <2>2 DEF Fits
  <2>4. Settled(h)'
    BY Zenon, <1>3, <1>5, <1>15, <2>2 DEF Settled, JobOf, Unfinished
  <2>5. GoesOn(h)
    BY Zenon, <1>3, <1>15, <2>2, <2>3, <2>4 DEF GoesOn
  <2>6. QED
    BY Zenon, <1>1, <1>3, <1>15, <2>1, <2>5, GotoShape DEF Discipline
<1>16. CASE PutReady(h)
  BY Zenon, <1>2, <1>15, <1>16 DEF PutReady, Fits
<1>17. CASE Register(h)
  BY Zenon, <1>1, <1>2, <1>15, <1>17 DEF Register, Settled, Message
<1>18. CASE PutFailed(h)
  BY Zenon, <1>2, <1>15, <1>18 DEF PutFailed, Fits
<1>19. CASE Unregister(h)
  BY Zenon, <1>2, <1>15, <1>19 DEF Unregister, Fits
<1>20. CASE Teardown(h)
  <2>1. [loc[h] EXCEPT !.status = "deleted", !.http = NoPort].status = "deleted"
    BY Zenon, InHandType DEF JobRecord
  <2>2. Goto(h, "deleted", [loc[h] EXCEPT !.status = "deleted", !.http = NoPort])
    BY Zenon, <1>20 DEF Teardown, Reliable
  <2>3. QED
    BY Zenon, <1>2, <1>15, <1>20, <2>1, <2>2 DEF Teardown, Fits
<1>21. CASE PutTornDown(h)
  BY Zenon, <1>2, <1>15, <1>21 DEF PutTornDown, Fits
<1>22. CASE PutTransient(h)
  <2>1. Writes(h)
    BY Zenon, <1>2, <1>7, <1>22 DEF PutTransient, Fits
  <2>2. QED
    BY Zenon, <1>1, <1>2, <1>3, <1>22, <2>1, ReturnShape DEF PutTransient, Discipline
<1>23. CASE AckFailed(h)
  <2>1. GoesOn(h)
    <3>1. pc'[h] = "deadletter" /\ cur'[h] = cur[h] /\ prompt'[h] = prompt[h]
      BY Zenon, <1>1, <1>23, GotoShape DEF AckFailed
    <3>2. QED
      BY Zenon, <3>1 DEF GoesOn, Fits, Settled
  <2>2. QED
    BY Zenon, <1>1, <1>8, <1>23, <2>1, GotoShape DEF AckFailed, Discipline
<1>24. CASE WriteDeadLetter(h)
  <2>1. UNCHANGED <<stream, group, cursor, pel, idle>>
    BY Zenon, <1>3, <1>24 DEF WriteDeadLetter, DeadLetter
  <2>2. Writes(h)
    BY Zenon, <1>24, <2>1 DEF WriteDeadLetter, Writes, Unfinished
  <2>3. QED
    BY Zenon, <1>1, <1>2, <1>24, <2>1, <2>2, ReturnShape DEF WriteDeadLetter, Discipline
<1>25. CASE AckMessage(h)
  BY Zenon, <1>1, <1>2, <1>8, <1>25, ReturnShape DEF AckMessage, Discipline
<1>26. QED
  BY Zenon, <1>1, <1>11, <1>12, <1>13, <1>14, <1>16, <1>17, <1>18, <1>19, <1>20, <1>21,
     <1>22, <1>23, <1>24, <1>25 DEF HandlerStep, Dequeue, Reclaim

-----------------------------------------------------------------------------
(* The steps of the workers *)

\* g goes on with its message and its batch; a message it began at once is
\* still out of Reclaim's reach.
Keeps(g) ==
  /\ g \in Busy
  /\ pc'[g] = pc[g] /\ cur'[g] = cur[g] /\ loc'[g] = loc[g]
  /\ prompt'[g] = prompt[g] /\ batch'[g] = batch[g]
  /\ prompt[g] => cur[g] \notin idle'

\* h begins pending message i and keeps others for later, none of which a
\* handler has.
Takes(h, i) ==
  /\ pc'[h] = "get" /\ prompt'[h] /\ cur'[h] = i
  /\ i \in pel' /\ i \in 1 .. cursor' /\ i \notin idle'
  /\ batch'[h] \subseteq pel' \ {i}
  /\ batch'[h] # {} => Sole(h)
  /\ \A g \in Busy : cur[g] # i /\ i \notin batch[g] /\ cur[g] \notin batch'[h]

\* A step of the loops: a message is delivered or claimed and perhaps begun by
\* h, or handlers lose what they have.
Looped(h, i) ==
  /\ UNCHANGED <<store, stream>>
  /\ group => group'
  /\ cursor <= cursor' /\ pel \subseteq pel'
  /\ \A k \in 1 .. Len(stream) : k > cursor => k > cursor' \/ k \in pel'
  /\ \A g \in Handlers \ Busy' : batch'[g] = {}
  /\ \A g \in Busy' : Keeps(g) \/ (g = h /\ Takes(h, i))
  /\ \A f, g \in Handlers : f[1] = g[1] /\ pc'[f] = "down" => pc'[g] = "down"

\* It leaves every message with one handler at most.
LEMMA LoopHandlers ==
  ASSUME TypeInv, TypeInv', HandlerInv, NEW h, NEW i, Looped(h, i)
  PROVE  HandlerInv'
<1> USE DEF Looped
<1>1. ASSUME NEW g \in Busy'
      PROVE  /\ prompt'[g] \/ Sole(g)
             /\ prompt'[g] => cur'[g] \notin idle'
             /\ cur'[g] \in 1 .. cursor'
             /\ pc'[g] # "deadletter" => cur'[g] \in pel'
             /\ batch'[g] \subseteq pel' \ {cur'[g]}
             /\ batch'[g] # {} => Sole(g)
  <2>1. CASE Keeps(g)
    <3>1. /\ prompt[g] \/ Sole(g)
          /\ cur[g] \in 1 .. cursor
          /\ pc[g] # "deadletter" => cur[g] \in pel
          /\ batch[g] \subseteq pel \ {cur[g]}
          /\ batch[g] # {} => Sole(g)
      BY Zenon, <2>1 DEF Keeps, HandlerInv, Busy
    <3>2. cursor \in Nat /\ cursor' \in Nat
      BY DEF TypeInv, QueueTypeOK
    <3>3. cur'[g] \in 1 .. cursor'
      BY <2>1, <3>1, <3>2 DEF Keeps
    <3>4. QED
      BY Zenon, <2>1, <3>1, <3>3 DEF Keeps
  <2>2. CASE g = h /\ Takes(h, i)
    BY Zenon, <2>2 DEF Takes
  <2>3. QED
    BY Zenon, <2>1, <2>2
<1>2. ASSUME NEW f \in Busy', NEW g \in Busy', f # g
      PROVE  cur'[f] # cur'[g] /\ cur'[f] \notin batch'[g]
  <2>1. CASE Keeps(f) /\ Keeps(g)
    BY Zenon, <1>2, <2>1 DEF Keeps, HandlerInv
  <2>2. CASE f = h /\ Takes(h, i) /\ Keeps(g)
    BY Zenon, <2>2 DEF Keeps, Takes
  <2>3. CASE g = h /\ Takes(h, i) /\ Keeps(f)
    BY Zenon, <2>3 DEF Keeps, Takes
  <2>4. QED
    BY Zenon, <1>2, <2>1, <2>2, <2>3
<1>3. QED
  BY Zenon, <1>1, <1>2 DEF HandlerInv, Busy

\* Taking a pending message nobody has, delivering one, claiming one or
\* losing a handler loses no work (worker.go 81-143).
LEMMA LoopWork ==
  ASSUME TypeInv, TypeInv', WorkInv, NEW h, NEW i, Looped(h, i), UNCHANGED brokerVars
  PROVE  WorkInv'
<1> USE DEF Looped
<1>1. HandlerInv'
  BY Zenon, LoopHandlers DEF WorkInv
<1>2. MessageInv' /\ CopyInv'
  BY Zenon DEF WorkInv, MessageInv, CopyInv, brokerVars
<1>3. ASSUME NEW g \in Busy' PROVE Fits(g)' /\ Settled(g)'
  <2>1. CASE pc'[g] = "get"
    BY Zenon, <2>1 DEF Fits, Settled
  <2>2. CASE Keeps(g)
    <3>1. /\ Fits(g) /\ Settled(g)
          /\ pc'[g] = pc[g] /\ cur'[g] = cur[g] /\ loc'[g] = loc[g]
      BY Zenon, <2>2 DEF Keeps, WorkInv
    <3>2. Fits(g)'
      BY Zenon, <3>1 DEF Fits
    <3>3. Settled(g)'
      BY Zenon, <3>1 DEF Settled, Unfinished, JobOf
    <3>4. QED
      BY Zenon, <3>2, <3>3
  <2>3. QED
    BY Zenon, <2>1, <2>2 DEF Takes
<1>4. NoWorkLost'
  <2> SUFFICES ASSUME NEW j \in Jobs, post[j] = "202", Unfinished(j)
               PROVE  \E k \in 1 .. Len(stream) :
                        stream[k] = Provision(j) /\ (k > cursor' \/ k \in pel')
    BY Zenon DEF NoWorkLost, Outstanding, Unfinished, brokerVars, Provision
  <2>1. PICK k \in 1 .. Len(stream) : stream[k] = Provision(j) /\ (k > cursor \/ k \in pel)
    BY Zenon DEF WorkInv, NoWorkLost, Outstanding
  <2>2. QED
    BY Zenon, <2>1
<1>5. QED
  BY Zenon, <1>1, <1>2, <1>3, <1>4 DEF WorkInv

\* Reclaim takes one message, or there is one worker.
ClaimsApart ==
  \/ \A B \in Claimable : \A i \in B : B \ {i} = {}
  \/ \E w \in Workers : Workers = {w}

\* Only one handler can be the reclaim loop of the only worker.
LEMMA SoleReclaim ==
  ASSUME NEW h \in Handlers, NEW g \in Handlers, h[2] = "reclaim", Sole(g)
  PROVE  g = h
  BY DEF Sole, Handlers

\* A step of a worker that is not a call of a busy handler is one of the loops
\* (worker.go 81-143, main.go 72-128).
LEMMA LoopShape ==
  ASSUME ~SlowHandlers, ClaimsApart, TypeInv, HandlerInv, MessageInv, WorkerNext,
         ~ \E h \in Busy : HandlerStep(h)
  PROVE  \E h, i : Looped(h, i)
<1>1. /\ \A g \in Handlers \ Busy : batch[g] = {}
      /\ \A f, g \in Handlers : f[1] = g[1] /\ pc[f] = "down" => pc[g] = "down"
  BY Zenon DEF HandlerInv
<1>2. \A g \in Busy : /\ prompt[g] => cur[g] \notin idle
                      /\ cur[g] \in 1 .. cursor /\ g \in Handlers
                      /\ batch[g] \subseteq pel
  BY Zenon DEF HandlerInv, Busy
<1>3. UNCHANGED handlerVars => /\ Busy' = Busy /\ UNCHANGED <<pc, cur, loc, batch, prompt>>
  BY Zenon DEF handlerVars, Busy
\* Nobody takes a message, the queue keeps what it has.
<1>4. ASSUME UNCHANGED <<store, stream>>, group => group', cursor <= cursor', pel \subseteq pel',
             \A k \in 1 .. Len(stream) : k > cursor => k > cursor' \/ k \in pel',
             UNCHANGED handlerVars,
             \A g \in Busy : prompt[g] => cur[g] \notin idle'
      PROVE  \E h, i : Looped(h, i)
  <2>1. \A g \in Busy' : Keeps(g)
    BY Zenon, <1>3, <1>4 DEF Keeps
  <2>2. QED
    BY Zenon, <1>1, <1>3, <1>4, <2>1 DEF Looped
\* Every handler goes on or has lost what it had.
<1>5. ASSUME UNCHANGED <<store, stream, cursor, pel, idle>>, group => group',
             \A g \in Handlers \ Busy' : batch'[g] = {},
             \A g \in Busy' : Keeps(g),
             \A f, g \in Handlers : f[1] = g[1] /\ pc'[f] = "down" => pc'[g] = "down"
      PROVE  \E h, i : Looped(h, i)
  <2>1. cursor <= cursor'
    BY <1>5 DEF TypeInv, QueueTypeOK
  <2>2. QED
    BY Zenon, <1>5, <2>1 DEF Looped
<1>6. ASSUME NEW w \in Workers, WorkerStart(w) PROVE \E g, k : Looped(g, k)
  <2>1. UNCHANGED <<store, stream, cursor, pel, idle, cur, loc, batch, prompt>> /\ group'
    BY Zenon, <1>6, GroupAtStart DEF WorkerStart
  <2>2. <<w, "main">> \in Handlers /\ <<w, "main">>[1] = w
    BY Zenon DEF Handlers
  <2>3. \A g \in Handlers : IF g[1] = w THEN pc[g] = "down" /\ pc'[g] = "idle"
                                        ELSE pc'[g] = pc[g]
    BY Zenon, <1>1, <1>6, <2>2 DEF WorkerStart
  <2>4. \A g \in Busy' : Keeps(g)
    BY Zenon, <1>2, <2>1, <2>3 DEF Keeps, Busy
  <2>5. \A g \in Handlers \ Busy' : batch'[g] = {}
    BY Zenon, <1>1, <2>1, <2>3 DEF Busy
  <2>6. ASSUME NEW f \in Handlers, NEW g \in Handlers, f[1] = g[1], pc'[f] = "down"
        PROVE  pc'[g] = "down"
    BY <1>1, <2>3, <2>6
  <2>7. QED
    BY Zenon, <1>5, <2>1, <2>4, <2>5, <2>6
<1>7. ASSUME NEW w \in Workers, WorkerCrash(w) PROVE \E g, k : Looped(g, k)
  <2>1. UNCHANGED <<store, stream, group, cursor, pel, idle>>
    BY Zenon, <1>7 DEF WorkerCrash, queueVars
  <2>2. \A g \in Handlers :
          IF g[1] = w THEN pc'[g] = "down" /\ batch'[g] = {}
          ELSE /\ pc'[g] = pc[g] /\ cur'[g] = cur[g] /\ loc'[g] = loc[g]
               /\ batch'[g] = batch[g] /\ prompt'[g] = prompt[g]
    BY Zenon, <1>7 DEF WorkerCrash
  <2>3. \A g \in Busy' : Keeps(g)
    BY Zenon, <1>2, <2>1, <2>2 DEF Keeps, Busy
  <2>4. \A g \in Handlers \ Busy' : batch'[g] = {}
    BY Zenon, <1>1, <2>2 DEF Busy
  <2>5. ASSUME NEW f \in Handlers, NEW g \in Handlers, f[1] = g[1], pc'[f] = "down"
        PROVE  pc'[g] = "down"
    BY <1>1, <2>2, <2>5
  <2>6. QED
    BY Zenon, <1>5, <2>1, <2>3, <2>4, <2>5
<1>8. ASSUME NEW h \in Handlers, DequeueNothing(h) PROVE \E g, k : Looped(g, k)
  <2>1. UNCHANGED <<store, stream, group, cursor, pel, idle, handlerVars>>
    BY Zenon, <1>8 DEF DequeueNothing, queueVars, workerVars
  <2>2. cursor <= cursor'
    BY <2>1 DEF TypeInv, QueueTypeOK
  <2>3. QED
    BY Zenon, <1>2, <1>4, <2>1, <2>2
<1>9. ASSUME NEW i \in pel, MinIdlePasses(i) PROVE \E g, k : Looped(g, k)
  <2>1. UNCHANGED <<store, stream, group, cursor, pel, handlerVars>> /\ idle' = idle \cup {i}
    BY Zenon, <1>9 DEF MinIdlePasses, BecomeIdle, workerVars
  <2>2. \A g \in Busy : prompt[g] => cur[g] # i
    BY Zenon, <1>2, <1>9 DEF MinIdlePasses
  <2>3. cursor <= cursor'
    BY <2>1 DEF TypeInv, QueueTypeOK
  <2>4. \A g \in Busy : prompt[g] => cur[g] \notin idle'
    BY Zenon, <1>2, <2>1, <2>2
  <2>5. QED
    BY Zenon, <1>4, <2>1, <2>3, <2>4
\* A handler at its loop begins a message.
<1>10. ASSUME NEW h \in Handlers, h \notin Busy, pc[h] # "down", NEW i, NEW rest,
              Begin(h, i, rest),
              UNCHANGED <<store, stream>>, group => group', cursor <= cursor', pel \subseteq pel',
              \A k \in 1 .. Len(stream) : k > cursor => k > cursor' \/ k \in pel',
              idle' \subseteq idle, i \in pel', i \in 1 .. cursor', i \notin idle',
              rest \subseteq pel' \ {i}, rest # {} => Sole(h),
              \A g \in Busy : cur[g] # i /\ i \notin batch[g] /\ cur[g] \notin rest
       PROVE  \E g, k : Looped(g, k)
  <2>1. /\ pc'[h] = "get" /\ prompt'[h] /\ cur'[h] = i /\ batch'[h] = rest
        /\ \A g \in Handlers \ {h} :
             /\ pc'[g] = pc[g] /\ cur'[g] = cur[g] /\ loc'[g] = loc[g]
             /\ prompt'[g] = prompt[g] /\ batch'[g] = batch[g]
    BY Zenon, <1>10 DEF Begin, TypeInv, HandlersOK
  <2>2. Takes(h, i)
    BY Zenon, <1>10, <2>1 DEF Takes
  <2>3. \A g \in Busy' : g # h => Keeps(g)
    BY Zenon, <1>2, <1>10, <2>1 DEF Keeps, Busy
  <2>4. \A g \in Handlers \ Busy' : batch'[g] = {}
    BY Zenon, <1>1, <2>1 DEF Busy
  <2>5. ASSUME NEW f \in Handlers, NEW g \in Handlers, f[1] = g[1], pc'[f] = "down"
        PROVE  pc'[g] = "down"
    BY <1>1, <1>10, <2>1, <2>5
  <2>6. QED
    BY Zenon, <1>10, <2>2, <2>3, <2>4, <2>5 DEF Looped
<1>11. ASSUME NEW h \in Handlers, Dequeue(h) PROVE \E g, k : Looped(g, k)
  <2>1. /\ UNCHANGED <<store, stream, group, idle>>
        /\ cursor' = cursor + 1 /\ pel' = pel \cup {cursor + 1}
        /\ h \notin Busy /\ pc[h] # "down"
    BY Zenon, <1>11 DEF Dequeue, Deliver, Busy
  <2>2. /\ \A k \in 1 .. Len(stream) : k > cursor => k > cursor' \/ k \in pel'
        /\ cursor <= cursor' /\ cursor + 1 \in 1 .. cursor' /\ cursor + 1 \notin 1 .. cursor
    BY <2>1 DEF TypeInv, QueueTypeOK
  <2>3. CASE UNCHANGED handlerVars
    BY Zenon, <1>2, <1>4, <2>1, <2>2, <2>3
  <2>4. CASE Begin(h, cursor + 1, {})
    <3>1. idle \subseteq 1 .. cursor /\ pel \subseteq 1 .. cursor
      BY Zenon DEF TypeInv, QueueTypeOK
    <3>2. \A g \in Busy : cur[g] # cursor + 1 /\ cursor + 1 \notin batch[g]
      BY Zenon, <1>2, <2>2, <3>1
    <3>3. /\ cursor + 1 \in pel' /\ pel \subseteq pel' /\ cursor + 1 \notin idle'
          /\ idle' \subseteq idle /\ {} \subseteq pel' \ {cursor + 1}
          /\ \A g \in Busy : cur[g] \notin {}
      BY Zenon, <2>1, <2>2, <3>1
    <3>4. UNCHANGED <<store, stream>> /\ (group => group')
      BY Zenon, <2>1
    <3>5. QED
      BY <1>10, <2>1, <2>2, <2>4, <3>2, <3>3, <3>4
  <2>5. QED
    BY Zenon, <1>11, <2>3, <2>4 DEF Dequeue
<1>12. ASSUME NEW h \in Handlers, Reclaim(h) PROVE \E g, k : Looped(g, k)
  <2>1. PICK B \in Claimable :
          /\ Claim(B)
          /\ \/ \E i \in B : Begin(h, i, B \ {i})
             \/ UNCHANGED handlerVars
    BY Zenon, <1>12 DEF Reclaim
  <2>2. /\ UNCHANGED <<store, stream, group, cursor, pel>> /\ idle' = idle \ B
        /\ h \notin Busy /\ pc[h] # "down" /\ h[2] = "reclaim" /\ B \subseteq idle
    BY Zenon, <1>12, <2>1 DEF Reclaim, Claim, Busy, Claimable
  <2>3. cursor <= cursor' /\ idle \subseteq pel /\ pel \subseteq 1 .. cursor
    BY <2>2 DEF TypeInv, QueueTypeOK
  <2>4. CASE UNCHANGED handlerVars
    BY Zenon, <1>2, <1>4, <2>2, <2>3, <2>4
  \* No busy handler is the only one that reclaims, so none has an idle message.
  <2>5. \A g \in Busy : prompt[g] /\ cur[g] \notin idle /\ batch[g] = {}
    <3>1. \A g \in Busy : ~Sole(g)
      BY Zenon, <1>2, <2>2, SoleReclaim
    <3>2. QED
      BY Zenon, <1>2, <3>1 DEF HandlerInv
  <2>6. ASSUME NEW i \in B, Begin(h, i, B \ {i}) PROVE \E g, k : Looped(g, k)
    <3>1. i \in pel' /\ i \in 1 .. cursor' /\ i \notin idle' /\ idle' \subseteq idle
      BY Zenon, <2>2, <2>3
    <3>2. B \ {i} \subseteq pel' \ {i}
      BY Zenon, <2>2, <2>3
    <3>3. B \ {i} # {} => Sole(h)
      <4>1. \A w \in Workers : Workers = {w} => h[1] = w
        BY DEF Handlers
      <4>2. QED
        BY Zenon, <2>2, <4>1 DEF ClaimsApart, Sole
    <3>4. \A g \in Busy : cur[g] # i /\ i \notin batch[g] /\ cur[g] \notin B \ {i}
      BY Zenon, <2>2, <2>5
    <3>5. QED
      BY Zenon, <1>10, <2>2, <2>3, <2>6, <3>1, <3>2, <3>3, <3>4
  <2>7. QED
    BY Zenon, <2>1, <2>4, <2>6
<1>13. ASSUME NEW h \in Handlers, HandlerStep(h), ~ (Dequeue(h) \/ Reclaim(h))
       PROVE  \E g, k : Looped(g, k)
  <2>1. h \in Busy
    BY Zenon, <1>13 DEF HandlerStep, Busy, Get, PutProvisioning, ProvisionPostgres,
       ProvisionHTTP, PutReady, Register, PutTransient, PutFailed, AckFailed,
       WriteDeadLetter, AckMessage, Unregister, Teardown, PutTornDown
  <2>2. QED
    BY Zenon, <1>13, <2>1
<1>14. QED
  BY Zenon, <1>6, <1>7, <1>8, <1>9, <1>11, <1>12, <1>13 DEF WorkerNext

\* A call of a busy handler leaves its message to it, whatever fails
\* (worker.go 145-300).
LEMMA HandlerKeeps ==
  ASSUME TypeInv, HandlerInv, NEW h \in Busy, HandlerStep(h)
  PROVE  HandlerInv'
<1> DEFINE Waits == /\ UNCHANGED <<cursor, pel>> /\ idle' \subseteq idle /\ pc[h] # "deadletter"
                    /\ \E l, rec : Goto(h, l, rec) /\ l \notin {"down", "idle"}
           Leaves == /\ UNCHANGED cursor /\ pel \ {cur[h]} \subseteq pel' /\ idle' \subseteq idle
                     /\ Return(h) \/ Goto(h, "deadletter", loc[h])
<1>1. h \in Handlers /\ pc[h] \notin {"down", "idle"}
  BY Zenon DEF Busy
<1>2. UNCHANGED queueVars => UNCHANGED <<cursor, pel, idle>>
  BY Zenon DEF queueVars
<1>3. TryAck(cur[h]) => UNCHANGED cursor /\ pel \ {cur[h]} \subseteq pel' /\ idle' \subseteq idle
  BY Zenon, <1>2 DEF TryAck, Ack
\* Both leave every message with its handler.
<1>4. ASSUME Waits \/ Leaves PROVE HandlerInv'
  <2> DEFINE Stays == /\ pc'[h] \notin {"down", "idle"} /\ cur'[h] = cur[h]
                      /\ prompt'[h] = prompt[h] /\ batch'[h] = batch[h]
                      /\ pc'[h] = "deadletter" \/ (UNCHANGED pel /\ pc[h] # "deadletter")
             Goes(i) == /\ pc'[h] = "get" /\ cur'[h] = i /\ ~prompt'[h]
                        /\ batch'[h] = batch[h] \ {i}
  <2>1. /\ UNCHANGED cursor /\ pel \ {cur[h]} \subseteq pel' /\ idle' \subseteq idle
        /\ Others(h) /\ \A g \in Handlers \ {h} : batch'[g] = batch[g]
        /\ (pc'[h] = "idle" /\ batch'[h] = {}) \/ Stays \/ \E i \in batch[h] : Goes(i)
    <3>1. ASSUME NEW l, NEW rec, Goto(h, l, rec)
          PROVE  /\ Others(h) /\ UNCHANGED batch
                 /\ pc'[h] = l /\ cur'[h] = cur[h] /\ prompt'[h] = prompt[h]
      BY Zenon, <1>1, <3>1, GotoShape
    <3>2. CASE Waits
      BY Zenon, <3>1, <3>2
    <3>3. CASE Leaves
      <4>1. CASE Return(h)
        <5>1. /\ Others(h) /\ \A g \in Handlers \ {h} : batch'[g] = batch[g]
              /\ (pc'[h] = "idle" /\ batch'[h] = {}) \/ \E i \in batch[h] : Goes(i)
          BY Zenon, <1>1, <4>1, ReturnShape
        <5>2. QED
          BY Zenon, <3>3, <5>1
      <4>2. CASE Goto(h, "deadletter", loc[h])
        <5>1. /\ Others(h) /\ UNCHANGED batch /\ pc'[h] = "deadletter"
              /\ cur'[h] = cur[h] /\ prompt'[h] = prompt[h]
          BY Zenon, <3>1, <4>2
        <5>2. Stays
          BY Zenon, <5>1
        <5>3. QED
          BY Zenon, <3>3, <5>1, <5>2
      <4>3. QED
        BY Zenon, <3>3, <4>1, <4>2
    <3>4. QED
      BY Zenon, <1>4, <3>2, <3>3
  <2>2. /\ prompt[h] \/ Sole(h)
        /\ prompt[h] => cur[h] \notin idle
        /\ cur[h] \in 1 .. cursor
        /\ pc[h] # "deadletter" => cur[h] \in pel
        /\ batch[h] \subseteq pel \ {cur[h]}
        /\ batch[h] # {} => Sole(h)
        /\ \A g \in Busy \ {h} : /\ cur[g] # cur[h] /\ cur[g] \notin batch[h]
                                 /\ cur[h] \notin batch[g]
    BY Zenon, <1>1 DEF HandlerInv
  <2>3. ASSUME NEW g \in Busy', g # h
        PROVE  /\ g \in Busy /\ cur'[g] = cur[g] /\ batch'[g] = batch[g]
               /\ prompt'[g] \/ Sole(g)
               /\ prompt'[g] => cur'[g] \notin idle'
               /\ cur'[g] \in 1 .. cursor'
               /\ pc'[g] # "deadletter" => cur'[g] \in pel'
               /\ batch'[g] \subseteq pel' \ {cur'[g]}
    <3>1. /\ g \in Busy /\ cur'[g] = cur[g] /\ batch'[g] = batch[g] /\ pc'[g] = pc[g]
          /\ prompt'[g] = prompt[g]
      BY Zenon, <2>1, <2>3 DEF Others, Busy
    <3>2. /\ prompt[g] \/ Sole(g)
          /\ prompt[g] => cur[g] \notin idle
          /\ cur[g] \in 1 .. cursor
          /\ pc[g] # "deadletter" => cur[g] \in pel
          /\ batch[g] \subseteq pel \ {cur[g]}
          /\ cur[g] # cur[h] /\ cur[h] \notin batch[g]
      BY Zenon, <2>2, <2>3, <3>1 DEF HandlerInv
    <3>3. QED
      BY <2>1, <3>1, <3>2
  <2>4. \A f, g \in Handlers : f[1] = g[1] /\ pc'[f] = "down" => pc'[g] = "down"
    <3>1. pc[h] # "down" /\ pc'[h] # "down" /\ \A g \in Handlers \ {h} : pc'[g] = pc[g]
      BY Zenon, <1>1, <2>1 DEF Others
    <3>2. \A f, g \in Handlers : f[1] = g[1] /\ pc[f] = "down" => pc[g] = "down"
      BY Zenon DEF HandlerInv
    <3>3. QED
      BY Zenon, <1>1, <3>1, <3>2
  <2>5. \A g \in Handlers \ {h} : batch'[g] # {} => g \in Busy' /\ Sole(g)
    BY Zenon, <2>1 DEF HandlerInv, Others, Busy
  <2>6. \A f, g \in Busy' : f # g /\ f # h /\ g # h => cur'[f] # cur'[g] /\ cur'[f] \notin batch'[g]
    BY Zenon, <2>3 DEF HandlerInv
  <2>7. ASSUME h \in Busy'
        PROVE  /\ prompt'[h] \/ Sole(h)
               /\ prompt'[h] => cur'[h] \notin idle'
               /\ cur'[h] \in 1 .. cursor'
               /\ pc'[h] # "deadletter" => cur'[h] \in pel'
               /\ batch'[h] \subseteq pel' \ {cur'[h]}
               /\ batch'[h] \subseteq batch[h]
               /\ \A g \in Busy \ {h} : cur[g] # cur'[h] /\ cur[g] \notin batch'[h]
                                        /\ cur'[h] \notin batch[g]
    <3>1. CASE Stays
      BY <2>1, <2>2, <3>1
    <3>2. ASSUME NEW i \in batch[h], Goes(i)
          PROVE  /\ Sole(h) /\ ~prompt'[h] /\ cur'[h] \in 1 .. cursor' /\ cur'[h] \in pel'
                 /\ batch'[h] \subseteq pel' \ {cur'[h]} /\ batch'[h] \subseteq batch[h]
                 /\ \A g \in Busy \ {h} : cur[g] # cur'[h] /\ cur[g] \notin batch'[h]
                                          /\ cur'[h] \notin batch[g]
      <4>1. i \in pel /\ i # cur[h] /\ Sole(h) /\ i \in 1 .. cursor
        BY Zenon, <2>2, <3>2 DEF TypeInv, QueueTypeOK
      <4>2. \A g \in Busy \ {h} : batch[g] = {}
        <5>1. \A g \in Busy : g \in Handlers /\ (batch[g] # {} => Sole(g))
          BY Zenon DEF HandlerInv, Busy
        <5>2. \A g \in Busy : Sole(g) => g = h
          BY Zenon, <1>1, <4>1, <5>1, SoleReclaim DEF Sole
        <5>3. QED
          BY Zenon, <5>1, <5>2
      <4>3. QED
        BY <2>1, <2>2, <3>2, <4>1, <4>2
    <3>3. QED
      BY Zenon, <2>1, <2>7, <3>1, <3>2 DEF Busy
  <2>8. ASSUME NEW f \in Busy', NEW g \in Busy', f # g
        PROVE  cur'[f] # cur'[g] /\ cur'[f] \notin batch'[g]
    <3>1. CASE f = h
      BY Zenon, <2>3, <2>7, <2>8, <3>1
    <3>2. CASE g = h
      BY Zenon, <2>3, <2>7, <2>8, <3>2
    <3>3. QED
      BY Zenon, <2>6, <2>8, <3>1, <3>2
  <2>9. batch'[h] # {} => h \in Busy' /\ Sole(h)
    <3>1. pc'[h] = "idle" \/ h \in Busy'
      BY Zenon, <1>1, <2>1 DEF Busy
    <3>2. pc'[h] = "idle" => batch'[h] = {}
      BY Zenon, <2>1
    <3>3. QED
      BY Zenon, <2>2, <2>7, <3>1, <3>2
  <2>10. QED
    BY Zenon, <2>3, <2>4, <2>5, <2>7, <2>8, <2>9 DEF HandlerInv
<1>5. ASSUME UNCHANGED queueVars, pc[h] # "deadletter", NEW l, NEW rec, Goto(h, l, rec),
             l \notin {"down", "idle"}
      PROVE  HandlerInv'
  BY Zenon, <1>2, <1>4, <1>5
<1>6. CASE Get(h)
  <2> DEFINE d == Decision(stream[cur[h]].action, store[JobOf(h)])
  <2>1. d[1] \notin {"down", "idle"}
    BY Zenon DEF Decision, DeprovisionDecision, ProvisionDecision
  <2>2. Goto(h, d[1], d[2]) \/ Goto(h, "ack", NotFound)
    BY Zenon, <1>6 DEF Get
  <2> HIDE DEF d
  <2>3. QED
    BY Zenon, <1>5, <1>6, <2>1, <2>2 DEF Get
<1>7. CASE \/ PutProvisioning(h) \/ PutReady(h) \/ Register(h) \/ PutFailed(h)
           \/ Unregister(h) \/ PutTornDown(h)
  <2>1. UNCHANGED queueVars /\ pc[h] # "deadletter"
    BY Zenon, <1>7 DEF PutProvisioning, PutReady, Register, PutFailed, Unregister, PutTornDown
  <2>2. \E l \in {"postgres", "register", "ack", "failedAck", "teardown"} : Goto(h, l, loc[h])
    BY Zenon, <1>7 DEF PutProvisioning, PutReady, Register, PutFailed, Unregister, PutTornDown
  <2>3. QED
    BY Zenon, <1>5, <2>1, <2>2
<1>8. CASE ProvisionPostgres(h) \/ ProvisionHTTP(h) \/ Teardown(h)
  <2>1. UNCHANGED queueVars /\ pc[h] # "deadletter"
    BY Zenon, <1>8 DEF ProvisionPostgres, ProvisionHTTP, Teardown
  <2>2. \E l \in {"http", "ready", "retry", "failed", "deleted", "stuck"} : \E rec : Goto(h, l, rec)
    BY Zenon, <1>8 DEF ProvisionPostgres, ProvisionHTTP, Teardown, ProvisionFailed
  <2>3. QED
    BY Zenon, <1>5, <2>1, <2>2
<1>9. CASE PutTransient(h) \/ WriteDeadLetter(h) \/ AckMessage(h) \/ AckFailed(h)
  <2>1. CASE PutTransient(h) \/ WriteDeadLetter(h)
    <3>1. UNCHANGED <<cursor, pel, idle>> /\ Return(h)
      BY Zenon, <1>2, <2>1 DEF PutTransient, WriteDeadLetter, DeadLetter
    <3>2. QED
      BY Zenon, <1>4, <3>1
  <2>2. CASE AckMessage(h) \/ AckFailed(h)
    BY Zenon, <1>3, <1>4, <2>2 DEF AckMessage, AckFailed
  <2>3. QED
    BY Zenon, <1>9, <2>1, <2>2
<1>10. QED
  BY Zenon, <1>1, <1>6, <1>7, <1>8, <1>9 DEF HandlerStep, Dequeue, Reclaim

\* Every step of a worker keeps the invariant.
LEMMA WorkerWork ==
  ASSUME Reliable, ClaimsApart, TypeInv, TypeInv', WorkInv, WorkerNext,
         UNCHANGED brokerVars
  PROVE  WorkInv'
<1>1. CASE \E h \in Busy : HandlerStep(h)
  BY Zenon, <1>1, HandlerDiscipline, HandlerKeeps, DisciplineWork DEF WorkInv
<1>2. CASE ~ \E h \in Busy : HandlerStep(h)
  <2>1. \E h, i : Looped(h, i)
    BY Zenon, <1>2, LoopShape DEF WorkInv, Reliable, Prompt
  <2>2. QED
    BY Zenon, <2>1, LoopWork
<1>3. QED
  BY Zenon, <1>1, <1>2

\* Every step of a worker leaves every message with one handler at most.
LEMMA WorkerHandlers ==
  ASSUME ~SlowHandlers, ClaimsApart, TypeInv, TypeInv', HandlerInv, MessageInv, WorkerNext
  PROVE  HandlerInv'
<1>1. CASE \E h \in Busy : HandlerStep(h)
  BY Zenon, <1>1, HandlerKeeps
<1>2. CASE ~ \E h \in Busy : HandlerStep(h)
  BY Zenon, <1>2, LoopShape, LoopHandlers
<1>3. QED
  BY Zenon, <1>1, <1>2

-----------------------------------------------------------------------------
(* The attempts of a job are counted *)

\* While nobody writes a record or calls Provision, what handlers hold counts
\* as before.
LEMMA LoopCount ==
  ASSUME TypeInv, CountInv, UNCHANGED <<store, stream, calls, brokerVars>>,
         \A g \in Busy' :
           \/ pc'[g] = "get"
           \/ g \in Busy /\ pc'[g] = pc[g] /\ cur'[g] = cur[g] /\ loc'[g] = loc[g]
  PROVE  CountInv'
<1>1. \A j \in Jobs : Counted(j)' => RecordCounts(j)'
  BY Zenon DEF CountInv, Counted, RecordCounts, brokerVars
<1>2. ASSUME NEW g \in Busy'
      PROVE  /\ pc'[g] = "failed" => stream'[cur'[g]].action = "provision"
             /\ Counted(JobOf(g))' => CopyCounts(g)'
  <2>1. CASE pc'[g] = "get"
    BY Zenon, <2>1 DEF CopyCounts
  <2>2. CASE g \in Busy /\ pc'[g] = pc[g] /\ cur'[g] = cur[g] /\ loc'[g] = loc[g]
    <3>1. JobOf(g)' = JobOf(g)
      BY Zenon, <2>2 DEF JobOf
    <3>2. QED
      BY Zenon, <2>2, <3>1 DEF CountInv, Counted, CopyCounts, brokerVars
  <2>3. QED
    BY Zenon, <1>2, <2>1, <2>2
<1>3. QED
  BY Zenon, <1>1, <1>2 DEF CountInv

\* A step of handler h that counts what it does disturbs no other handler,
\* since no other has the provision message of its job.
LEMMA CountStep ==
  ASSUME TypeInv, WorkInv, CountInv, NEW h \in Busy, Discipline(h), UNCHANGED brokerVars,
         \A k \in Jobs \ {JobOf(h)} : store'[k] = store[k] /\ calls'[k] = calls[k],
         stream[cur[h]].action # "provision" =>
           /\ calls'[JobOf(h)] = calls[JobOf(h)]
           /\ store'[JobOf(h)] = store[JobOf(h)] \/ store'[JobOf(h)].status \notin Triable,
         Counted(JobOf(h)) =>
           /\ calls'[JobOf(h)] <= MaxAttempts
           /\ store'[JobOf(h)].status \in Triable
                => calls'[JobOf(h)] <= store'[JobOf(h)].attempts,
         h \in Busy' =>
           /\ pc'[h] = "failed" => stream[cur[h]].action = "provision"
           /\ Counted(JobOf(h)) => CopyCounts(h)'
  PROVE  CountInv'
<1>1. /\ h \in Handlers /\ JobOf(h) \in Jobs /\ cur[h] \in 1 .. Len(stream)
      /\ stream[cur[h]] \in Message
  BY Zenon, InHandType
<1>2. /\ stream' = stream /\ post' = post
      /\ \A g \in Busy' : g # h =>
           g \in Busy /\ cur'[g] = cur[g] /\ pc'[g] = pc[g] /\ loc'[g] = loc[g]
  BY Zenon DEF Discipline, Others, Busy, brokerVars
<1>3. h \in Busy' => pc'[h] = "get" \/ cur'[h] = cur[h]
  BY Zenon DEF Discipline, GoesOn, Busy
<1>4. ASSUME NEW j \in Jobs, Counted(j)' PROVE RecordCounts(j)'
  <2>1. Counted(j) /\ RecordCounts(j)
    BY Zenon, <1>2, <1>4 DEF Counted, CountInv
  <2>2. CASE j # JobOf(h)
    BY Zenon, <1>2, <2>1, <2>2 DEF RecordCounts
  <2>3. CASE j = JobOf(h)
    <3>1. stream[cur[h]].action = "provision" => post[j] \notin {"new", "enqueue"}
      BY Zenon, <1>1, <2>3 DEF WorkInv, MessageInv, JobOf
    <3>2. QED
      BY Zenon, <1>2, <2>1, <2>3, <3>1 DEF RecordCounts
  <2>4. QED
    BY Zenon, <2>2, <2>3
<1>5. ASSUME NEW g \in Busy'
      PROVE  /\ pc'[g] = "failed" => stream'[cur'[g]].action = "provision"
             /\ Counted(JobOf(g))' => CopyCounts(g)'
  <2>1. CASE g = h
    <3>1. CASE pc'[h] = "get"
      BY Zenon, <2>1, <3>1 DEF CopyCounts
    <3>2. CASE cur'[h] = cur[h]
      BY Zenon, <1>2, <1>5, <2>1, <3>2 DEF Counted, JobOf
    <3>3. QED
      BY Zenon, <1>3, <1>5, <2>1, <3>1, <3>2
  <2>2. CASE g # h
    <3>1. /\ g \in Busy /\ cur'[g] = cur[g] /\ pc'[g] = pc[g] /\ loc'[g] = loc[g]
          /\ JobOf(g)' = JobOf(g)
      BY Zenon, <1>2, <1>5, <2>2 DEF JobOf
    <3>2. JobOf(g) \in Jobs /\ cur[g] \in 1 .. Len(stream) /\ stream[cur[g]] \in Message
      BY Zenon, <3>1, InHandType
    <3>3. pc[g] = "failed" => stream[cur[g]].action = "provision"
      BY Zenon, <3>1 DEF CountInv
    <3>4. pc[g] \in {"begin", "postgres", "http", "retry", "failed"}
            => stream[cur[g]].action = "provision"
      BY Zenon, <3>1, <3>3 DEF WorkInv, Fits
    <3>5. ASSUME pc[g] \in {"begin", "postgres", "http", "retry", "failed"}
          PROVE  /\ calls'[JobOf(g)] = calls[JobOf(g)]
                 /\ \/ store'[JobOf(g)] = store[JobOf(g)]
                    \/ store'[JobOf(g)].status \notin Triable
      <4>1. CASE JobOf(g) # JobOf(h)
        BY Zenon, <3>2, <4>1
      <4>2. CASE JobOf(g) = JobOf(h) /\ stream[cur[h]].action = "provision"
        <5>1. stream[cur[g]] = stream[cur[h]]
          BY Zenon, <1>1, <3>2, <3>4, <3>5, <4>2, ProvisionForm DEF JobOf
        <5>2. cur[g] = cur[h]
          BY Zenon, <1>1, <3>2, <4>2, <5>1 DEF WorkInv, MessageInv
        <5>3. QED
          BY Zenon, <2>2, <3>1, <5>2 DEF WorkInv, HandlerInv
      <4>3. QED
        BY Zenon, <4>1, <4>2
    <3>6. Counted(JobOf(g))' => Counted(JobOf(g)) /\ CopyCounts(g)
      BY Zenon, <1>2, <3>1 DEF CountInv, Counted
    <3>7. QED
      BY Zenon, <1>2, <3>1, <3>3, <3>5, <3>6 DEF CopyCounts
  <2>3. QED
    BY Zenon, <2>1, <2>2
<1>6. QED
  BY Zenon, <1>4, <1>5 DEF CountInv

\* How calls is counted, up to its bound.
LEMMA CountsOn ==
  ASSUME NEW n \in Nat, NEW a \in Nat, n < a, NEW m \in Nat
  PROVE  /\ n <= a
         /\ \A k : k = (IF n > m THEN n ELSE n + 1) => k <= a /\ (a <= m => k <= m)
  OBVIOUS

\* Every call of a busy handler counts what it does.
LEMMA HandlerCount ==
  ASSUME Reliable, TypeInv, WorkInv, CountInv, NEW h \in Busy, HandlerStep(h),
         UNCHANGED brokerVars
  PROVE  CountInv'
<1> DEFINE j == JobOf(h)
<1>1. /\ h \in Handlers /\ pc[h] \notin {"down", "idle"} /\ j \in Jobs
      /\ stream[cur[h]] \in Message /\ loc[h] \in JobRecord
  BY Zenon, InHandType DEF Busy
<1>2. Discipline(h) /\ Fits(h) /\ HandlerInv /\ stream' = stream
  BY Zenon, HandlerDiscipline DEF WorkInv, Discipline
<1>3. /\ Counted(j) => RecordCounts(j) /\ CopyCounts(h)
      /\ pc[h] = "failed" => stream[cur[h]].action = "provision"
  BY Zenon, <1>1 DEF CountInv
<1>4. /\ store \in [Jobs -> JobRecord] /\ calls \in [Jobs -> Nat]
      /\ UNCHANGED dockerVars => UNCHANGED calls
  BY Zenon DEF TypeInv, DockerOK, dockerVars
<1>5. /\ calls[j] \in Nat /\ store[j].attempts \in Nat
      /\ loc[h].attempts \in Nat /\ MaxAttempts \in Nat
  BY Zenon, <1>1, <1>4, WorkerAssumption DEF JobRecord
<1>6. ASSUME NEW l, NEW rec, Goto(h, l, rec)
      PROVE  pc'[h] = l /\ loc'[h] = rec /\ JobOf(h)' = j
  BY Zenon, <1>1, <1>2, <1>6, GotoShape DEF JobOf
\* A step that writes no record and does not call Provision.
<1>7. ASSUME UNCHANGED <<store, calls>>,
             h \in Busy' =>
               /\ pc'[h] = "failed" => stream[cur[h]].action = "provision"
               /\ Counted(j) => CopyCounts(h)'
      PROVE  CountInv'
  BY Zenon, <1>1, <1>2, <1>3, <1>7, CountStep DEF RecordCounts
\* A step that writes the copy, to go on where nothing is asked.
<1>8. ASSUME TryPut(j, loc[h]), UNCHANGED calls,
             pc'[h] \notin {"begin", "postgres", "http", "retry", "failed"}
               \/ (pc[h] = "begin" /\ Goto(h, "postgres", loc[h])),
             pc[h] \in {"begin", "retry", "failed"}
               \/ loc[h].status \notin Triable
      PROVE  CountInv'
  <2>1. /\ store'[j] = loc[h]
        /\ \A k \in Jobs : k # j => store'[k] = store[k]
        /\ stream[cur[h]].action # "provision" => loc[h].status \notin Triable
    BY Zenon, <1>1, <1>2, <1>3, <1>4, <1>8 DEF TryPut, Fails, Put, Reliable, Fits
  <2>2. pc[h] = "begin" /\ Goto(h, "postgres", loc[h]) /\ Counted(j) => CopyCounts(h)'
    BY Zenon, <1>3, <1>6, <1>8, <2>1 DEF CopyCounts
  <2>3. /\ pc'[h] = "failed" => stream[cur[h]].action = "provision"
        /\ Counted(j) => CopyCounts(h)'
    <3>1. CASE pc'[h] \notin {"begin", "postgres", "http", "retry", "failed"}
      BY Zenon, <3>1 DEF CopyCounts
    <3>2. CASE pc[h] = "begin" /\ Goto(h, "postgres", loc[h])
      <4>1. pc'[h] = "postgres"
        BY Zenon, <1>6, <3>2
      <4>2. QED
        BY Zenon, <2>2, <3>2, <4>1
    <3>3. QED
      BY Zenon, <1>8, <3>1, <3>2
  <2>4. Counted(j) => calls[j] <= MaxAttempts
    BY Zenon, <1>3 DEF RecordCounts
  <2>5. Counted(j) /\ loc[h].status \in Triable => calls[j] <= loc[h].attempts
    <3>1. Counted(j) /\ loc[h].status \in Triable
            => calls[j] < loc[h].attempts \/ calls[j] <= loc[h].attempts
      BY Zenon, <1>3, <1>8 DEF CopyCounts
    <3>2. QED
      BY Zenon, <1>5, <3>1, CountsOn
  <2>6. QED
    BY Zenon, <1>2, <1>8, <2>1, <2>3, <2>4, <2>5, CountStep
\* Provision returned an error.
<1>9. ASSUME NEW class, ProvisionFailed(h, class), stream[cur[h]].action = "provision",
             Counted(j) => calls'[j] <= loc[h].attempts
      PROVE  /\ pc'[h] = "failed" => stream[cur[h]].action = "provision"
             /\ Counted(j) => CopyCounts(h)'
  <2>1. [loc[h] EXCEPT !.status = "failed"].attempts = loc[h].attempts
    BY Zenon, <1>1 DEF JobRecord
  <2>2. pc'[h] \in {"retry", "failed"} /\ loc'[h].attempts = loc[h].attempts /\ JobOf(h)' = j
    BY Zenon, <1>6, <1>9, <2>1 DEF ProvisionFailed
  <2>3. QED
    BY Zenon, <1>9, <2>2 DEF CopyCounts
<1>10. CASE Get(h)
  <2> DEFINE a == stream[cur[h]].action
             r == store[j]
             d == Decision(a, r)
  <2>1. Goto(h, d[1], d[2]) /\ UNCHANGED <<store, calls>>
    BY Zenon, <1>4, <1>10 DEF Get, Fails, Reliable
  <2>2. r \in JobRecord /\ a \in {"provision", "deprovision"}
    BY Zenon, <1>1, <1>4 DEF Message
  <2>3. /\ [r EXCEPT !.attempts = @ + 1].attempts = r.attempts + 1
        /\ [[r EXCEPT !.attempts = @ + 1] EXCEPT !.status = "failed"].attempts = r.attempts + 1
        /\ [[r EXCEPT !.attempts = @ + 1] EXCEPT !.status = "provisioning"].attempts
             = r.attempts + 1
    BY Zenon, <2>2 DEF JobRecord
  <2>4. /\ d[1] \in {"ack", "failed", "begin", "unregister", "teardown"}
        /\ d[1] \in {"failed", "begin"} =>
             /\ a = "provision" /\ d[2].attempts = r.attempts + 1
             /\ r.status \in Triable
        /\ d[1] = "begin" => r.attempts < MaxAttempts
    <3>1. r.status \in Status /\ r.attempts \in Nat
      BY Zenon, <2>2 DEF JobRecord
    <3>2. QED
      BY <1>5, <2>2, <2>3, <3>1 DEF Decision, DeprovisionDecision, ProvisionDecision,
         Status, Triable
  <2> HIDE DEF d
  <2>5. Counted(j) => CopyCounts(h)'
    <3>1. pc'[h] = d[1] /\ loc'[h] = d[2] /\ JobOf(h)' = j /\ calls'[j] = calls[j]
      BY Zenon, <1>6, <2>1
    <3>2. Counted(j) /\ d[1] \in {"failed", "begin"} =>
            calls[j] < d[2].attempts /\ calls[j] <= d[2].attempts
      <4>1. Counted(j) /\ d[1] \in {"failed", "begin"} =>
              calls[j] <= r.attempts /\ d[2].attempts = r.attempts + 1
        BY Zenon, <1>3, <2>4 DEF RecordCounts
      <4>2. QED
        BY <1>5, <4>1
    <3>3. Counted(j) /\ d[1] = "begin" => d[2].attempts <= MaxAttempts
      <4>1. d[1] = "begin" => d[2].attempts = r.attempts + 1 /\ r.attempts < MaxAttempts
        BY Zenon, <2>4
      <4>2. QED
        BY <1>5, <4>1
    <3>4. QED
      BY Zenon, <2>4, <3>1, <3>2, <3>3 DEF CopyCounts
  <2>6. QED
    BY Zenon, <1>6, <1>7, <2>1, <2>4, <2>5
<1>11. CASE PutProvisioning(h)
  BY Zenon, <1>4, <1>8, <1>11 DEF PutProvisioning
<1>12. CASE ProvisionPostgres(h)
  <2>1. /\ calls'[j] = (IF calls[j] > MaxAttempts THEN calls[j] ELSE calls[j] + 1)
        /\ \A k \in Jobs \ {j} : calls'[k] = calls[k]
        /\ UNCHANGED store /\ pc[h] = "postgres" /\ stream[cur[h]].action = "provision"
    BY Zenon, <1>1, <1>2, <1>4, <1>12 DEF ProvisionPostgres, Fits
  <2>2. Counted(j) => calls'[j] <= loc[h].attempts /\ calls'[j] <= MaxAttempts
    <3>1. Counted(j) => calls[j] < loc[h].attempts /\ loc[h].attempts <= MaxAttempts
      BY Zenon, <1>3, <2>1 DEF CopyCounts
    <3>2. ASSUME calls[j] < loc[h].attempts
          PROVE  /\ calls'[j] <= loc[h].attempts
                 /\ loc[h].attempts <= MaxAttempts => calls'[j] <= MaxAttempts
      BY <1>5, <2>1, <3>2, CountsOn
    <3>3. QED
      BY Zenon, <3>1, <3>2
  <2>3. /\ pc'[h] = "failed" => stream[cur[h]].action = "provision"
        /\ Counted(j) => CopyCounts(h)'
    <3>1. CASE Goto(h, "http", loc[h])
      <4>1. pc'[h] = "http" /\ loc'[h] = loc[h] /\ JobOf(h)' = j
        BY Zenon, <1>6, <3>1
      <4>2. QED
        BY Zenon, <2>2, <4>1 DEF CopyCounts
    <3>2. QED
      BY Zenon, <1>9, <1>12, <2>1, <2>2, <3>1 DEF ProvisionPostgres
  <2>4. Counted(j) /\ store'[j].status \in Triable
          => calls'[j] <= store'[j].attempts
    <3>1. Counted(j) /\ store[j].status \in Triable => calls[j] < store[j].attempts
      BY Zenon, <1>3, <2>1 DEF CopyCounts
    <3>2. calls[j] < store[j].attempts => calls'[j] <= store[j].attempts
      BY <1>5, <2>1, CountsOn
    <3>3. QED
      BY Zenon, <2>1, <3>1, <3>2
  <2>5. QED
    BY Zenon, <1>2, <2>1, <2>2, <2>3, <2>4, CountStep
<1>13. CASE ProvisionHTTP(h)
  <2>1. UNCHANGED <<store, calls>> /\ stream[cur[h]].action = "provision" /\ pc[h] = "http"
    BY Zenon, <1>2, <1>13 DEF ProvisionHTTP, Fits
  <2>2. CASE \E class \in DockerErrs : ProvisionFailed(h, class)
    BY Zenon, <1>3, <1>7, <1>9, <2>1, <2>2 DEF CopyCounts
  <2>3. CASE \E p \in SvcPorts(j) :
               Goto(h, "ready", [loc[h] EXCEPT !.status = "ready", !.http = p])
    <3>1. pc'[h] = "ready"
      BY Zenon, <1>6, <2>3
    <3>2. QED
      BY Zenon, <1>7, <2>1, <3>1 DEF CopyCounts
  <2>4. QED
    BY Zenon, <1>13, <2>2, <2>3 DEF ProvisionHTTP
<1>14. CASE PutReady(h) \/ PutFailed(h) \/ PutTornDown(h)
  <2>1. TryPut(j, loc[h]) /\ UNCHANGED calls /\ pc'[h] \in {"register", "failedAck", "ack"}
    BY Zenon, <1>4, <1>6, <1>14 DEF PutReady, PutFailed, PutTornDown
  <2>2. pc[h] = "failed" \/ loc[h].status \in {"ready", "deleted"}
    BY Zenon, <1>2, <1>14 DEF PutReady, PutFailed, PutTornDown, Fits
  <2>3. QED
    BY Zenon, <1>8, <2>1, <2>2 DEF Triable
<1>15. CASE PutTransient(h)
  <2>1. TryPut(j, loc[h]) /\ UNCHANGED calls /\ pc'[h] \in {"idle", "get"} /\ pc[h] = "retry"
    BY Zenon, <1>1, <1>2, <1>4, <1>15, ReturnShape DEF PutTransient
  <2>2. QED
    BY Zenon, <1>8, <2>1
<1>16. CASE \/ Register(h) \/ AckFailed(h) \/ Unregister(h) \/ Teardown(h)
            \/ AckMessage(h) \/ WriteDeadLetter(h)
  <2>1. UNCHANGED <<store, calls>>
    BY Zenon, <1>4, <1>16 DEF Register, AckFailed, Unregister, Teardown, AckMessage,
       WriteDeadLetter
  <2>2. CASE AckMessage(h) \/ WriteDeadLetter(h)
    <3>1. pc'[h] \in {"idle", "get"}
      BY Zenon, <1>1, <1>2, <2>2, ReturnShape DEF AckMessage, WriteDeadLetter
    <3>2. QED
      BY Zenon, <1>7, <2>1, <3>1 DEF Busy, CopyCounts
  <2>3. CASE Register(h) \/ AckFailed(h) \/ Unregister(h) \/ Teardown(h)
    <3>1. pc'[h] \in {"ack", "deadletter", "teardown", "deleted"}
      BY Zenon, <1>6, <2>3 DEF Register, AckFailed, Unregister, Teardown, Reliable
    <3>2. QED
      BY Zenon, <1>7, <2>1, <3>1 DEF CopyCounts
  <2>4. QED
    BY Zenon, <1>16, <2>2, <2>3
<1>17. QED
  BY Zenon, <1>1, <1>10, <1>11, <1>12, <1>13, <1>14, <1>15, <1>16 DEF HandlerStep, Dequeue, Reclaim

\* The loops and the processes of the workers count nothing.
LEMMA WorkerCount ==
  ASSUME Reliable, ClaimsApart, TypeInv, WorkInv, CountInv, WorkerNext, UNCHANGED brokerVars
  PROVE  CountInv'
<1>1. UNCHANGED handlerVars => Busy' = Busy /\ pc' = pc /\ cur' = cur /\ loc' = loc
  BY Zenon DEF handlerVars, Busy
<1>2. UNCHANGED dockerVars => UNCHANGED calls
  BY Zenon DEF dockerVars
<1>3. UNCHANGED queueVars => UNCHANGED stream
  BY Zenon DEF queueVars
<1>4. ASSUME UNCHANGED <<store, stream, calls, handlerVars>> PROVE CountInv'
  BY Zenon, <1>1, <1>4, LoopCount
<1>5. ASSUME NEW h \in Handlers, NEW i, NEW rest, Begin(h, i, rest), h \notin Busy,
             UNCHANGED <<store, stream, calls>>
      PROVE  CountInv'
  <2>1. \A g \in Busy' : pc'[g] = "get" \/ (g \in Busy /\ pc'[g] = pc[g]
                           /\ cur'[g] = cur[g] /\ loc'[g] = loc[g])
    BY Zenon, <1>5 DEF Begin, Busy, TypeInv, HandlersOK
  <2>2. QED
    BY Zenon, <1>5, <2>1, LoopCount
<1>6. ASSUME NEW w \in Workers, WorkerStart(w) PROVE CountInv'
  <2>1. UNCHANGED <<store, stream, calls, cur, loc>>
    BY Zenon, <1>2, <1>6, GroupAtStart DEF WorkerStart, WorkInv
  <2>2. \A g \in Busy' : g \in Busy /\ pc'[g] = pc[g]
    BY Zenon, <1>6 DEF WorkerStart, Busy
  <2>3. QED
    BY Zenon, <2>1, <2>2, LoopCount
<1>7. ASSUME NEW w \in Workers, WorkerCrash(w) PROVE CountInv'
  <2>1. UNCHANGED <<store, stream, calls>>
    BY Zenon, <1>2, <1>3, <1>7 DEF WorkerCrash
  <2>2. \A g \in Handlers : \/ pc'[g] = "down"
                            \/ pc'[g] = pc[g] /\ cur'[g] = cur[g] /\ loc'[g] = loc[g]
    BY Zenon, <1>7 DEF WorkerCrash
  <2>3. QED
    BY Zenon, <2>1, <2>2, LoopCount DEF Busy
<1>8. ASSUME NEW h \in Handlers, DequeueNothing(h) PROVE CountInv'
  BY Zenon, <1>2, <1>3, <1>4, <1>8 DEF DequeueNothing, workerVars
<1>9. ASSUME NEW i \in pel, MinIdlePasses(i) PROVE CountInv'
  BY Zenon, <1>2, <1>4, <1>9 DEF MinIdlePasses, BecomeIdle, workerVars
<1>10. ASSUME NEW h \in Handlers, Dequeue(h) PROVE CountInv'
  BY Zenon, <1>2, <1>4, <1>5, <1>10 DEF Dequeue, Deliver, Busy
<1>11. ASSUME NEW h \in Handlers, Reclaim(h) PROVE CountInv'
  BY Zenon, <1>2, <1>4, <1>5, <1>11 DEF Reclaim, Claim, Busy
<1>12. ASSUME NEW h \in Handlers, HandlerStep(h), ~ (Dequeue(h) \/ Reclaim(h))
       PROVE  CountInv'
  <2>1. h \in Busy
    BY Zenon, <1>12 DEF HandlerStep, Busy, Get, PutProvisioning, ProvisionPostgres,
       ProvisionHTTP, PutReady, Register, PutTransient, PutFailed, AckFailed,
       WriteDeadLetter, AckMessage, Unregister, Teardown, PutTornDown
  <2>2. QED
    BY Zenon, <1>12, <2>1, HandlerCount
<1>13. QED
  BY Zenon, <1>6, <1>7, <1>8, <1>9, <1>10, <1>11, <1>12 DEF WorkerNext

-----------------------------------------------------------------------------
(* The steps of the broker *)

\* A job becomes unfinished before it is accepted, and is accepted with its
\* message at the end of the stream.
Accepts ==
  /\ \A j \in Jobs : Unfinished(j)' => Unfinished(j) \/ (post[j] = "new" /\ post'[j] # "202")
  /\ \A j \in Jobs : post'[j] = "202" =>
       \/ post[j] = "202"
       \/ Len(stream') = Len(stream) + 1 /\ stream'[Len(stream) + 1] = Provision(j)

\* A request that accepts a job with its message in the stream loses no work
\* (api.go 80-104).
LEMMA AcceptWork ==
  ASSUME TypeInv, TypeInv', WorkInv, Accepts, Grown,
         UNCHANGED <<cursor, pel, idle, handlerVars>>,
         MessageInv', CopyInv'
  PROVE  WorkInv'
<1>1. Busy' = Busy /\ HandlerInv'
  BY Zenon DEF WorkInv, HandlerInv, Busy, handlerVars
<1>2. ASSUME NEW g \in Busy' PROVE Fits(g)' /\ Settled(g)'
  <2>1. g \in Busy /\ Fits(g) /\ Settled(g)
    BY Zenon, <1>1, <1>2 DEF WorkInv
  <2>2. cur[g] \in 1 .. Len(stream) /\ JobOf(g) \in Jobs
    BY Zenon, <2>1, InHandType
  <2>3. stream'[cur'[g]] = stream[cur[g]] /\ pc'[g] = pc[g] /\ loc'[g] = loc[g]
    BY Zenon, <2>2 DEF Grown, handlerVars
  <2>4. Fits(g)'
    BY Zenon, <2>1, <2>3 DEF Fits
  <2>5. stream[cur[g]].action = "provision" => post[JobOf(g)] # "new"
    BY Zenon, <2>2 DEF WorkInv, MessageInv, JobOf
  <2>6. \A j \in Jobs : post[j] # "new" /\ store'[j].status \in {"pending", "provisioning"}
          => store[j].status \in {"pending", "provisioning"}
    BY Zenon DEF Accepts, Unfinished
  <2>7. Settled(g)'
    BY Zenon, <2>1, <2>2, <2>3, <2>5, <2>6 DEF Settled, JobOf, Unfinished
  <2>8. QED
    BY Zenon, <2>4, <2>7
<1>3. NoWorkLost'
  <2> SUFFICES ASSUME NEW j \in Jobs, post'[j] = "202", Unfinished(j)'
               PROVE  \E i \in 1 .. Len(stream') :
                        stream'[i] = Provision(j) /\ (i > cursor \/ i \in pel)
    BY Zenon DEF NoWorkLost, Outstanding, Provision
  <2>1. cursor \in 0 .. Len(stream) /\ Len(stream) \in Nat /\ Len(stream') \in Nat
    BY DEF TypeInv, QueueTypeOK
  <2>2. CASE post[j] = "202"
    <3>1. Unfinished(j)
      BY Zenon, <2>2 DEF Accepts
    <3>2. PICK i \in 1 .. Len(stream) :
                 stream[i] = Provision(j) /\ (i > cursor \/ i \in pel)
      BY Zenon, <2>2, <3>1 DEF WorkInv, NoWorkLost, Outstanding
    <3>3. QED
      BY <2>1, <3>2 DEF Grown
  <2>3. CASE post[j] # "202"
    <3>1. Len(stream') = Len(stream) + 1 /\ stream'[Len(stream) + 1] = Provision(j)
      BY Zenon, <2>3 DEF Accepts
    <3>2. QED
      BY <2>1, <3>1
  <2>4. QED
    BY Zenon, <2>2, <2>3
<1>4. QED
  BY Zenon, <1>1, <1>2, <1>3 DEF WorkInv

\* Every step of the broker keeps the invariant.
LEMMA BrokerWork ==
  ASSUME Reliable, TypeInv, TypeInv', WorkInv, BrokerNext, UNCHANGED workerVars
  PROVE  WorkInv'
<1> DEFINE Kept == Accepts /\ CopyInv'
<1>1. CopyInv
  BY Zenon DEF WorkInv
<1>2. /\ post \in [Jobs -> PostStates] /\ del \in [Deletes -> DelStates]
      /\ copy \in [Deletes -> JobRecord] /\ store \in [Jobs -> JobRecord]
      /\ stream \in Seq(Message)
  BY Zenon DEF TypeInv, BrokerTypeOK, QueueTypeOK
<1>3. NewJob.status = "pending" /\ [NewJob EXCEPT !.status = "failed"].status = "failed"
  BY Zenon DEF NewJob
<1>4. ASSUME BrokerStart PROVE Kept
  BY Zenon, <1>1, <1>4 DEF BrokerStart, Accepts, Unfinished, CopyInv
<1>5. ASSUME BrokerCrash PROVE Kept
  <2>1. \A j \in Jobs : post'[j] = post[j] \/ post'[j] = "lost"
    BY Zenon, <1>5 DEF BrokerCrash
  <2>2. \A d \in Deletes : del'[d] = del[d] \/ del'[d] = "lost"
    BY Zenon, <1>5 DEF BrokerCrash
  <2>3. UNCHANGED <<store, copy>>
    BY Zenon, <1>5 DEF BrokerCrash
  <2>4. QED
    BY Zenon, <1>1, <2>1, <2>2, <2>3 DEF Accepts, Unfinished, CopyInv
<1>6. ASSUME NEW j \in Jobs, PostPut(j) PROVE Kept
  <2>1. post[j] = "new" /\ Put(j, NewJob) /\ PostGoto(j, "enqueue")
    BY Zenon, <1>6 DEF PostPut, Fails, Reliable
  <2>2. QED
    BY Zenon, <1>1, <1>2, <2>1 DEF Accepts, Unfinished, Put, PostGoto, CopyInv
<1>7. ASSUME NEW j \in Jobs, PostEnqueue(j) PROVE Kept
  <2>1. /\ UNCHANGED store
        /\ \/ Enqueue(Provision(j)) /\ PostGoto(j, "202")
           \/ PostGoto(j, "compensate")
    BY Zenon, <1>7 DEF PostEnqueue
  <2>2. CopyInv'
    BY Zenon, <1>1, <2>1 DEF CopyInv, PostGoto
  <2>3. Provision(j) \in Message
    BY Zenon DEF Provision, Message
  <2>4. Enqueue(Provision(j)) =>
          Len(stream') = Len(stream) + 1 /\ stream'[Len(stream) + 1] = Provision(j)
    BY Zenon, <1>2, <2>3, EnqueueShape
  <2>5. Accepts
    BY Zenon, <1>2, <2>1, <2>4 DEF Accepts, Unfinished, PostGoto
  <2>6. QED
    BY Zenon, <2>2, <2>5
<1>8. ASSUME NEW j \in Jobs, PostCompensate(j) PROVE Kept
  <2>1. PostGoto(j, "500") /\ Put(j, [NewJob EXCEPT !.status = "failed"])
    BY Zenon, <1>8 DEF PostCompensate, Fails, Reliable
  <2>2. QED
    BY Zenon, <1>1, <1>2, <1>3, <2>1 DEF Accepts, Unfinished, Put, PostGoto, CopyInv
<1>9. ASSUME NEW d \in Deletes, NEW j \in Jobs, DelGet(d, j) PROVE Kept
  <2> DEFINE l == DelRoute(store[j].status)
             c == IF l = "put" THEN [store[j] EXCEPT !.status = "deleting"] ELSE NotFound
  <2>1. UNCHANGED store /\ DelGoto(d, l) /\ copy' = [copy EXCEPT ![d] = c]
    BY Zenon, <1>9 DEF DelGet, Fails, Reliable
  <2>2. l = "put" => c.status = "deleting"
    BY Zenon, <1>2 DEF JobRecord
  <2> HIDE DEF l, c
  <2>3. QED
    BY Zenon, <1>1, <1>2, <2>1, <2>2 DEF CopyInv, DelGoto, Accepts, Unfinished
<1>10. ASSUME NEW d \in Deletes, NEW j \in Jobs, DelPut(d, j) PROVE Kept
  <2>1. /\ del[d] = "put" /\ DelGoto(d, "enqueue")
        /\ Put(j, copy[d]) /\ copy' = [copy EXCEPT ![d] = NotFound]
    BY Zenon, <1>10 DEF DelPut, Fails, Reliable
  <2>2. copy[d].status = "deleting"
    BY Zenon, <1>1, <2>1 DEF CopyInv
  <2>3. Accepts
    BY Zenon, <1>2, <2>1, <2>2 DEF Accepts, Unfinished, Put, DelGoto
  <2>4. CopyInv'
    BY Zenon, <1>1, <1>2, <2>1 DEF CopyInv, DelGoto
  <2>5. QED
    BY Zenon, <2>3, <2>4
<1>11. ASSUME NEW d \in Deletes, NEW j \in Jobs, DelEnqueue(d, j) PROVE Kept
  <2>1. /\ UNCHANGED <<store, copy, post>>
        /\ \A e \in Deletes : del'[e] = del[e] \/ del'[e] \in {"202", "500"}
    BY Zenon, <1>2, <1>11 DEF DelEnqueue, DelGoto
  <2>2. QED
    BY Zenon, <1>1, <2>1 DEF Accepts, Unfinished, CopyInv
<1>12. Kept
  BY Zenon, <1>4, <1>5, <1>6, <1>7, <1>8, <1>9, <1>10, <1>11 DEF BrokerNext, BrokerStep
<1>13. MessageInv' /\ Grown /\ UNCHANGED <<cursor, pel, idle>>
  BY Zenon, BrokerMessages DEF WorkInv
<1>14. QED
  BY Zenon, <1>12, <1>13, AcceptWork DEF workerVars

-----------------------------------------------------------------------------
(* The attempts of a job are counted *)

\* The broker writes a record that may be tried only before it is queued, or
\* when the job counts no more.
LEMMA BrokerCount ==
  ASSUME Reliable, TypeInv, WorkInv, CountInv, BrokerNext, UNCHANGED workerVars
  PROVE  CountInv'
<1> DEFINE Kept ==
      /\ Grown
      /\ \A j \in Jobs :
           /\ post'[j] \in {"new", "enqueue"} => post[j] \in {"new", "enqueue"}
           /\ Counted(j)' => Counted(j)
           /\ \/ store'[j] = store[j]
              \/ store'[j].status = "deleting"
              \/ ~Counted(j)'
              \/ post[j] = "new" /\ store'[j].attempts = 0
<1>1. /\ post \in [Jobs -> PostStates] /\ store \in [Jobs -> JobRecord]
      /\ calls \in [Jobs -> Nat] /\ stream \in Seq(Message) /\ QueueTypeOK
  BY Zenon DEF TypeInv, BrokerTypeOK, DockerOK, QueueTypeOK
<1>2. UNCHANGED queueVars => Grown
  BY Zenon, <1>1, QueueType DEF QueueStep
<1>3. UNCHANGED <<store, post>> /\ Grown => Kept
  BY Zenon DEF Counted
<1>4. ASSUME BrokerStart PROVE Kept
  BY Zenon, <1>1, <1>3, <1>4, QueueType DEF BrokerStart, QueueStep
<1>5. ASSUME BrokerCrash PROVE Kept
  BY Zenon, <1>1, <1>2, <1>5 DEF BrokerCrash, Counted
<1>6. ASSUME NEW j \in Jobs, PostPut(j) PROVE Kept
  <2>1. /\ post[j] = "new" /\ UNCHANGED queueVars
        /\ Put(j, NewJob) /\ PostGoto(j, "enqueue")
    BY Zenon, <1>6 DEF PostPut, Fails, Reliable
  <2>2. QED
    BY Zenon, <1>1, <1>2, <2>1 DEF Put, PostGoto, NewJob, Counted
<1>7. ASSUME NEW j \in Jobs, PostEnqueue(j) PROVE Kept
  <2>1. Provision(j) \in Message
    BY Zenon DEF Provision, Message
  <2>2. /\ post[j] = "enqueue" /\ UNCHANGED store
        /\ PostGoto(j, "202") \/ PostGoto(j, "compensate")
        /\ Enqueue(Provision(j)) \/ UNCHANGED queueVars
    BY Zenon, <1>7 DEF PostEnqueue
  <2>3. Grown
    BY Zenon, <1>1, <1>2, <2>1, <2>2, EnqueueShape
  <2>4. QED
    BY Zenon, <1>1, <2>2, <2>3 DEF PostGoto, Counted
<1>8. ASSUME NEW j \in Jobs, PostCompensate(j) PROVE Kept
  <2>1. /\ UNCHANGED queueVars /\ PostGoto(j, "500")
        /\ Put(j, [NewJob EXCEPT !.status = "failed"])
    BY Zenon, <1>8 DEF PostCompensate, Fails, Reliable
  <2>2. QED
    BY Zenon, <1>1, <1>2, <2>1 DEF Put, PostGoto, Counted
<1>9. ASSUME NEW d \in Deletes, NEW j \in Jobs, DelGet(d, j) PROVE Kept
  BY Zenon, <1>2, <1>3, <1>9 DEF DelGet, DelGoto
<1>10. ASSUME NEW d \in Deletes, NEW j \in Jobs, DelPut(d, j) PROVE Kept
  <2>1. UNCHANGED queueVars /\ del[d] = "put" /\ UNCHANGED post /\ Put(j, copy[d])
    BY Zenon, <1>10 DEF DelPut, DelGoto, Fails, Reliable
  <2>2. copy[d].status = "deleting"
    BY Zenon, <2>1 DEF WorkInv, CopyInv
  <2>3. QED
    BY Zenon, <1>1, <1>2, <2>1, <2>2 DEF Put, Counted
<1>11. ASSUME NEW d \in Deletes, NEW j \in Jobs, DelEnqueue(d, j) PROVE Kept
  <2>1. Deprovision(j) \in Message
    BY Zenon DEF Deprovision, Message
  <2>2. UNCHANGED <<store, post>> /\ (Enqueue(Deprovision(j)) \/ UNCHANGED queueVars)
    BY Zenon, <1>11 DEF DelEnqueue, DelGoto
  <2>3. QED
    BY Zenon, <1>1, <1>2, <1>3, <2>1, <2>2, EnqueueShape
<1>12. Kept
  BY Zenon, <1>4, <1>5, <1>6, <1>7, <1>8, <1>9, <1>10, <1>11 DEF BrokerNext, BrokerStep
<1>13. UNCHANGED <<pc, cur, loc, calls>> /\ Busy' = Busy
  BY Zenon DEF workerVars, handlerVars, dockerVars, Busy
<1>14. ASSUME NEW j \in Jobs, Counted(j)' PROVE RecordCounts(j)'
  <2>1. Counted(j) /\ RecordCounts(j)
    BY Zenon, <1>12, <1>14 DEF CountInv
  <2>2. /\ post'[j] \in {"new", "enqueue"} => post[j] \in {"new", "enqueue"}
        /\ \/ store'[j] = store[j]
           \/ store'[j].status \notin Triable
           \/ post[j] = "new" /\ store'[j].attempts = 0
    BY Zenon, <1>12, <1>14 DEF Triable
  <2>3. calls'[j] = calls[j] /\ calls[j] \in Nat
    BY Zenon, <1>1, <1>13
  <2>4. store'[j].status \in Triable => calls[j] <= store'[j].attempts
    <3>1. CASE post[j] = "new" /\ store'[j].attempts = 0
      <4>1. calls[j] = 0
        BY Zenon, <2>1, <3>1 DEF RecordCounts
      <4>2. QED
        BY <3>1, <4>1
    <3>2. CASE store'[j] = store[j] \/ store'[j].status \notin Triable
      BY Zenon, <2>1, <3>2 DEF RecordCounts
    <3>3. QED
      BY Zenon, <2>2, <3>1, <3>2
  <2>5. QED
    BY Zenon, <2>1, <2>2, <2>3, <2>4 DEF RecordCounts
<1>15. ASSUME NEW g \in Busy'
       PROVE  /\ pc'[g] = "failed" => stream'[cur'[g]].action = "provision"
              /\ Counted(JobOf(g))' => CopyCounts(g)'
  <2>1. g \in Busy /\ JobOf(g) \in Jobs /\ cur[g] \in 1 .. Len(stream)
    BY Zenon, <1>13, <1>15, InHandType
  <2>2. stream'[cur'[g]] = stream[cur[g]] /\ JobOf(g)' = JobOf(g)
    BY Zenon, <1>12, <1>13, <2>1 DEF Grown, JobOf
  <2>3. Counted(JobOf(g))' => Counted(JobOf(g))
    <3>1. \A k \in Jobs : post'[k] \in {"new", "enqueue", "202"}
                            => post[k] \in {"new", "enqueue", "202"}
      BY Zenon, <1>12 DEF Counted
    <3>2. QED
      BY Zenon, <2>1, <2>2, <3>1 DEF Counted
  <2>4. pc[g] = "postgres" => post[JobOf(g)] # "new"
    BY Zenon, <2>1, InHandType DEF WorkInv, MessageInv, Fits, JobOf
  <2>5. QED
    <3>1. CASE ~Counted(JobOf(g))'
      BY Zenon, <1>13, <2>1, <2>2, <3>1 DEF CountInv
    <3>2. CASE Counted(JobOf(g))'
      <4>1. Counted(JobOf(g)) /\ CopyCounts(g)
        BY Zenon, <2>1, <2>3, <3>2 DEF CountInv
      <4>2. post'[JobOf(g)] \in {"new", "enqueue", "202"}
        BY Zenon, <2>2, <3>2 DEF Counted
      <4>3. pc[g] = "postgres" => \/ store'[JobOf(g)] = store[JobOf(g)]
                                 \/ store'[JobOf(g)].status \notin Triable
        BY Zenon, <1>12, <2>1, <2>4, <4>2 DEF Counted, Triable
      <4>4. QED
        BY Zenon, <1>13, <2>1, <2>2, <4>1, <4>3 DEF CountInv, CopyCounts
    <3>3. QED
      BY Zenon, <3>1, <3>2
<1>16. QED
  BY Zenon, <1>14, <1>15 DEF CountInv

=============================================================================
