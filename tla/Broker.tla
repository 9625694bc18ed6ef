------------------------------- MODULE Broker -------------------------------
(***************************************************************************)
(* The broker: cmd/broker/main.go and the two handlers of                  *)
(* internal/api/api.go that change state.  Every request is served by its  *)
(* own goroutine; one action is one call to Redis together with the local  *)
(* steps up to the next call.                                              *)
(*                                                                         *)
(* A POST is named by the id newID gives its job (64 random bits, taken to *)
(* be unique).  A request that fails validation changes nothing and is     *)
(* left out, as are the read-only handlers.                                *)
(***************************************************************************)
EXTENDS JobQueue, Faults

CONSTANT
  Deletes    \* the DELETE requests clients may send

VARIABLES
  serving,   \* whether the broker process is up
  post,      \* post[j]: progress of the POST that creates j, then its answer
  del,       \* del[d]: progress of DELETE request d, then its answer
  target,    \* target[d]: the job d names, once it is read
  copy       \* copy[d]: the record d read and is about to write back

brokerVars == <<serving, post, del, target, copy>>

\* "lost": the broker died before it answered.
PostStates == {"new", "enqueue", "compensate", "202", "500", "lost"}
DelStates  == {"new", "put", "enqueue", "200", "202", "404", "500", "lost"}

BrokerTypeOK ==
  /\ serving \in BOOLEAN
  /\ post \in [Jobs -> PostStates]
  /\ del \in [Deletes -> DelStates]
  /\ target \in [Deletes -> SUBSET Jobs]
  /\ copy \in [Deletes -> JobRecord]

BrokerInit ==
  /\ serving = FALSE
  /\ post = [j \in Jobs |-> "new"]
  /\ del = [d \in Deletes |-> "new"]
  /\ target = [d \in Deletes |-> {}]
  /\ copy = [d \in Deletes |-> NotFound]

\* The requests a dying broker leaves without an answer.
InFlight == {"put", "enqueue", "compensate"}

-----------------------------------------------------------------------------
\* main: the group is made sure of before the first request is served.
BrokerStart ==
  /\ ~serving
  /\ EnsureGroup
  /\ serving' = TRUE
  /\ UNCHANGED <<store, post, del, target, copy, faultVars>>

BrokerCrash ==
  /\ serving
  /\ Dies
  /\ serving' = FALSE
  /\ post' = [j \in Jobs |-> IF post[j] \in InFlight THEN "lost" ELSE post[j]]
  /\ del' = [d \in Deletes |-> IF del[d] \in InFlight THEN "lost" ELSE del[d]]
  /\ UNCHANGED <<store, queueVars, target, copy>>

-----------------------------------------------------------------------------
(* handleProvision *)

PostGoto(j, l) ==
  /\ post' = [post EXCEPT ![j] = l]
  /\ UNCHANGED <<serving, del, target, copy>>

\* Record the job before it is queued.
PostPut(j) ==
  /\ serving /\ post[j] = "new"
  /\ \/ Works /\ Put(j, NewJob) /\ PostGoto(j, "enqueue")
     \/ Fails("put") /\ (Put(j, NewJob) \/ UNCHANGED store) /\ PostGoto(j, "500")
  /\ UNCHANGED queueVars

PostEnqueue(j) ==
  /\ serving /\ post[j] = "enqueue"
  /\ \/ Works /\ Enqueue(Provision(j)) /\ PostGoto(j, "202")
     \/ /\ Fails("enqueue")
        /\ Enqueue(Provision(j)) \/ UNCHANGED queueVars
        /\ PostGoto(j, "compensate")
  /\ UNCHANGED store

\* The enqueue failed: mark the job failed, whatever that write returns.
PostCompensate(j) ==
  /\ serving /\ post[j] = "compensate"
  /\ \/ Works /\ Put(j, [NewJob EXCEPT !.status = "failed"])
     \/ /\ Fails("put")
        /\ Put(j, [NewJob EXCEPT !.status = "failed"]) \/ UNCHANGED store
  /\ PostGoto(j, "500")
  /\ UNCHANGED queueVars

-----------------------------------------------------------------------------
(* handleDeprovision *)

DelGoto(d, l) ==
  /\ del' = [del EXCEPT ![d] = l]
  /\ UNCHANGED <<serving, post>>

\* What the request does with the status it read.
DelRoute(status) ==
  CASE status = "absent"   -> "404"
    [] status = "deleted"  -> "200"
    [] status = "deleting" -> "202"
    [] OTHER               -> "put"

DelGet(d, j) ==
  /\ serving /\ del[d] = "new"
  /\ target' = [target EXCEPT ![d] = {j}]
  /\ \/ /\ Works
        /\ DelGoto(d, DelRoute(store[j].status))
        /\ copy' = [copy EXCEPT ![d] =
             IF DelRoute(store[j].status) = "put"
             THEN [store[j] EXCEPT !.status = "deleting"] ELSE NotFound]
     \/ Fails("get") /\ DelGoto(d, "500") /\ UNCHANGED copy
  /\ UNCHANGED <<store, queueVars>>

\* Mutant of DelPut: the request is answered once the record says deleting.
DelPutAnswers(d, j) ==
  /\ serving /\ del[d] = "put" /\ j \in target[d]
  /\ Works /\ Put(j, copy[d]) /\ DelGoto(d, "202")
  /\ copy' = [copy EXCEPT ![d] = NotFound]
  /\ UNCHANGED <<queueVars, target>>

DelPut(d, j) ==
  /\ serving /\ del[d] = "put" /\ j \in target[d]
  /\ \/ Works /\ Put(j, copy[d]) /\ DelGoto(d, "enqueue")
     \/ Fails("put") /\ (Put(j, copy[d]) \/ UNCHANGED store) /\ DelGoto(d, "500")
  /\ copy' = [copy EXCEPT ![d] = NotFound]
  /\ UNCHANGED <<queueVars, target>>

DelEnqueue(d, j) ==
  /\ serving /\ del[d] = "enqueue" /\ j \in target[d]
  /\ \/ Works /\ Enqueue(Deprovision(j)) /\ DelGoto(d, "202")
     \/ /\ Fails("enqueue")
        /\ Enqueue(Deprovision(j)) \/ UNCHANGED queueVars
        /\ DelGoto(d, "500")
  /\ UNCHANGED <<store, target, copy>>

-----------------------------------------------------------------------------
\* A request the broker has begun to serve takes its next step.
BrokerStep ==
  \/ \E j \in Jobs : PostEnqueue(j) \/ PostCompensate(j)
  \/ \E d \in Deletes, j \in Jobs : DelPut(d, j) \/ DelEnqueue(d, j)

BrokerNext ==
  \/ BrokerStart
  \/ BrokerCrash
  \/ \E j \in Jobs : PostPut(j)
  \/ \E d \in Deletes, j \in Jobs : DelGet(d, j)
  \/ BrokerStep

=============================================================================
