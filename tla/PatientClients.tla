--------------------------- MODULE PatientClients ---------------------------
(***************************************************************************)
(* The control plane under clients that follow README.md 46-47: they poll  *)
(* a job until it is ready before they delete it.  Infraforge lets them    *)
(* send a DELETE at any time.                                              *)
(***************************************************************************)
EXTENDS Infraforge

\* A DELETE is sent for a job its client has seen ready.
Patient ==
  \A d \in Deletes : del[d] = "new" /\ del'[d] # "new" =>
    \A j \in target'[d] : store[j].status \in {"ready", "deleting", "deleted"}

PatientSpec == Init /\ [][Next /\ Patient]_vars

\* A job is its client's business once its POST was answered 202.
Seen(j, value, before) == IF post[j] = "202" THEN value ELSE before

Lifecycle == INSTANCE JobLifecycle WITH
  status   <- [j \in Jobs |-> Seen(j, store[j].status, "absent")],
  attempts <- [j \in Jobs |-> Seen(j, store[j].attempts, 0)],
  endpoint <- [j \in Jobs |-> Seen(j, store[j].http, NoPort)]

\* An accepted job goes through the status diagram of model.go 8-12 and
\* nothing else, its attempts are counted one by one up to the cap, and it
\* has an endpoint from ready to deleted: no crash, redelivery, failed
\* teardown or late write takes it off the diagram (worker.go 165-300).
FollowsLifecycle == Lifecycle!Spec

=============================================================================
