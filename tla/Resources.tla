----------------------------- MODULE Resources -----------------------------
(***************************************************************************)
(* What the interface Provisioner of provisioner/provisioner.go promises   *)
(* its callers (lines 65-73): Provision returns the resources the job has, *)
(* never duplicates of them, and Deprovision returns once the job has      *)
(* none.  Either may return an error instead, at any time.                 *)
(***************************************************************************)
CONSTANTS
  Provisions, Teardowns,  \* the calls of Provision and of Deprovision
  JobOf,                  \* JobOf[c]: the job call c is about
  Jobs, Kinds,            \* a job owns one resource of each kind
  Ids, NoId               \* the identities of resources

Calls == Provisions \cup Teardowns
Names == Jobs \X Kinds

VARIABLES
  resource,   \* resource[n]: the identity of the resource named n
  answer      \* answer[c]: what call c returned, and the resources it names

vars == <<resource, answer>>

None == [k \in Kinds |-> NoId]

Owned(j) == [k \in Kinds |-> resource[<<j, k>>]]

Init ==
  /\ resource = [n \in Names |-> NoId]
  /\ answer = [c \in Calls |-> [tag |-> "none", of |-> None]]

Appears(n) ==
  /\ resource[n] = NoId
  /\ \E i \in Ids : resource' = [resource EXCEPT ![n] = i]

Disappears(n) == resource' = [resource EXCEPT ![n] = NoId]

Answer(c, tag, of) ==
  /\ answer[c].tag = "none"
  /\ answer' = [answer EXCEPT ![c] = [tag |-> tag, of |-> of]]

\* A call makes or removes a resource before it is through.
Work ==
  /\ \E n \in Names : Appears(n) \/ Disappears(n)
  /\ UNCHANGED answer

Provisioned(c) ==
  /\ \A k \in Kinds : Owned(JobOf[c])[k] # NoId
  /\ Answer(c, "ok", Owned(JobOf[c]))
  /\ UNCHANGED resource

Deprovisioned(t) ==
  /\ Owned(JobOf[t]) = None
  /\ Answer(t, "ok", None)
  /\ UNCHANGED resource

\* The step that failed may have made a resource all the same.
Failed(c) ==
  /\ Answer(c, "error", None)
  /\ UNCHANGED resource \/ \E n \in Names : Appears(n)

Next ==
  \/ Work
  \/ \E c \in Provisions : Provisioned(c)
  \/ \E t \in Teardowns : Deprovisioned(t)
  \/ \E c \in Calls : Failed(c)

Spec == Init /\ [][Next]_vars

=============================================================================
