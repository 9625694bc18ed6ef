---------------------------- MODULE JobLifecycle ----------------------------
(***************************************************************************)
(* The life of an accepted job as its client sees it: the status diagram,  *)
(* the attempts counter and the endpoint of model/model.go (8-12, 48-58).  *)
(*                                                                         *)
(* The diagram is followed with one addition the worker makes: a failed    *)
(* job whose message comes back is tried again while it has attempts left. *)
(***************************************************************************)
EXTENDS Naturals

CONSTANTS Jobs, Ports, NoPort, MaxAttempts

VARIABLES
  status, attempts, endpoint   \* by job

vars == <<status, attempts, endpoint>>

Init ==
  /\ status = [j \in Jobs |-> "absent"]
  /\ attempts = [j \in Jobs |-> 0]
  /\ endpoint = [j \in Jobs |-> NoPort]

\* Job j moves from one of the given statuses to another.
Move(j, from, to) ==
  /\ status[j] \in from
  /\ status' = [status EXCEPT ![j] = to]

Count(j) == attempts' = [attempts EXCEPT ![j] = @ + 1]

Reach(j, e) == endpoint' = [endpoint EXCEPT ![j] = e]

Accept(j) ==
  Move(j, {"absent"}, "pending") /\ UNCHANGED <<attempts, endpoint>>

Try(j) ==
  /\ Move(j, {"pending", "provisioning", "failed"}, "provisioning")
  /\ attempts[j] < MaxAttempts
  /\ Count(j)
  /\ UNCHANGED endpoint

Succeed(j) ==
  /\ Move(j, {"provisioning"}, "ready")
  /\ \E p \in Ports : Reach(j, p)
  /\ UNCHANGED attempts

Fail(j) ==
  Move(j, {"provisioning"}, "failed") /\ UNCHANGED <<attempts, endpoint>>

\* The attempts are used up.
Abandon(j) ==
  /\ Move(j, {"pending", "provisioning", "failed"}, "failed")
  /\ attempts[j] >= MaxAttempts
  /\ Count(j)
  /\ UNCHANGED endpoint

Delete(j) ==
  Move(j, {"ready"}, "deleting") /\ UNCHANGED <<attempts, endpoint>>

TearDown(j) ==
  Move(j, {"deleting"}, "deleted") /\ Reach(j, NoPort) /\ UNCHANGED attempts

Next ==
  \E j \in Jobs :
    \/ Accept(j) \/ Try(j) \/ Succeed(j) \/ Fail(j) \/ Abandon(j)
    \/ Delete(j) \/ TearDown(j)

Spec == Init /\ [][Next]_vars

=============================================================================
