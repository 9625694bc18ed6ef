------------------------------- MODULE Faults -------------------------------
(***************************************************************************)
(* The failures the processes meet.  A call to Redis, to Docker or to the  *)
(* xDS server may return an error, and a process may die.  An error from a *)
(* remote call says nothing about whether the call took effect, so the     *)
(* callers let a failed write be applied or not.                           *)
(***************************************************************************)
EXTENDS Naturals

CONSTANTS
  Faulty,       \* the remote calls that may return an error
  DockerErrs,   \* the ways the provisioner may fail
  MaxFaults,    \* bound on the errors of remote calls in a behaviour
  MaxCrashes    \* bound on the process deaths in a behaviour

RemoteCalls == {"get", "put", "enqueue", "dequeue", "reclaim", "ack",
                "deadletter", "register", "unregister"}

ASSUME FaultAssumption ==
  /\ Faulty \subseteq RemoteCalls
  /\ DockerErrs \subseteq {"transient", "permanent", "teardown"}
  /\ MaxFaults \in Nat
  /\ MaxCrashes \in Nat

VARIABLES
  faults,    \* errors returned so far
  crashes    \* process deaths so far

faultVars == <<faults, crashes>>

FaultTypeOK == faults \in 0 .. MaxFaults /\ crashes \in 0 .. MaxCrashes

FaultInit == faults = 0 /\ crashes = 0

\* The call returns an error.
Fails(call) ==
  /\ call \in Faulty
  /\ faults < MaxFaults
  /\ faults' = faults + 1
  /\ UNCHANGED crashes

\* The call returns no error.
Works == UNCHANGED faultVars

\* A process dies.
Dies ==
  /\ crashes < MaxCrashes
  /\ crashes' = crashes + 1
  /\ UNCHANGED faults

=============================================================================
