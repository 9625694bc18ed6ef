------------------------------ MODULE JobStore ------------------------------
(***************************************************************************)
(* The job records of internal/model, as internal/store/redis.go keeps     *)
(* them: one whole record per job id, overwritten by every Put, never      *)
(* expired and never removed.                                              *)
(*                                                                         *)
(* A record keeps the fields the control flow reads: the status, the       *)
(* attempts counter and the endpoint.  Connection and HTTP are always set  *)
(* and cleared together (worker.go 236-237 and 294-295), so one field      *)
(* stands for both.  Detail, the timestamps and the resource kind steer    *)
(* nothing and are left out.  A key that is not in Redis is the record     *)
(* NotFound, which is what Get's ErrNotFound tells its caller.             *)
(***************************************************************************)
EXTENDS Naturals

CONSTANTS
  Jobs,      \* the job ids newID may return
  Ports,     \* host ports Docker may publish a container on
  NoPort     \* the nil endpoint

ASSUME PortAssumption == NoPort \notin Ports

VARIABLE
  store      \* store[j] is the value at the Redis key infraforge:job:<j>

Status == {"absent", "pending", "provisioning", "ready", "failed",
           "deleting", "deleted"}

JobRecord == [status   : Status,
              attempts : Nat,
              http     : Ports \cup {NoPort}]

NotFound == [status |-> "absent", attempts |-> 0, http |-> NoPort]

\* The record handleProvision builds.
NewJob == [status |-> "pending", attempts |-> 0, http |-> NoPort]

StoreInit == store = [j \in Jobs |-> NotFound]

\* Put overwrites the whole record: there is no compare-and-swap.
Put(j, rec) == store' = [store EXCEPT ![j] = rec]

=============================================================================
