---------------------------- MODULE MCInfraforge ----------------------------
(* Infraforge for TLC: small sets and the symmetry of the workers. *)
EXTENDS PatientClients, TLC

CONSTANTS j1, j2, w1, w2, d1, d2, p1, p2

OneJob   == {j1}
TwoJobs  == {j1, j2}
OneWorker  == {w1}
TwoWorkers == {w1, w2}
OneDelete  == {d1}
TwoDeletes == {d1, d2}
NoDeletes  == {}
OnePort  == {p1}
TwoPorts == {p1, p2}

\* Every request names the same service.
SameService == [j \in Jobs |-> "api"]
OneService == {"api"}

\* The faults that must not lose work: those of every call but Get and Put.
QueueFaults == RemoteCalls \ {"get", "put"}

\* The faults that must not take a job off its lifecycle.
AllButPut == RemoteCalls \ {"put"}

WorkerSymmetry == Permutations(Workers)

=============================================================================
