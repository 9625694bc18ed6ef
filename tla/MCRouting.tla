----------------------------- MODULE MCRouting -----------------------------
(* Routing for TLC: small sets. *)
EXTENDS Routing

CONSTANTS j1, w1, d1, p1, r1

OneJob == {j1}
OneWorker == {w1}
OneDelete == {d1}
OneRequest == {r1}
OnePort == {p1}
OneService == {"api"}
SameService == [j \in Jobs |-> "api"]

=============================================================================
