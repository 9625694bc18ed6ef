----------------------------- MODULE MCRegistry -----------------------------
(* Registry for TLC: small sets. *)
EXTENDS Registry

CONSTANTS j1, j2, r1, r2, e1, e2

OneJob  == {j1}
TwoJobs == {j1, j2}
NoRequests  == {}
OneRequest  == {r1}
TwoRequests == {r1, r2}
TwoServices == {"api", "web"}
OneService  == {"api"}
TwoEndpoints == {e1, e2}

=============================================================================
