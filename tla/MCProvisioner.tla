--------------------------- MODULE MCProvisioner ---------------------------
(* Provisioner for TLC: small sets and the symmetry of calls and ports. *)
EXTENDS Provisioner, TLC

CONSTANTS j1, j2, c1, c2, t1, t2, p1, p2, p3

OneJob  == {j1}
TwoJobs == {j1, j2}
OneProvision  == {c1}
TwoProvisions == {c1, c2}
NoTeardowns  == {}
OneTeardown  == {t1}
TwoTeardowns == {t1, t2}
ThreePorts   == {p1, p2, p3}
SameJob == [c \in Calls |-> j1]
OwnJob  == [c \in Calls |-> IF c \in {c2, t2} THEN j2 ELSE j1]

CallSymmetry ==
  Permutations(Provisions) \cup Permutations(Teardowns) \cup Permutations(Ports)

=============================================================================
