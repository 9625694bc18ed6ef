------------------------------ MODULE Registry ------------------------------
(***************************************************************************)
(* The xDS server: the registry of internal/xds/registry.go, the           *)
(* reconciler of internal/xds/reconciler.go and the start of cmd/xds.      *)
(*                                                                         *)
(* Every change of the registry builds a numbered snapshot under the       *)
(* mutex, releases the mutex and only then hands the snapshot to the cache *)
(* Envoy reads; a step under the mutex is one action, the push another.    *)
(* The goroutines that do this are the HTTP requests of the workers and    *)
(* the reconciler.                                                         *)
(*                                                                         *)
(* The reconciler's source is the broker's inventory: the route each ready *)
(* job contributes.  The broker reads it from Redis with SCAN and one GET  *)
(* per key, so a list mixes values of different moments, and SCAN may      *)
(* return a key more than once.  Which routes come and go, and what the    *)
(* workers register, is left to the environment: any order is allowed.     *)
(***************************************************************************)
EXTENDS Naturals, Sequences, FiniteSets

CONSTANTS
  Jobs, Services, Endpoints,
  Requests,       \* the register and unregister requests workers send
  NoRoute,        \* what a job that is not ready contributes
  MaxChanges,     \* bound on the changes of the inventory
  MaxRestarts,    \* bound on the crashes of the server
  MaxListErrs,    \* bound on the lists that fail
  ScanRepeats     \* bound on the keys SCAN returns again

Routes == Services \X Endpoints

ASSUME RegistryAssumption ==
  /\ NoRoute \notin Routes
  /\ MaxChanges \in Nat /\ MaxRestarts \in Nat
  /\ MaxListErrs \in Nat /\ ScanRepeats \in Nat

VARIABLES
  inventory,   \* inventory[j]: the route job j contributes
  services,    \* the registry: services[s] is the set of its endpoints
  version,     \* the counter of built snapshots
  cache,       \* the snapshot Envoy is served
  phase,       \* the server is down, in its first reconcile, or serving
  req,         \* req[r]: progress of request r
  rec,         \* progress of the reconciler
  snap,        \* snap[p]: the snapshot goroutine p built last
  scan,        \* the jobs the list has still to read
  list,        \* the routes the list has read
  changes, restarts, listErrs, repeats   \* counters of the bounds

envVars == <<inventory, changes>>
boundVars == <<restarts, listErrs, repeats>>
vars == <<inventory, services, version, cache, phase, req, rec, snap, scan,
          list, changes, boundVars>>

Reconciler == "reconciler"
Pushers == Requests \cup {Reconciler}

Registered == [Services -> SUBSET Endpoints]
Snapshot   == [version : Nat, clusters : Registered]
Empty      == [s \in Services |-> {}]
NoSnapshot == [version |-> 0, clusters |-> Empty]

TypeOK ==
  /\ inventory \in [Jobs -> Routes \cup {NoRoute}]
  /\ services \in Registered
  /\ version \in Nat
  /\ cache \in Snapshot
  /\ phase \in {"down", "init", "serving"}
  /\ req \in [Requests -> {"new", "push", "done"}]
  /\ rec \in {"idle", "list", "push"}
  /\ snap \in [Pushers -> Snapshot]
  /\ scan \subseteq Jobs
  /\ list \in Seq(Routes)
  /\ changes \in Nat /\ restarts \in Nat /\ listErrs \in Nat /\ repeats \in Nat

Init ==
  /\ inventory = [j \in Jobs |-> NoRoute]
  /\ services = Empty
  /\ version = 0
  /\ cache = NoSnapshot
  /\ phase = "down"
  /\ req = [r \in Requests |-> "new"]
  /\ rec = "idle"
  /\ snap = [p \in Pushers |-> NoSnapshot]
  /\ scan = {}
  /\ list = << >>
  /\ changes = 0 /\ restarts = 0 /\ listErrs = 0 /\ repeats = 0

-----------------------------------------------------------------------------
(* registry.go *)

\* Mutant of Build: the snapshot is built before the registry changes.
BuildTooEarly(p, registered) ==
  /\ services' = registered
  /\ version' = version + 1
  /\ snap' = [snap EXCEPT ![p] = [version |-> version + 1, clusters |-> services]]
  /\ UNCHANGED cache

\* A snapshot has one cluster and one route for each service that has
\* endpoints, so the endpoints determine it.
Build(p, registered) ==
  /\ services' = registered
  /\ version' = version + 1
  /\ snap' = [snap EXCEPT ![p] = [version |-> version + 1, clusters |-> registered]]
  /\ UNCHANGED cache

Push(p) ==
  /\ cache' = snap[p]
  /\ UNCHANGED <<services, version, snap>>

Register(r, s, e) ==
  /\ phase = "serving" /\ req[r] = "new"
  /\ Build(r, [services EXCEPT ![s] = @ \cup {e}])
  /\ req' = [req EXCEPT ![r] = "push"]
  /\ UNCHANGED <<envVars, boundVars, phase, rec, scan, list>>

Unregister(r, s, e) ==
  /\ phase = "serving" /\ req[r] = "new"
  /\ Build(r, [services EXCEPT ![s] = @ \ {e}])
  /\ req' = [req EXCEPT ![r] = "push"]
  /\ UNCHANGED <<envVars, boundVars, phase, rec, scan, list>>

RequestPush(r) ==
  /\ req[r] = "push"
  /\ Push(r)
  /\ req' = [req EXCEPT ![r] = "done"]
  /\ UNCHANGED <<envVars, boundVars, phase, rec, scan, list>>

\* buildDesired: the positions of the list that name service s.
Wanted(s) == {k \in DOMAIN list : list[k][1] = s}

\* What ReplaceAll makes of the list.
Bucketed == [s \in Services |-> {list[k][2] : k \in Wanted(s)}]

\* Mutant of EqualLocked: the lengths are not compared.
EqualLockedLookupOnly ==
  \A s \in Services : \A k \in Wanted(s) : list[k][2] \in services[s]

\* equalLocked compares lengths and then looks the wanted endpoints up.
EqualLocked ==
  /\ Cardinality({s \in Services : services[s] # {}})
       = Cardinality({s \in Services : Wanted(s) # {}})
  /\ \A s \in Services : Wanted(s) # {} =>
       /\ Cardinality(services[s]) = Cardinality(Wanted(s))
       /\ \A k \in Wanted(s) : list[k][2] \in services[s]

-----------------------------------------------------------------------------
(* reconciler.go *)

\* After its first reconcile the server begins to serve.
ReconcileDone ==
  /\ rec' = "idle"
  /\ phase' = "serving"

\* Mutant of ReconcileStart: a tick does not list the jobs again.
ReconcileStartNoList ==
  /\ phase = "serving" /\ rec = "idle"
  /\ rec' = "list"
  /\ scan' = {}
  /\ list' = << >>
  /\ UNCHANGED <<envVars, boundVars, services, version, cache, phase, req, snap>>

ReconcileStart ==
  /\ phase = "serving" /\ rec = "idle"
  /\ rec' = "list"
  /\ scan' = Jobs
  /\ list' = << >>
  /\ UNCHANGED <<envVars, boundVars, services, version, cache, phase, req, snap>>

\* Mutant of ListJob: jobs that are not ready are not left out.
ListJobUnfiltered(j) ==
  /\ rec = "list" /\ j \in scan
  /\ list' = Append(list, inventory[j])
  /\ scan' = scan \ {j}
  /\ UNCHANGED <<envVars, boundVars, services, version, cache, phase,
                 req, rec, snap>>

\* The list reads the record of job j; j may come up again.
ListJob(j) ==
  /\ rec = "list" /\ j \in scan
  /\ list' = IF inventory[j] = NoRoute THEN list ELSE Append(list, inventory[j])
  /\ \/ scan' = scan \ {j} /\ UNCHANGED repeats
     \/ repeats < ScanRepeats /\ repeats' = repeats + 1 /\ UNCHANGED scan
  /\ UNCHANGED <<envVars, restarts, listErrs, services, version, cache, phase,
                 req, rec, snap>>

\* An unreachable broker or a failed read ends the reconcile.
ListFails ==
  /\ rec = "list"
  /\ listErrs < MaxListErrs
  /\ listErrs' = listErrs + 1
  /\ ReconcileDone
  /\ scan' = {} /\ list' = << >>
  /\ UNCHANGED <<envVars, restarts, repeats, services, version, cache, req, snap>>

ReplaceAll ==
  /\ rec = "list" /\ scan = {}
  /\ \/ /\ EqualLocked
        /\ ReconcileDone
        /\ UNCHANGED <<services, version, cache, snap>>
     \/ /\ ~EqualLocked
        /\ Build(Reconciler, Bucketed)
        /\ rec' = "push"
        /\ UNCHANGED phase
  /\ list' = << >>
  /\ UNCHANGED <<envVars, boundVars, req, scan>>

ReconcilePush ==
  /\ rec = "push"
  /\ Push(Reconciler)
  /\ ReconcileDone
  /\ UNCHANGED <<envVars, boundVars, req, scan, list>>

-----------------------------------------------------------------------------
(* cmd/xds *)

\* PushEmpty, then the first reconcile, before anyone is served.
Start ==
  /\ phase = "down"
  /\ phase' = "init"
  /\ version' = 1
  /\ cache' = [version |-> 1, clusters |-> services]
  /\ rec' = "list"
  /\ scan' = Jobs
  /\ UNCHANGED <<envVars, boundVars, services, req, snap, list>>

\* Everything the server knows is in its memory.
Crash ==
  /\ phase # "down"
  /\ restarts < MaxRestarts
  /\ restarts' = restarts + 1
  /\ phase' = "down"
  /\ services' = Empty
  /\ version' = 0
  /\ cache' = NoSnapshot
  /\ req' = [r \in Requests |-> IF req[r] = "push" THEN "done" ELSE req[r]]
  /\ rec' = "idle"
  /\ snap' = [p \in Pushers |-> NoSnapshot]
  /\ scan' = {} /\ list' = << >>
  /\ UNCHANGED <<envVars, listErrs, repeats>>

-----------------------------------------------------------------------------
\* A job becomes ready on an endpoint no other ready job has, or stops being
\* ready.
InventoryChange(j) ==
  /\ changes < MaxChanges
  /\ changes' = changes + 1
  /\ \/ /\ inventory[j] = NoRoute
        /\ \E t \in Routes :
             /\ \A i \in Jobs : inventory[i] \notin Services \X {t[2]}
             /\ inventory' = [inventory EXCEPT ![j] = t]
     \/ /\ inventory[j] # NoRoute
        /\ inventory' = [inventory EXCEPT ![j] = NoRoute]
  /\ UNCHANGED <<boundVars, services, version, cache, phase, req, rec, snap, scan, list>>

Reconcile ==
  \/ ReconcileStart \/ ReplaceAll \/ ReconcilePush
  \/ \E j \in Jobs : ListJob(j)

Next ==
  \/ Start \/ Crash
  \/ Reconcile \/ ListFails
  \/ \E r \in Requests, s \in Services, e \in Endpoints :
       Register(r, s, e) \/ Unregister(r, s, e)
  \/ \E r \in Requests : RequestPush(r)
  \/ \E j \in Jobs : InventoryChange(j)

Spec == Init /\ [][Next]_vars

\* The server is restarted, its ticker fires and its goroutines run.
FairSpec ==
  /\ Spec
  /\ WF_vars(Start)
  /\ WF_vars(Reconcile)
  /\ \A r \in Requests : WF_vars(RequestPush(r))

-----------------------------------------------------------------------------
\* A snapshot that carries the latest version number, wherever it is, shows
\* the registry as it is: buildLocked numbers and copies under one lock, so
\* no two registries share a number (registry.go 193-240).
LatestSnapshotIsRegistry ==
  /\ cache.version = version => cache.clusters = services
  /\ \A p \in Pushers : snap[p].version = version => snap[p].clusters = services

\* The routes of the inventory, by service.
Desired ==
  [s \in Services |-> {e \in Endpoints : \E j \in Jobs : inventory[j] = <<s, e>>}]

\* Once the inventory is left alone the registry comes to show it and keeps
\* showing it, after missed and stale events, lists that mix old and new
\* records, and restarts (reconciler.go 20-31, README.md 142-148).
RegistryConverges == <>[](services = Desired)

\* The snapshot Envoy is served comes to show the inventory and keeps
\* showing it (README.md 142-148).
CacheConverges == <>[](cache.clusters = Desired)

\* A list that names no route twice is compared exactly: the reconcile
\* builds a snapshot if and only if the registry differs from the list
\* (registry.go 123-160).
ReplaceAllIsExact ==
  [][/\ rec = "list" /\ rec' # "list"
     /\ restarts' = restarts /\ listErrs' = listErrs
     /\ \A i, k \in DOMAIN list : list[i] = list[k] => i = k
     => (rec' = "push" <=> services # Bucketed)]_vars

\* A reconcile that builds a snapshot changes the registry: a quiet tick
\* wakes nobody up (registry.go 116-119).
QuietTickIsQuiet ==
  [][rec = "list" /\ rec' = "push" => services' # services]_vars

=============================================================================
