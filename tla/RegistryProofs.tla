--------------------------- MODULE RegistryProofs ---------------------------
(***************************************************************************)
(* Proofs about the xDS registry, for any jobs, services, endpoints and    *)
(* requests and any bounds.                                                *)
(***************************************************************************)
EXTENDS Registry, TLAPS, FiniteSetTheorems

\* The registry ReplaceAll builds from a list of routes is well formed.
LEMMA BucketedType == TypeOK => Bucketed \in Registered
  BY DEF TypeOK, Bucketed, Wanted, Registered, Routes

\* Building a snapshot preserves the types of what it touches.
LEMMA BuildType ==
  ASSUME TypeOK, NEW p \in Pushers, NEW registered \in Registered,
         Build(p, registered)
  PROVE  /\ services' \in Registered
         /\ version' \in Nat
         /\ snap' \in [Pushers -> Snapshot]
         /\ cache' \in Snapshot
  BY DEF Build, TypeOK, Snapshot

\* So does pushing one.
LEMMA PushType ==
  ASSUME TypeOK, NEW p \in Pushers, Push(p)
  PROVE  /\ services' \in Registered
         /\ version' \in Nat
         /\ snap' \in [Pushers -> Snapshot]
         /\ cache' \in Snapshot
  BY Zenon DEF Push, TypeOK

\* The empty registry and the snapshot of a new server have their types.
LEMMA EmptyType == Empty \in Registered /\ NoSnapshot \in Snapshot
  BY Zenon DEF Empty, Registered, NoSnapshot, Snapshot

\* Every step of the server and its environment keeps the types.
LEMMA TypeStep == TypeOK /\ [Next]_vars => TypeOK'
<1> SUFFICES ASSUME TypeOK, [Next]_vars PROVE TypeOK'
  OBVIOUS
<1> Reconciler \in Pushers /\ Requests \subseteq Pushers
  BY Zenon DEF Pushers
<1> Routes = Services \X Endpoints
  BY Zenon DEF Routes
<1>1. CASE Start
  BY Zenon, <1>1 DEF Start, TypeOK, envVars, boundVars, Snapshot
<1>2. CASE Crash
  <2>1. snap' \in [Pushers -> Snapshot]
    BY Zenon, <1>2, EmptyType DEF Crash
  <2>2. QED
    BY <1>2, <2>1, EmptyType DEF Crash, TypeOK, envVars
<1>3. CASE ReconcileStart
  BY <1>3 DEF ReconcileStart, TypeOK, envVars, boundVars
<1>4. CASE ReplaceAll
  <2>1. CASE ~EqualLocked /\ Build(Reconciler, Bucketed) /\ rec' = "push"
             /\ UNCHANGED phase
    <3>1. /\ services' \in Registered
          /\ version' \in Nat
          /\ snap' \in [Pushers -> Snapshot]
          /\ cache' \in Snapshot
      BY Zenon, <2>1, BucketedType, BuildType
    <3>2. QED
      BY <1>4, <2>1, <3>1 DEF ReplaceAll, TypeOK, envVars, boundVars
  <2>2. CASE ReconcileDone /\ UNCHANGED <<services, version, cache, snap>>
    BY <1>4, <2>2 DEF ReplaceAll, TypeOK, ReconcileDone, envVars, boundVars
  <2>3. QED
    BY Zenon, <1>4, <2>1, <2>2 DEF ReplaceAll
<1>5. CASE ReconcilePush
  <2>1. /\ services' \in Registered
        /\ version' \in Nat
        /\ snap' \in [Pushers -> Snapshot]
        /\ cache' \in Snapshot
    BY Zenon, <1>5, PushType DEF ReconcilePush
  <2>2. QED
    BY Zenon, <1>5, <2>1 DEF ReconcilePush, ReconcileDone, TypeOK, envVars, boundVars
<1>6. ASSUME NEW j \in Jobs, ListJob(j) PROVE TypeOK'
  <2>1. list' \in Seq(Routes)
    BY <1>6 DEF ListJob, TypeOK
  <2>2. QED
    BY <1>6, <2>1 DEF ListJob, TypeOK, envVars
<1>7. CASE ListFails
  BY <1>7 DEF ListFails, ReconcileDone, TypeOK, envVars
<1>8. ASSUME NEW r \in Requests, NEW s \in Services, NEW e \in Endpoints,
             Register(r, s, e) \/ Unregister(r, s, e)
      PROVE  TypeOK'
  <2>1. PICK registered \in Registered : Build(r, registered)
    BY Zenon, <1>8 DEF Register, Unregister, TypeOK, Registered
  <2>2. /\ services' \in Registered
        /\ version' \in Nat
        /\ snap' \in [Pushers -> Snapshot]
        /\ cache' \in Snapshot
    BY Zenon, <2>1, BuildType
  <2>3. QED
    BY Zenon, <1>8, <2>2 DEF Register, Unregister, TypeOK, envVars, boundVars
<1>9. ASSUME NEW r \in Requests, RequestPush(r) PROVE TypeOK'
  <2>1. /\ services' \in Registered
        /\ version' \in Nat
        /\ snap' \in [Pushers -> Snapshot]
        /\ cache' \in Snapshot
    BY Zenon, <1>9, PushType DEF RequestPush
  <2>2. QED
    BY Zenon, <1>9, <2>1 DEF RequestPush, TypeOK, envVars, boundVars
<1>10. ASSUME NEW j \in Jobs, InventoryChange(j) PROVE TypeOK'
  BY <1>10 DEF InventoryChange, TypeOK, boundVars
<1>11. CASE UNCHANGED vars
  BY Zenon, <1>11 DEF vars, boundVars, TypeOK
<1>12. QED
  BY Zenon, <1>1, <1>2, <1>3, <1>4, <1>5, <1>6, <1>7, <1>8, <1>9, <1>10, <1>11
  DEF Next, Reconcile

\* Every variable of the xDS server keeps its type.
THEOREM TypeCorrect == Spec => []TypeOK
<1>1. Init => TypeOK
  BY EmptyType DEF Init, TypeOK
<1>2. QED
  BY <1>1, TypeStep, PTL DEF Spec

-----------------------------------------------------------------------------
\* No snapshot is numbered beyond the counter, and the one that carries the
\* counter's value shows the registry.  The bound is what a new snapshot
\* needs: its number is above that of every snapshot still on its way.
SnapshotInv ==
  /\ cache.version <= version
  /\ \A p \in Pushers : snap[p].version <= version
  /\ LatestSnapshotIsRegistry

\* A server that is down has built no snapshot, so its first one is new, and
\* its reconciler is not running.
DownInv == phase = "down" => version = 0 /\ rec = "idle"

\* A server that is down has built nothing, and no step changes that.
LEMMA DownStep == DownInv /\ [Next]_vars => DownInv'
<1> SUFFICES ASSUME DownInv, [Next]_vars PROVE DownInv'
  OBVIOUS
<1>1. CASE Start \/ Crash \/ ListFails
  BY Zenon, <1>1 DEF Start, Crash, ListFails, ReconcileDone, DownInv
<1>2. CASE ReconcileStart \/ ReplaceAll \/ ReconcilePush
  BY Zenon, <1>2 DEF ReconcileStart, ReplaceAll, ReconcilePush, ReconcileDone, DownInv
<1>3. CASE \E j \in Jobs : ListJob(j) \/ InventoryChange(j)
  BY Zenon, <1>3 DEF ListJob, InventoryChange, DownInv
<1>4. CASE \E r \in Requests, s \in Services, e \in Endpoints :
             Register(r, s, e) \/ Unregister(r, s, e)
  BY Zenon, <1>4 DEF Register, Unregister, DownInv
<1>5. CASE \E r \in Requests : RequestPush(r)
  BY Zenon, <1>5 DEF RequestPush, Push, DownInv
<1>6. CASE UNCHANGED vars
  BY Zenon, <1>6 DEF vars, DownInv
<1>7. QED
  BY Zenon, <1>1, <1>2, <1>3, <1>4, <1>5, <1>6 DEF Next, Reconcile

\* Building a snapshot keeps SnapshotInv: its number is new.
LEMMA BuildInv ==
  ASSUME TypeOK, SnapshotInv, NEW p \in Pushers, NEW registered \in Registered,
         Build(p, registered)
  PROVE  SnapshotInv'
<1>1. \A q \in Pushers : snap[q].version \in Nat
  BY Zenon DEF TypeOK, Snapshot
<1>2. cache.version \in Nat /\ version \in Nat
  BY Zenon DEF TypeOK, Snapshot
<1>3. /\ version' = version + 1
      /\ cache' = cache
      /\ snap'[p] = [version |-> version + 1, clusters |-> registered]
      /\ services' = registered
      /\ \A q \in Pushers : q # p => snap'[q] = snap[q]
  BY Zenon DEF Build, TypeOK
<1>4. QED
  BY <1>1, <1>2, <1>3 DEF SnapshotInv, LatestSnapshotIsRegistry

\* Pushing one keeps SnapshotInv, in whatever order the pushes come.
LEMMA PushInv ==
  ASSUME TypeOK, SnapshotInv, NEW p \in Pushers, Push(p)
  PROVE  SnapshotInv'
  BY Zenon DEF Push, SnapshotInv, LatestSnapshotIsRegistry

\* Every step keeps what the latest snapshot shows.
LEMMA SnapshotStep == TypeOK /\ DownInv /\ SnapshotInv /\ [Next]_vars => SnapshotInv'
<1> SUFFICES ASSUME TypeOK, DownInv, SnapshotInv, [Next]_vars PROVE SnapshotInv'
  OBVIOUS
<1> Reconciler \in Pushers /\ Requests \subseteq Pushers
  BY Zenon DEF Pushers
<1> DEFINE Same == UNCHANGED <<services, version, cache, snap>>
<1>1. CASE Start
  <2>1. version \in Nat /\ \A p \in Pushers : snap[p].version \in Nat
    BY Zenon DEF TypeOK, Snapshot
  <2>2. QED
    BY <1>1, <2>1 DEF Start, DownInv, SnapshotInv, LatestSnapshotIsRegistry
<1>2. CASE Crash
  BY <1>2 DEF Crash, SnapshotInv, LatestSnapshotIsRegistry, NoSnapshot
<1>3. CASE ReplaceAll
  <2>1. CASE Build(Reconciler, Bucketed)
    BY Zenon, <2>1, BucketedType, BuildInv
  <2>2. CASE Same
    BY Zenon, <2>2 DEF SnapshotInv, LatestSnapshotIsRegistry
  <2>3. QED
    BY Zenon, <1>3, <2>1, <2>2 DEF ReplaceAll
<1>4. CASE ReconcilePush
  BY Zenon, <1>4, PushInv DEF ReconcilePush
<1>5. ASSUME NEW r \in Requests, NEW s \in Services, NEW e \in Endpoints,
             Register(r, s, e) \/ Unregister(r, s, e)
      PROVE  SnapshotInv'
  <2>1. PICK registered \in Registered : Build(r, registered)
    BY Zenon, <1>5 DEF Register, Unregister, TypeOK, Registered
  <2>2. QED
    BY Zenon, <2>1, BuildInv
<1>6. ASSUME NEW r \in Requests, RequestPush(r) PROVE SnapshotInv'
  BY Zenon, <1>6, PushInv DEF RequestPush
<1>7. CASE Same
  BY Zenon, <1>7 DEF SnapshotInv, LatestSnapshotIsRegistry
<1>8. CASE UNCHANGED vars
  BY Zenon, <1>7, <1>8 DEF vars
<1>9. CASE ReconcileStart \/ ListFails
  BY Zenon, <1>7, <1>9 DEF ReconcileStart, ListFails
<1>10. CASE \E j \in Jobs : ListJob(j) \/ InventoryChange(j)
  BY Zenon, <1>7, <1>10 DEF ListJob, InventoryChange
<1>11. QED
  BY Zenon, <1>1, <1>2, <1>3, <1>4, <1>5, <1>6, <1>8, <1>9, <1>10 DEF Next, Reconcile

\* However the pushes of concurrent requests and of the reconciler are
\* ordered, a snapshot numbered with the latest version shows the registry as
\* it is: what Envoy is served is stale only if its number is.
THEOREM LatestSnapshot == Spec => []LatestSnapshotIsRegistry
<1>1. Init => DownInv /\ SnapshotInv
  BY DEF Init, DownInv, SnapshotInv, LatestSnapshotIsRegistry, NoSnapshot
<1>2. SnapshotInv => LatestSnapshotIsRegistry
  BY Zenon DEF SnapshotInv
<1>3. QED
  BY <1>1, <1>2, TypeCorrect, DownStep, SnapshotStep, PTL DEF Spec

-----------------------------------------------------------------------------
(* The comparison that ReplaceAll begins with *)

\* However large the sets of names and endpoints are, the registry holds
\* finitely many services with finitely many endpoints each.
Finite(registered) ==
  /\ \A s \in Services : IsFiniteSet(registered[s])
  /\ IsFiniteSet({s \in Services : registered[s] # {}})

\* So does what ReplaceAll builds from a list (registry.go 129-136).
LEMMA BucketedFinite ==
  ASSUME TypeOK
  PROVE  /\ \A s \in Services : IsFiniteSet(Wanted(s))
         /\ Finite(Bucketed)
<1>1. list \in Seq(Routes) /\ Len(list) \in Nat /\ DOMAIN list = 1 .. Len(list)
  BY DEF TypeOK
<1>2. IsFiniteSet(DOMAIN list)
  BY <1>1, FS_Interval
<1>3. \A k \in DOMAIN list : list[k][1] \in Services /\ list[k][2] \in Endpoints
  BY <1>1 DEF Routes
<1>4. ASSUME NEW s \in Services PROVE IsFiniteSet(Wanted(s)) /\ IsFiniteSet(Bucketed[s])
  <2>1. IsFiniteSet(Wanted(s))
    BY Zenon, <1>2, FS_Subset DEF Wanted
  <2> DEFINE f == [k \in Wanted(s) |-> list[k][2]]
  <2>2. Bucketed[s] = {list[k][2] : k \in Wanted(s)}
    BY Zenon DEF Bucketed
  <2>3. f \in Surjection(Wanted(s), Bucketed[s])
    BY Zenon, <2>2 DEF Surjection
  <2>4. QED
    BY Zenon, <2>1, <2>3, FS_Surjection
<1>5. IsFiniteSet({s \in Services : Bucketed[s] # {}})
  <2> DEFINE T == {s \in Services : Bucketed[s] # {}}
             f == [k \in DOMAIN list |-> list[k][1]]
  <2>1. T = {list[k][1] : k \in DOMAIN list}
    BY Zenon, <1>3 DEF Bucketed, Wanted
  <2>2. f \in Surjection(DOMAIN list, T)
    BY Zenon, <2>1 DEF Surjection
  <2>3. QED
    BY Zenon, <1>2, <2>2, FS_Surjection
<1>6. QED
  BY Zenon, <1>4, <1>5 DEF Finite

\* The comparison is exact on a list that names no route twice: the lengths
\* and the lookups it is made of add up to equality (registry.go 142-160).
LEMMA ComparisonExact ==
  ASSUME TypeOK, Finite(services), \A i, k \in DOMAIN list : list[i] = list[k] => i = k
  PROVE  EqualLocked <=> services = Bucketed
<1> DEFINE Full == {s \in Services : services[s] # {}}
           Named == {s \in Services : Wanted(s) # {}}
<1>1. /\ list \in Seq(Routes)
      /\ services \in Registered /\ Bucketed \in Registered
  BY Zenon, BucketedType DEF TypeOK
<1>2. \A k \in DOMAIN list : list[k] = <<list[k][1], list[k][2]>>
  BY <1>1 DEF Routes
\* No endpoint is wanted twice.
<1>3. ASSUME NEW s \in Services
      PROVE  /\ Bucketed[s] = {list[k][2] : k \in Wanted(s)}
             /\ Cardinality(Bucketed[s]) = Cardinality(Wanted(s))
             /\ IsFiniteSet(services[s])
  <2> DEFINE f == [k \in Wanted(s) |-> list[k][2]]
  <2>1. Bucketed[s] = {list[k][2] : k \in Wanted(s)}
    BY Zenon DEF Bucketed
  <2>2. f \in Surjection(Wanted(s), Bucketed[s])
    BY Zenon, <2>1 DEF Surjection
  <2>3. \A i, k \in Wanted(s) : list[i][2] = list[k][2] => list[i] = list[k]
    BY <1>2 DEF Wanted
  <2>4. \A i, k \in Wanted(s) : f[i] = f[k] => i = k
    BY Zenon, <2>3 DEF Wanted
  <2>5. f \in Injection(Wanted(s), Bucketed[s])
    BY Zenon, <2>1, <2>4 DEF Injection, IsInjective
  <2>6. IsFiniteSet(Wanted(s))
    BY Zenon, BucketedFinite
  <2>7. Cardinality(Bucketed[s]) = Cardinality(Wanted(s))
    BY Zenon, <2>2, <2>5, <2>6, FS_Surjection
  <2>8. QED
    BY Zenon, <2>1, <2>7 DEF Finite
<1>4. \A s \in Services : Wanted(s) # {} <=> Bucketed[s] # {}
  BY <1>3
<1>5. ASSUME services = Bucketed PROVE EqualLocked
  <2>1. Full = Named
    BY Zenon, <1>4, <1>5
  <2>2. \A s \in Services : /\ Cardinality(services[s]) = Cardinality(Wanted(s))
                            /\ \A k \in Wanted(s) : list[k][2] \in services[s]
    BY <1>3, <1>5
  <2>3. QED
    BY Zenon, <2>1, <2>2 DEF EqualLocked
<1>6. ASSUME EqualLocked PROVE services = Bucketed
  <2>1. ASSUME NEW s \in Named PROVE services[s] = Bucketed[s]
    <3>1. /\ Cardinality(services[s]) = Cardinality(Wanted(s))
          /\ \A k \in Wanted(s) : list[k][2] \in services[s]
      BY Zenon, <1>6, <2>1 DEF EqualLocked
    <3>2. Bucketed[s] \subseteq services[s] /\ IsFiniteSet(services[s])
      BY <1>3, <2>1, <3>1
    <3>3. Cardinality(services[s]) = Cardinality(Bucketed[s])
      BY Zenon, <1>3, <2>1, <3>1
    <3>4. QED
      BY Zenon, <3>2, <3>3, FS_Subset
  <2>2. Named \subseteq Full
    BY Zenon, <1>4, <2>1
  <2>3. Cardinality(Full) = Cardinality(Named) /\ IsFiniteSet(Full)
    BY Zenon, <1>6 DEF EqualLocked, Finite
  <2>4. Named = Full
    BY Zenon, <2>2, <2>3, FS_Subset
  <2>5. \A s \in Services : services[s] = Bucketed[s]
    BY Zenon, <1>4, <2>1, <2>4
  <2>6. QED
    BY <1>1, <2>5 DEF Registered
<1>7. QED
  BY Zenon, <1>5, <1>6

\* No step makes the registry infinite.
LEMMA FiniteStep == TypeOK /\ Finite(services) /\ [Next]_vars => Finite(services)'
<1> SUFFICES ASSUME TypeOK, Finite(services), [Next]_vars PROVE Finite(services')
  BY Zenon DEF Finite
<1>1. UNCHANGED services => Finite(services')
  BY Zenon DEF Finite
<1>2. CASE ReplaceAll
  BY Zenon, <1>1, <1>2, BucketedFinite DEF ReplaceAll, Build
<1>3. CASE Crash
  <2>1. \A s \in Services : services'[s] = {}
    BY Zenon, <1>3 DEF Crash, Empty
  <2>2. {s \in Services : services'[s] # {}} = {}
    BY Zenon, <2>1
  <2>3. QED
    BY Zenon, <2>1, <2>2, FS_EmptySet DEF Finite
<1>4. ASSUME NEW r \in Requests, NEW s \in Services, NEW e \in Endpoints,
             Register(r, s, e) \/ Unregister(r, s, e)
      PROVE  Finite(services')
  <2> DEFINE Full == {t \in Services : services[t] # {}}
             Fuller == {t \in Services : services'[t] # {}}
  <2>1. /\ services \in [Services -> SUBSET Endpoints]
        /\ IsFiniteSet(services[s]) /\ IsFiniteSet(Full)
    BY Zenon DEF TypeOK, Registered, Finite
  <2>2. /\ \A t \in Services \ {s} : services'[t] = services[t]
        /\ services'[s] = services[s] \cup {e} \/ services'[s] = services[s] \ {e}
    BY Zenon, <1>4, <2>1 DEF Register, Unregister, Build
  <2>3. IsFiniteSet(services'[s])
    BY <2>1, <2>2, FS_AddElement, FS_RemoveElement
  <2>4. Fuller \subseteq Full \cup {s}
    BY Zenon, <2>2
  <2>5. IsFiniteSet(Full \cup {s})
    BY Zenon, <2>1, FS_AddElement
  <2>6. IsFiniteSet(Fuller)
    BY Zenon, <2>4, <2>5, FS_Subset
  <2>7. QED
    BY Zenon, <2>2, <2>3, <2>6 DEF Finite
<1>5. CASE Start \/ ListFails \/ ReconcileStart \/ ReconcilePush \/ UNCHANGED vars
  BY Zenon, <1>1, <1>5 DEF Start, ListFails, ReconcileStart, ReconcilePush, Push, vars
<1>6. CASE \E j \in Jobs : ListJob(j) \/ InventoryChange(j)
  BY Zenon, <1>1, <1>6 DEF ListJob, InventoryChange
<1>7. CASE \E r \in Requests : RequestPush(r)
  BY Zenon, <1>1, <1>7 DEF RequestPush, Push
<1>8. QED
  BY Zenon, <1>2, <1>3, <1>4, <1>5, <1>6, <1>7 DEF Next, Reconcile

\* A reconcile that read no route twice builds a snapshot exactly if the
\* registry differs from the list it read, for any number of services and
\* endpoints and whatever requests change the registry meanwhile
\* (registry.go 114-160).
THEOREM ComparesExactly == Spec => ReplaceAllIsExact
<1>1. Init => Finite(services)
  <2> SUFFICES ASSUME Init PROVE Finite(services)
    OBVIOUS
  <2>1. \A s \in Services : services[s] = {}
    BY Zenon DEF Init, Empty
  <2>2. {s \in Services : services[s] # {}} = {}
    BY Zenon, <2>1
  <2>3. QED
    BY Zenon, <2>1, <2>2, FS_EmptySet DEF Finite
<1> DEFINE Exact == /\ rec = "list" /\ rec' # "list"
                    /\ restarts' = restarts /\ listErrs' = listErrs
                    /\ \A i, k \in DOMAIN list : list[i] = list[k] => i = k
                    => (rec' = "push" <=> services # Bucketed)
<1>2. TypeOK /\ Finite(services) /\ [Next]_vars => [Exact]_vars
  <2> SUFFICES ASSUME TypeOK, Finite(services), Next, rec = "list", rec' # "list",
                      restarts' = restarts, listErrs' = listErrs,
                      \A i, k \in DOMAIN list : list[i] = list[k] => i = k
               PROVE  rec' = "push" <=> services # Bucketed
    OBVIOUS
  <2>1. ~Crash /\ ~ListFails
    BY DEF Crash, ListFails, TypeOK
  <2>2. ~ (Start \/ ReconcileStart \/ ReconcilePush)
    BY Zenon DEF Start, ReconcileStart, ReconcilePush
  <2>3. ~ \E j \in Jobs : ListJob(j) \/ InventoryChange(j)
    BY Zenon DEF ListJob, InventoryChange
  <2>4. ~ \E r \in Requests, s \in Services, e \in Endpoints :
            Register(r, s, e) \/ Unregister(r, s, e)
    BY Zenon DEF Register, Unregister
  <2>5. ~ \E r \in Requests : RequestPush(r)
    BY Zenon DEF RequestPush
  <2>6. ReplaceAll
    BY Zenon, <2>1, <2>2, <2>3, <2>4, <2>5 DEF Next, Reconcile
  <2>7. rec' = "push" <=> ~EqualLocked
    BY Zenon, <2>6 DEF ReplaceAll, ReconcileDone
  <2>8. QED
    BY Zenon, <2>7, ComparisonExact
<1>3. QED
  BY <1>1, <1>2, FiniteStep, TypeCorrect, PTL DEF Spec, ReplaceAllIsExact

=============================================================================
