# Infraforge: specifications and proofs

TLA+ modules for the Infraforge control plane, the TLC configurations that
check them on small instances, and TLAPS proofs for every size. Line numbers
refer to `src/`; paths without a directory are under `src/internal/`.

## The system

| Part | State it keeps | Operations that change state | Modelled in |
| --- | --- | --- | --- |
| Job store (`store/redis.go`, `model/model.go`) | one record per job id | `Put` (whole record, no compare-and-swap); `Get` and `List` read | `JobStore`, `ListJob` of `Registry`, `JobLifecycle` |
| Job queue (`queue/queue.go`) | a Redis stream, a consumer group with its pending entries, a dead-letter stream | `EnsureGroup`, `Enqueue`, `Dequeue`, `Reclaim`, `Ack`, `DeadLetter`; `ListDead` reads | `JobQueue` |
| Broker (`api/api.go`, `cmd/broker`) | requests in progress | POST and DELETE | `Broker` |
| Worker (`worker/worker.go`, `cmd/worker`) | two goroutines, each with a message and a copy of its record | main loop, reclaim loop, `handle`, `provision`, `deprovision` | `Worker` |
| Provisioner (`provisioner/`) | the containers of a job | `Provision`, `Deprovision` | `Provisioner`, one step per docker command; `Resources`, its interface; `Worker`, one step per container |
| xDS registry (`xds/registry.go`) | endpoints by service, snapshot counter, the cache Envoy reads | `Register`, `Unregister`, `PushEmpty`, `ReplaceAll` | `Registry` |
| Reconciler (`xds/reconciler.go`, `brokerclient`) | the list being read | `Reconcile`, `Run` | `Registry` |
| xDS server (`cmd/xds`) | up or down | start, restart, admin requests | `Registry`, `Routing` |
| xDS client (`xdsclient/client.go`) | the request being waited for | `Register`, `Unregister` | `Routing`; one step in `Worker` |
| Echo service (`cmd/echo`) | none | none | not modelled |

A POST writes a `pending` record and enqueues a message. A worker takes the
message, writes `provisioning`, makes two containers, writes `ready`, registers
the endpoint with the xDS server and acknowledges. A transient error leaves the
message pending, and the reclaim loop of any worker takes it over after
`ReclaimMinIdle`. A permanent error, or one attempt too many, ends in `failed`
and a dead-letter record. A DELETE writes `deleting` and enqueues a teardown on
the same stream. The xDS server also lists the broker's jobs periodically and
replaces its registry with what it finds.

What makes this hard: handlers read a record once and write the whole copy back
several calls later; a message can be redelivered while its first handler is
alive; every remote call may fail with or without effect; processes die between
any two calls; and snapshots are built under a mutex but pushed outside it.
`PROJECT.json` lists these hazards at their lines.

## The modules

- `JobStore`, `JobQueue`, `Faults`: the shared parts. A record keeps its status,
  attempts and endpoint. A stream id is a position, and idle time is one bit:
  "pending for at least `ReclaimMinIdle`". `Faults` counts failed calls and
  deaths against `MaxFaults` and `MaxCrashes`. A failed write may or may not
  have taken effect.
- `Broker`: one action per Redis call of the two handlers (`PostPut`,
  `PostEnqueue`, `PostCompensate`; `DelGet`, `DelPut`, `DelEnqueue`), and the
  start and death of the process.
- `Worker`: the label `pc[h]` of a handler names the call it makes next, and one
  action is that call with the local code up to the following one.
  `ProvisionDecision` and `DeprovisionDecision` are the status switches and the
  attempts cap. `calls` is a history variable. A graceful stop cancels the
  context of every later call, so it is the same step as a crash.
- `Infraforge`: broker and workers composed, with the properties.
- `Registry`: registry, reconciler and xDS server. A step under the mutex is one
  action (`Register`, `Unregister`, `ReplaceAll`), the push is another. The list
  is read job by job. Which jobs are ready, and what workers register, is left
  to the environment.
- `PatientClients`: `Infraforge` under clients that delete a job only once they
  have seen it ready, as the README's polling does (README.md 46-48).
- `JobLifecycle`: the status diagram of `model.go` with attempts and endpoint,
  as the client of an accepted job sees it. `PatientClients` instantiates it
  with a refinement mapping: a job is absent until its POST is answered 202.
  The diagram has one arrow the comment in `model.go` does not: `failed` back to
  `provisioning`, which the worker takes when the ack of a failure was lost and
  attempts are left.
- `Provisioner`: calls of `Provision` and `Deprovision` side by side, one action
  per docker command. `docker run` is two, create and start, so that a name can
  be taken by a container that does not run yet. A container is known by the
  call that ran it, which also stands for its credentials. A process that dies
  may leave its command running. Containers stop, and restart on another port.
- `Resources`: what the comments of the `Provisioner` interface promise
  (provisioner.go 65-73). `Provisioner` instantiates it with the owners of the
  containers as resources and with the answers its calls have given.
- `Routing`: broker, workers and xDS server composed. The workers' requests are
  the server's requests and the broker's store is the reconciler's list; a step
  of the server is a step of `Registry` with `services` read off `routes`. A
  request outlives the worker that gave it up or died.
- `MCInfraforge`, `MCRegistry`, `MCProvisioner`, `MCRouting`: the small sets TLC
  uses.
- The proofs: `InfraforgeMoves` (types, what each step of a handler, of a loop
  and of a request may change, and the stream); on it rest `InfraforgeRecords`
  (what a record says is true), `InfraforgeLifecycle` (accepted DELETEs, and the
  steps of the refinement of `JobLifecycle`) and `InfraforgeWork` (the invariants
  behind `NoWorkLost` and `AttemptsCapped`); `InfraforgeSafety` puts the last two
  together; `RoutingProofs` adds the xDS server to `InfraforgeRecords`;
  `RegistryProofs`; `ProvisionerProofs`.

Definitions whose comment begins with "Mutant of" are faulty variants of the
definition that follows. No specification uses them. Each breaks a property of
a passing run, which shows that the property depends on that code.

## What the passing runs show

| Run | Instance | Properties |
| --- | --- | --- |
| `no_work_lost` | 1 job, 2 workers, 1 DELETE, 1 failed call (not Get or Put), 1 crash | `TypeOK`, `NoWorkLost`, `OneHandlerPerMessage` |
| `retries` | 1 job, 2 workers, 2 failed calls (not Get or Put), 2 crashes, fair | `AttemptsCapped`, `ProvisionSettles` |
| `ready_reachable` | 1 job, 1 worker, slow handlers, any call may fail, a crash, no DELETE | `ReadyIsReachable` |
| `abandoned_recorded` | 1 job, 1 worker, batches of 2, slow handlers, 1 DELETE, a failed Get, Put, enqueue or ack, no crash | `AbandonedIsRecorded` |
| `teardown` | 1 job, 1 worker, 2 DELETEs, permanent provisioning errors, nothing else fails, fair | `DeletedIsGone`, `AcceptedDeleteIsQueued`, `DeleteCompletes` |
| `lifecycle` | 1 job, 2 workers, 1 DELETE once ready, 2 failed calls (not Put), 1 crash, every docker error | `FollowsLifecycle` (refinement of `JobLifecycle`) |
| `provisioner` | 1 job, 2 provisions, 2 teardowns, 3 ports, a failed command, a death, a container that stops | `TypeOK`, `NeverNil`, `KeepsPromise` (refinement of `Resources`), `AnswerIsReachable` |
| `routing` | 1 job, 1 worker, 1 DELETE, 1 xDS server, one mishap of any kind, fair | `ServedIsLive`, `ReadyIsRouted` |
| `xds_registry` | 2 jobs, 2 services, 1 request, 2 changes, a restart, a failed list, a repeated key, fair | `TypeOK`, `LatestSnapshotIsRegistry`, `RegistryConverges`, `ReplaceAllIsExact` |

Bounds. One worker already has two concurrent handlers; two workers have four.
`MaxAttempts` is 2 (1 where the cap is only a means to abandonment), so a job is
tried, retried and abandoned. One crash and one failed call can fall between
any two steps. A job and its DELETE are two messages, enough for a batch in
which one waits for the other. The dead-letter cap is 2 and the listing limit 1:
`retries` and `abandoned_recorded` reach streams longer than both, since a
message can be recorded again and trimming is approximate.
Workers, calls and ports are interchangeable, so their symmetry is used, in
safety runs only.

`provisioner` has two calls of each kind because two are what it takes to
collide: both provisions may look before either runs, and both teardowns may
list the same container. The third port lets a stopped container come back on
another one. In `routing` a mishap is a failed call, a death of broker or
worker, a restart of the server or a failed list; `MaxMishaps` bounds their
sum. One is what the 5 minutes of a routine check allow. `ReadyIsRouted` was
also checked with two mishaps (594,237 states) and with two requests in progress
at once (606,288 states), `ServedIsLive` with two jobs of two services and no
DELETE (341,646 states).

Several results hold only in the environment the table names. The next section
shows what happens outside it.

Fairness. `FairSpec` of `Infraforge` assumes that a request in progress is
served on, a dead process is restarted, a handler takes its next step and idle
time passes. Clients are not assumed to send anything. The code justifies a
handler's progress by its timeouts on readiness probes and Redis calls. The
docker commands themselves have no timeout, so a hanging daemon is excluded by
assumption. `FairSpec` of `Registry` assumes the ticker fires, which
`XDS_RECONCILE_EVERY=0` would disable. `FairRoutingSpec` is the two together; a
handler waiting for the xDS server goes on when it is answered, or when the death
of the server cuts its request off, so the client's timeout is not needed.

## Where the code and its documentation disagree

Each of these runs checks one property that a comment or the repository's README
states, and TLC finds a behaviour of the code that violates it. `PROJECT.json`
quotes the lines.

| Run | What happens |
| --- | --- |
| `stale_delete_loses_route` | A DELETE writes back a record read before the job became ready. The endpoint is lost, and the route outlives the container. |
| `xds_push_reordered` | Two snapshots are pushed in the opposite order of their building. Later reconciles compare the registry, not the cache, and never repair it. |
| `duplicate_name` | Two handlers of one job both find no container. The second `docker run` fails on the name, which is a permanent error, and the job is marked failed while its container comes up. |

The same modules show the following on the instances named. They have no
configuration of their own: each is a change of constants and one property.
"1/1" means one job and one worker; what is not named is empty or 0,
`ReclaimCount` is 1, `SlowHandlers` is FALSE and `MaxAttempts` is 2.

| Property violated | Instance | What happens |
| --- | --- | --- |
| `AcceptedDeleteIsQueued` | 1/1, 2 DELETEs, `teardown` | After a failed teardown, repeating the DELETE is answered 202 and queues nothing ("re-issuing DELETE enqueues a clean retry", worker.go 286-287). |
| `DeletedIsGone` | 1 job, 2 workers, 1 DELETE | A teardown runs while another worker provisions. The containers appear afterwards and the job reads `deleted` ("removes every container labeled with this job's ID", docker.go 62). |
| `OneHandlerPerMessage` | 2 jobs, 2 workers, 2 ports, `ReclaimCount` 2, two failed `dequeue`, a crash | Messages of a reclaimed batch wait while their idle time runs, and another worker takes one too, although no single handling is slow (worker.go 54-55). |
| `NoWorkLost` | 1/1, a failed `put` | A failed write of `ready` is ignored and the message acknowledged ("writes the terminal job state to the store before issuing `XACK`", README.md 549-550). |
| `NoResurrection` | 1/1, 1 DELETE | A provision that read the record before the DELETE writes `provisioning` over `deleting` ("Do not resurrect it", worker.go 175). |
| `AcceptedDeleteIsQueued` | 1/1, 2 DELETEs, a failed `enqueue` | A DELETE whose enqueue failed leaves `deleting`, and its retry is answered 202 (README.md 512-513). |
| `AbandonedIsRecorded` | 1/1, `permanent`, a crash | The worker dies after the ack and before the dead-letter record (README.md 541). |
| `AttemptsCapped` | 2 jobs, 2 workers, `ReclaimCount` 2, `transient`, two failed `dequeue` | Two handlers of a stolen message read the same count, so one attempt is not counted (worker.go 57-58). |
| `NoWorkLost` | 1/1, a failed `get` | A failed read is taken for a missing record and the message dropped (worker.go 150). |
| `NoWorkLost` | 1 job, 2 workers, 1 DELETE, `teardown` | A failed teardown writes its stale copy over `ready`; the job reads `provisioning` with nothing queued (worker.go 285-286). |
| `NewestDeadIsListed` | 2 jobs, 1 worker, `permanent`, `ListLimit` 1 | The listing shows the oldest entries, not recent ones (queue.go 78). |
| `FailedIsCleaned` | 1/1, `permanent` | An abandoned job keeps the container that was made (docker.go 47-49). |
| `QuietTickIsQuiet` | `Registry`, 2 jobs, 1 service, 2 changes, 1 repeat | A key SCAN returns twice makes an unchanged registry look changed (registry.go 116-119). |

The same for `Provisioner`, with one job and no errors unless named:

| Property violated | Instance | What happens |
| --- | --- | --- |
| `NeverNil` | 1 provision, 1 teardown, `TeardownsOverlap` | The container is removed between `docker run` and the second inspect, whose nil result is dereferenced: the worker panics (docker.go 130, 298). |
| `KeepsPromise` | 1 provision, 1 teardown, `TeardownsOverlap` | The teardown lists before the container is made and returns success with the container left ("removes every resource belonging to the job", provisioner.go 70). |
| `NeverNil` | 1 provision, a `dns` error | "no such host" is taken for an absent container at the second inspect (docker.go 273). |
| `DuplicateNameIsReused` | 2 provisions, a `dns` error, a death | The same at the first inspect of a retry: the container is there and `docker run` fails on its name. |

A container that stops can lose its port to a container of another job, whose
health check then answers for it. `AnswerIsReachable` allows exactly that.

Some variations hold where a violated one does not: `NoWorkLost`,
`OneHandlerPerMessage` and `AttemptsCapped` with batches and a single worker,
which is proved below, and `CacheConverges` when no requests reach the xDS
server.

## What is proved

For every value of the constants that satisfies the named assumptions
(`PortAssumption`, `QueueAssumption`, `FaultAssumption`, `WorkerAssumption`,
`RegistryAssumption`, `ProvisionerAssumption`). "Any faults" means that every
call may fail and every process may die, any number of times.

| Theorem | States | Under |
| --- | --- | --- |
| `InfraforgeMoves!TypeCorrect` | `TypeOK` | any faults |
| `InfraforgeRecords!ReadyUntilDeleted` | a ready job is reachable until a DELETE names it | any faults, slow handlers |
| `InfraforgeRecords!ReadyJobsAreReachable` | `ReadyIsReachable` | any faults, slow handlers, no DELETE |
| `InfraforgeRecords!DeletedStaysGone` | `DeletedIsGone` | any faults, slow handlers, `DeletesApart` |
| `InfraforgeRecords!DeletedJobsAreGone` | `DeletedIsGone` | `Serial` |
| `InfraforgeRecords!AbandonedJobsAreRecorded` | `AbandonedIsRecorded` while `crashes = 0` and the dead-letter stream is below its cap | slow handlers, any failed call but `DeadLetter` |
| `InfraforgeLifecycle!AcceptedDeletesAreQueued` | `AcceptedDeleteIsQueued` | `Remembers`, `BrokerStaysUp`, slow handlers, worker crashes |
| `InfraforgeSafety!MessagesAreExclusive` | `OneHandlerPerMessage` | `Prompt`, any faults |
| `InfraforgeSafety!JobsFollowLifecycle` | `FollowsLifecycle` | `Prompt`, Put does not fail, patient clients, `OneDeleteEach` |
| `InfraforgeSafety!AcceptedWorkIsKept` | `NoWorkLost` | `Reliable` |
| `InfraforgeSafety!AttemptsAreCapped` | `AttemptsCapped` | `Reliable` |
| `RegistryProofs!TypeCorrect`, `LatestSnapshot` | `TypeOK`, `LatestSnapshotIsRegistry` | any requests and restarts |
| `RegistryProofs!ComparesExactly` | `ReplaceAllIsExact` | any requests and restarts |
| `ProvisionerProofs!TypeCorrect` | `TypeOK` | any errors, deaths and stops |
| `ProvisionerProofs!ShellKeepsPromise` | `KeepsPromise` | `~TeardownsOverlap`, `"dns" \notin CmdErrs` |
| `ProvisionerProofs!InspectFindsContainer` | `NeverNil` | the same |
| `ProvisionerProofs!EndpointIsPublished` | `AnswerIsReachable` | `~TeardownsOverlap` |
| `RoutingProofs!ServedEndpointsAreLive` | `ServedIsLive` | any faults, slow handlers, any requests and restarts |

The conditions, and what happens without them:

- `Prompt`: no handling outlasts `ReclaimMinIdle`, and a batch is one message or
  there is one worker. The code reclaims batches of 16, so these theorems cover
  its batches with a single worker process, and several workers only if they
  reclaimed one message at a time. With two workers and batches of two the table
  above shows `OneHandlerPerMessage` and `AttemptsCapped` violated.
- `Reliable`: `Prompt`, Get and Put do not fail, and teardowns do not fail.
  Without any one conjunct, TLC finds `NoWorkLost` violated.
- `Remembers` and `BrokerStaysUp`: Get, Put, Enqueue and the teardown do not
  fail, and the broker is not restarted. These are the failures after which the
  code leaves a record `deleting` with nothing queued and answers the next DELETE
  202. Without any one of them, TLC finds `AcceptedDeleteIsQueued` violated.
- `DeletesApart`: no handler creates containers of a job while another, having
  removed them, is about to write `deleted`. Two handlers of one job can break
  that, and `DeletedIsGone` with it (see above). `Serial` is a deployment in
  which they cannot: one worker that does not die or lose deliveries or
  acknowledgements and meets no transient error, so that its reclaim loop has
  nothing to take over.
- `OneDeleteEach`: no job is deleted twice. Of two DELETEs that both read `ready`,
  one can write `deleting` after the other's teardown has written `deleted`; TLC
  then finds `FollowsLifecycle` violated.

### The arguments

Types. `TypeOK` is not inductive: `JobOf(h)` needs a busy handler to hold a
position of the stream. `TypeInv` adds that.

Records. `InfraforgeMoves` reduces every action to a few moves of one handler
(`Moves`), steps of a loop (`Loops`) and steps of a request (`Requesting`);
`NextSteps` says that there is nothing else. The invariants rest on that alone:

- `ReachInv`: of a job no DELETE has named only provision messages are queued,
  its `ready` record describes its containers, and so does every `ready` copy a
  handler may still write. Copies may be stale, yet containers of such a job are
  only added and keep their port, so a true copy stays true.
- `GoneInv`: a job that reads `deleted` has no container, a handler about to
  write `deleted` has removed them, and none is creating them.
- `TraceInv`: a job that reads `failed`, or of which a handler holds a `failed`
  copy, is recorded, or a handler is on its way to record it.
- `SerialInv`: the only pending message is the one the main loop has.

Accepted DELETEs. `AwaitInv`: a job that reads `deleting` has a DELETE about to
queue its message, or a message outstanding on which some handler will still act
(`Live`); no provision writes `deleting` back. It is the liveness of the message
that makes this inductive: a message that is merely pending may be about to be
acknowledged without effect.

Messages and work. `HandlerInv` says that a busy handler has a message that no
other handler and no batch has, that is pending until acknowledged and that
nobody can reclaim: it is not idle, or its handler is the reclaim loop of the
only worker (`Sole`), which does not reclaim while it has a message. Only such a
loop has a batch that waits. The two goroutines of a worker die together, so no
loop is left that could reclaim what the other has. `MessageInv` says that a job
is queued for provisioning once and never before the group exists. Both need
only `Prompt`. `WorkInv` adds that what a handler is about to write fits its
message (`Fits`), and that a handler about to acknowledge a provision has seen
the job settled (`Settled`). The proof first shows that every handler call keeps
a `Discipline` (it acknowledges only settled work, and makes a job unfinished
only while it holds its message). It then shows that the discipline preserves
`WorkInv`. The loops and the broker are treated separately.

`AttemptsCapped` rests on `WorkInv` and on `CountInv`. As long as a job may be
tried again, its record counts every call made (`RecordCounts`), and so does the
copy of a handler that will write it back (`CopyCounts`). A handler about to call
Provision has counted that call in its copy already, and in the record unless a
DELETE or a teardown has taken the record over, after which the job is not tried
again. No other handler disturbs either count, because `WorkInv` gives the
provision message of a job to one handler.

Lifecycle. `LifeInv` says that the copy a handler will write is the record, or
differs from it by one arrow of the diagram (`CopyLives`); that a job has one
deprovision message at most, none before its DELETE has written `deleting`, and
a DELETE about to write has read the record as it is (`RecordLives`). Then each
write to the store is the arrow it is about to take, and every other step leaves
the mapped variables alone (`LifeStep`). `HandlerInv` is needed for the first:
two handlers of a provision message would write each other's arrows.

Registry. `LatestSnapshot` rests on `SnapshotInv`, that no snapshot carries a
number above the counter, so that the next one is new, and on `DownInv`, that a
server that is down has counted nothing. `ComparesExactly` needs the registry to
stay finite (`Finite`): `equalLocked` compares lengths and looks up one side in
the other, and for finite sets of the same size inclusion is equality.

The inductive invariant `IInv` of the provisioner says what a call knows that
its last command told it. A provision about to start a container has one there,
one about to boot or inspect its own still owns it, and one waiting for a probe
will return the container that has the name (`ProvisionOK`). A teardown whose
removals have all worked so far has every container of its job on its list
(`TeardownOK`). Both survive the other calls because provisions only fill names
that are free and because teardowns of the job are elsewhere (`Apart`). For the
refinement, every command either keeps the owners, fills one free name, removes
one container, or answers; each is a step or a stutter of `Resources`.

Ports. `AnswerIsReachable` rests on `PortInv`, which needs neither `IInv` nor a
host that resolves: a call that probes the HTTP service has read the port its
running container is published on (`Published`). It stays so while no container
stops by itself, because a step of any other call leaves a running container as
it is (`Steady`) and a teardown lists containers of its own job only. Once a
container has stopped, all that is left is that the probe was answered by some
container on that port, and that is all the property then claims.

Served endpoints. `Routing` differs from `Infraforge` in who changes `routes`,
and the invariants of the records do not mention them: `PlaneInv` (types,
`RequestInv`, `ReachInv` and that a ready record has an endpoint, `ReadyInv`)
holds in the composition too. `ServerInv` says that every endpoint the server
has, in its registry, its half-read list, a snapshot not pushed yet or the
cache, leads to a container of its service (`Leads`). New ones come from a ready
record or from the copy of a handler, where `ReachInv` vouches for them; old
ones stay true however late they are used, because containers of a job that no
DELETE has named are only added and keep their port (`Keeps`).

Only model-checked: liveness (`ProvisionSettles`, `DeleteCompletes`,
`RegistryConverges`, `ReadyIsRouted`), which is out of the prover's reach.

## Not modelled

- Request validation, JSON, logging and timestamps: no control flow of the
  modelled parts depends on them.
- `sanitize` and the random part of credentials: a database name is fixed when
  its container is made, and nothing compares it. The texts `Classify` matches
  are kept as the kinds of error that lead to different answers.
- The contents of Envoy resources, and a service name that contains a slash and
  so shadows the route prefix of another.
- A container that runs and publishes no port, and one that answers its probe
  with anything but 200 for good: both end as a timeout or an error would.
- A push that fails: `SetSnapshot` is taken to succeed.
- Loss of Redis data, and a queue group recreated after it.
- Two xDS server processes whose snapshot versions coincide after a restart.
- The host port of a ready job after its container restarted by itself: nothing
  in the code reads it again.
- The echo service, which keeps no state, and `MemStore`, which is the store of
  the tests.
- `Provisioner` is not composed with `Worker`: the product is too large for TLC.
  `Worker` takes a container in one step, which may fail with or without the
  container made; `ShellKeepsPromise` is the reason that is enough where no
  teardown overlaps.

## What could follow

`ReadyIsRouted` with two jobs of one service, which needs a coarser worker.
