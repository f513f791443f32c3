# TLA+ verification of the PaaS platform

A specification of the platform: how a request at the apiserver becomes running
containers on worker nodes, how those are found by the load balancer, how images
are built from git, and how users, sessions and organizations are managed, while
processes, goroutines, transactions and messages interleave and fail. The
modules are translated from the Go code and the SQL migrations; `PROJECT.json`
maps every definition to its source lines.

## 1. The system

| Part | State | Operations | Talks to |
|---|---|---|---|
| apiserver (`services/apiserver`) | Postgres rows; requests in flight | create, deploy, scale and delete an application; builds; signup, login, refresh; members, API keys, domains, projects, organizations | publishes `placement.requested`, `node.<id>.unassign`, `build.requested`; consumes `build.completed` |
| scheduler (`services/scheduler`) | `nodes`, `containers` rows | place a deployment, record a status, register, heartbeat, sweep | consumes `placement.requested`, `node.*.status`, `node.*.register`, `node.*.heartbeat`; publishes `node.<id>.assign` |
| Deployment controller (`services/controller-manager`) | none between ticks | compare desired with actual replicas; request or unassign | reads Postgres; publishes `placement.requested`, `node.<id>.unassign` |
| ServiceInstance controller (same process) | port cache; `services`, `service_instances` | derive instances from running containers | consumes `node.*.status`; publishes `service.updated` |
| worker node agent (`services/worker`) | map of tracked containers; the container runtime | start on assign, stop on unassign, poll health, heartbeat | consumes `node.<id>.assign`, `.unassign`; publishes `.status`, `.register`, `.heartbeat` |
| load balancer (`services/loadbalancer`) | instance registry, host routes | resync, apply `service.updated`, expire, probe, proxy, eject | reads Postgres; consumes `service.updated` |
| image builder (`services/image-builder`) | none | clone, build, push | consumes `build.requested`; publishes `build.completed` |
| command line client (`apps/cli`) | config file with tokens and known applications | login, deploy, delete, … | calls the apiserver |
| Postgres (`internal/db`) | all durable state | single statements and `WithTx` transactions at READ COMMITTED | |
| event bus (`internal/eventbus`) | JetStream streams; core NATS | durable (at least once) and plain (at most once) publish | |

What is hard about it: the database is never locked across a publish
(ADR-0012), so every deploy, delete, placement, build and reconcile is a sequence
of steps with the rest of the system in between. Three goroutines of a worker
share a map, five of the load balancer another. Status updates are
last-writer-wins over an at-least-once stream. Permission checks, guards and
writes of one transaction each see what others committed meanwhile. A refresh
token is exchanged in three statements outside a transaction, by clients that
share a file. A process may restart between any two of these steps. Nothing is
retried except by ticks and redelivery.

What makes each part correct:

* scheduler: placements stay within the quota; a status updates the row of the
  container it is about; a node that runs stays eligible, one that stopped drops out;
* Deployment controller: the deployment settles on its replicas and stays there;
* worker: it stops exactly what it is told to stop, and what it is told belongs
  to the assignment; the end of a container is always reported;
* apiserver: what a delete found running gets stopped, whatever happens after;
* tables and runtimes agree in both directions;
* ServiceInstance controller: the rows converge on the running containers, with
  ports those containers really have; a row is written before it is hinted at;
* load balancer: the registry agrees with the rows after a resync, and an address
  that is gone is dropped even when nothing is heard any more;
* builds: a build ends, is deployed once and in its turn;
* sessions: nothing is executed twice, nobody has to log in again without cause,
  a session has one live refresh token;
* tenancy: an organization keeps an owner and its quota; keys and roles confine
  what a caller can change.

## 2. Modules

| Module | Models |
|---|---|
| `ClusterState` | tables, queues, handler states; the queries and updates of `internal/db`; publish and redelivery |
| `Scheduler` | `placement.go`; the registry's two writes of `nodes.status` |
| `WorkerAgent` | `assign.go` on every node, with the runtime behind it |
| `DeploymentController` | `controller.go`, `reconcile.go` |
| `ApiServer` | create, deploy, scale, delete and their quota checks |
| `Platform` | the composition of these five, its invariants and liveness |
| `NodeRegistry` | register, heartbeat, health poll and sweep in discrete time (`registry.go`, `nodeagent.go`, `node.go`) |
| `InstanceFeed` | abstract: what the ServiceInstance controller promises its readers |
| `ServiceInstances` | `serviceinstance.go`, `service*.go` of `internal/db`; implements `InstanceFeed` |
| `LoadBalancer` | `main.go`, `registry.go`, `healthcheck.go`, `proxy.go` of the load balancer; composed over `InstanceFeed` |
| `Builds` | `handlers_builds.go`, `builds.go`, the image builder, `build.go` |
| `Sessions` | `handlers_auth.go`, `refresh_token.go`, the client's `client.go` and `config.go` |
| `Tenancy` | `handlers_members.go`, `handlers_api_keys.go`, `handlers_projects.go`, `handlers_organizations.go`, `permission.go`, `rbac.go` and their repositories and triggers |
| `MC…` | instances for TLC |
| `…Proofs` | proofs (section 4) |

### Platform

A table is a total function from its keys to rows; status `none` means the key
has not been minted, `deleted` that the row was removed. `placementQ`,
`assignQ[n]`, `unassignQ[n]` and `statusQ` hold the messages that are not acked;
the handler works on the head and removes it when it returns. Redelivery after
`AckWait` appends the head again: it is handled a second time behind what is
queued. `sched`, `ctl`, `deploys`, `deletes`, `assignH`, `unassignH` and `pollH`
are the program counters and locals of the handlers. `runtime` remembers every
container a runtime ever created, `tracked` is the agent's map. `budget` bounds
events, and `blind` is a history variable: the assignments an unassign without a
container id was published for.

A transaction, a single SQL statement, a publish, a call of the runtime and a
mutex section are each one step; what lies between two of them is local. So
`handlePlacement` is `SelectNode`, `CheckQuota`, `EnforceContainerQuota`,
`CreateContainerRow`, `PublishAssignment`; `handleAssignment` is `StartContainer` (or
`StartContainerError`), `AssignPublishStatus`, `AssignTrack`; `handleUnassign`
is `UnassignStop`, `UnassignRemove`, `UnassignPublishStatus`, `UnassignUntrack`;
the health poll is `PollSnapshot` and per entry `PollInspect`,
`PollPublishStatus`, `PollUpdate`; a tick is `TickList` and per target
`ReconcileOne`, then `ScaleUp` once per missing replica, or `ScaleDownList` and
`ScaleDownPublish` once per victim; a deploy is `DeployTx`, `PublishPlacement`,
`RecordDeployFailure`; a delete is `DeleteList`, `DeletePublish`, `DeleteTx`.
The insert of a row is two steps, because its trigger counts the committed rows
without a lock (migration 0013): a status may be committed between the count and
the insert. A restart at that point is taken as the insert not having happened;
one that did is a restart a step later.

Faults: publishes that fail, starts that fail at each of their stages, stop and
remove that fail, containers that exit, redelivery on every durable subject,
restart of every process, a node marked unreachable.

### NodeRegistry

Rows and messages carry how long ago their timestamp was taken. The worker's
select loop serves two tickers, one at a time: `PollStart` and `PollEnd` are the
health poll, during which a heartbeat that is due waits; a tick that waited does
not move the next. The tickers start up to `MaxSetup` after the registration was
published, because `Run` subscribes in between. The sweep is `SweepList` and one
`SweepMark` per node, as in the code, so a heartbeat may come in between; its
cutoff is taken up to `MaxLag` after the list, and a row is as old as that makes it
(`Silent`).

### ServiceInstances and InstanceFeed

`ports` is the cache filled by the port consumer (`HandleStatus`), `tick` the
place and locals of the tick: `ListCandidates`, per candidate `TakeCandidate`,
`EnsureService`, `Upsert`, `PublishUpserted`, then `ListOrphans` and per orphan
`DeleteOrphan`, `PublishDeleted`, `ForgetPort`. The rest of the platform is the
environment: workers report ports, the scheduler's consumer of the same stream
records statuses (in its own time), deployments are superseded, deleting an
application cascades. Each database call and publish may fail; a restart loses
the cache and, the consumer being durable, does not get acked messages again.
`heard` (the last port handled since the start) and `ended` (containers once
recorded as crashed or stopped) are history.

`InstanceFeed` abstracts this to rows, hints in flight and the one container
that is written and not yet hinted at. `ImplementsFeed` is the refinement, with
`owed` mapped to the tick's container while it is announcing. `LoadBalancer` has
only the feed as its environment, so what is checked there holds for every
controller that keeps this promise.

### LoadBalancer

`byDNS`, `lastSeen` and `unhealthy` are the registry's maps per instance, written
by `LookupApply` (the handler of `service.updated`, which read the row in
`LookupRead`), `ResyncApply` (which read all rows in `ResyncRead`), `Sweep`,
`ProbeDone` and `ProxyDone`. Time is discrete; a query takes up to `QueryTime`
between reading and writing, a probe up to `ProbeTimeout`. The resync loop reads
again only after it has written. `rowAge`, `synced` and
`missed` are what the properties measure by; `failing` is a history variable.
`Init` covers every start of the process, which keeps nothing: the first resync
worked or failed, over any contents of the table.

### Builds

`RequestBuild` is the transaction of `handleGitDeploy`, followed by
`PublishBuildRequested` or, when that failed, `RecordPublishFailure`. The image
builder is `CloneRepo` (which fixes the commit and so the tag), `BuildImage`,
`PushImage`, `PublishCompleted`. The consumer in the apiserver is `CompleteTx`
(result and deployment in one transaction), `PublishPlacement` or
`RecordDeployFailure`, `AckCompleted`. Both consumers swallow errors, so only a
missing ack brings a message back: `RedeliverRequest` and `RedeliverCompleted`
while the consumer works, and `BuilderRestart` and `ApiRestart`, after which an
unacked message may come behind others. `order`, `again` and `lost` are history.

### Sessions

A process of the client loads the file once (`Start`, `StartAuth`), sends
requests (`Send`, `Refused`), exchanges the refresh token once after a 401 and
retries, and writes the whole file back in two steps, `Truncate` and `Written`,
as `os.WriteFile` does. The server's exchange is `Check`, `Create`, `Rotate`,
`Reply`; its client may be gone by then, in which case the request context is
cancelled between statements (`Cancel`) or not. `Lost` is a request or response
that is lost or times out; `Kill`, `SaveFails`, `ExpireAccess` and
`ExpireRefresh` are the other faults. The history variable `causes` records
which of them happened, and whether a process was cut off after the server had
created or deleted an application and before the file said so. `apps` is the
applications table: the name is not unique there, so every create adds a row, and
a process that does not know of the first application makes a second one.

### Tenancy

A route is `Begin` (authentication, resolution of the organization and
`requirePermission`), the guards (`ReadTarget`, `CountOwners`,
`CheckProjectQuota`), `Write` and `Commit`; each is a statement that sees what is
committed by then. `Block` is a statement that waits for the lock of an
uncommitted write and goes on with the snapshot it took before. The policy
`memberships_isolation` filters what statements on memberships see and write, as
they begin; on the other tables the role read in `Begin` is all that is asked, and
may be out of date when the statement runs. The project trigger is part of the
write. `Abort` is any error, cancellation or
crash. `raced` and `crowded` record organizations in which a commit changed what
another transaction had counted; `keyActs` what each key has changed.

### Abstractions

* `Platform`: one organization. CPU and memory quotas are left out: no route sets
  a value other than zero. `replicas_desired` is 1 after create. `selectNode`'s
  reads are one step. A delete publishes its unassigns in any order; at most one
  delete per application is in flight. Names, images, environment, exit codes and
  log lines are left out; `started_at` is kept as an order, `stopped_at` as
  whether it is set. The runtime stops what it is asked to stop; nothing pauses
  or starts containers behind the agent's back. `StartContainer` is one step for
  pull, create, start and inspect: nobody knows the container before the handler
  publishes it. One scheduler runs, handling one placement at a time, as it is
  deployed; nobody else inserts containers.
* A database error is the request or message being dropped, which the same
  handler does for other reasons too. A publish that fails stored nothing; one
  that stores the message and still reports an error is not modelled. A failing
  update after a failed publish (of a build or a deployment) leaves what a
  restart at that point leaves.
* `NodeRegistry`: clocks are synchronized, a ticker that is due fires before time
  moves on, a heartbeat that is delivered is delivered within `MaxDelay`, and a
  poll takes at most `MaxPoll`, shorter than either interval. The code puts no
  timeout on the inspections of a poll: one that outlasts the interval is outside
  what is claimed.
* `ServiceInstances`: instance addresses are ports; a service's name is its
  application. `UpsertedPort` writes IP and port together in the code too.
* `LoadBalancer`: ports stand for addresses. Which available instance round robin
  takes is left open, one service stands for all.
* `Builds`: the daily quota counts deployments; a day does not end. Image
  contents, credentials and build logs are left out.
* `Sessions`: one user, one project, one application name; access and refresh
  token issued together share a number; hashing and signing are taken as correct.
* `Tenancy`: each user owns the organization created at signup. Projects are only
  created: there is no route that changes or deletes one. Lost commits and
  serialization failures do not exist at READ COMMITTED other than as `Abort`.

## 3. What is checked

Deadlock checking is on for `registry`, `discovery` and `balancer` and off where
ids and budgets run out. Bounds are the sets of ids and numbers in the `.cfg`
files and, for `Platform`, the budget of each run in `MCPlatform`.

| Run | Properties | Bounds | Shows |
|---|---|---|---|
| `agreement` | `TypeOK`, `RunningRowObserved`, `TerminalRowIsStopped` | 1 node, 2 assignments; one tick, scale, delete, kill, sweep | table and runtime agree, except for blind unassigns |
| `ownership` | `Ownership`, `UnassignNamesOwnContainer`, `RunningRowNamesContainer` | 2 nodes; one tick, scale, start, stop and publish error, redelivery of assign and unassign, worker restart | ids are never confused |
| `quota` | `FreshWithinQuota` | 2 revisions, quota 1; one tick, kill, redelivered status and placement, restarts of scheduler and controller | the quota is exceeded by revived rows only |
| `convergence` | `Converges` | 3 assignments and containers, quota 1, 2 unassigns waiting; one kill, scale, scheduler restart and early tick | the platform settles |
| `deletion` | `DeleteStopsListed` | one delete, publish error, restart of apiserver and worker | listed containers are stopped, or the delete was aborted and the application is still there |
| `registry` | `TypeOK`, `RunningNodeStaysHealthy`, `StoppedNodeDropsOut`, `RunningNodeRecovers` | 1 node; heartbeat 5 and timeout 15 as by default, health poll 2; set-up, poll, delay and lag up to 1, one loss in a row, two stops | node liveness |
| `discovery` | `TypeOK`, `RowPortReported`, `ImplementsFeed`, `StoppedRowRemoved`, `CandidateRegistered` | 2 containers of one application, 2 ports; 2 reports, 3 status changes, one error, one restart | refinement, and convergence on the running containers |
| `balancer` | `TypeOK`, `OnTTLClock`, `AgreesAfterResync`, `StaleAddressDropped`, `FailedProbeSkipped` | 1 container, 2 ports; resync 2, TTL 6, probe 2 and 1, ejection 3, query 1 | the registry follows the rows |
| `builds` | `TypeOK`, `SucceededBuildDeployed`, `DeployedOnceUnlessRedelivered`, `DeployedInOrder`, `BuildEnds` | 2 builds, 1 commit; one redelivery, fault, failed build and restart | builds end and are deployed as requested |
| `sessions` | `TypeOK`, `ExecutedAtMostOnce`, `ReloginOnlyForCause`, `OneLiveToken`, `ApplicationKnown` | 2 processes, 4 commands, 3 token pairs, one fault, one expiry | the client's retries and the token exchange |
| `tenancy` | `TypeOK`, `OwnerlessOnlyByRace`, `ProjectsOverOnlyByRace`, `KeyConfined` | 2 users and organizations, 1 key, 2 concurrent and 4 requests in all, quota 1 | guards and keys under concurrency |
| `stopped_runs` | `StoppedMeansStopped` | two ticks, no fault | violated, see below |

Why these bounds: two assignments are the least with which two containers can be
confused and a replacement can meet what it replaces; two nodes the least with
which a message can go to the wrong one. Nodes interact only through the list of
one sweep, and instances of the load balancer not at all, so one of each is
enough there; the intervals keep the default ratios (TTL three resyncs). Two
builds are the least that can overtake each other, two processes and two requests
the least that can race, and four commands or requests let a race be set up and
its result be used. Every fault a run names happens at every point of every
interleaving.

`agreement` leaves out lost and redelivered statuses, worker restarts, failed
starts and stops and redelivered assignments: the code does not keep the
agreement under them (a lost status is not sent again, a restarted worker tracks
nothing) and `phase-3-controllers.md` defers that. Each of its two properties is
proved with fewer of these left out (section 4). `ownership` is about what holds
under all of them.

Three assignments let `convergence` place a replica, its replacement and a
surplus one. Its quota is 1, so that a stranded row also keeps others from being
placed. With the registry's numbers the bound of `RunningNodeStaysHealthy` is
10 + 4 < 15, and a node that is silent one second earlier is found: `SilentTooEarly`
violates it.

Some properties name the race or fault after which the code gives up its promise
(`raced`, `crowded`, `forked`, `again`, `lost`, `causes`, `heard`, `ended`). They say
that nothing else does: the mutations show that each guard in the code is needed
for them. They do not say that the race is harmless. What it leads to is listed
below, and under the hazards of `PROJECT.json` it is noted as not prevented.

`FreshWithinQuota` counts the active rows that were never reported as ended. The
plain count does exceed the quota: a `running` that comes after the `crashed` of
the same row, because it was redelivered or because the assignment was,
brings back a row whose replacement has been placed. What must not happen is
that placements themselves add up to too many, through the check being repeated,
interrupted, or out of date when the row is inserted. Its proof and run have one
scheduler; two would race through the trigger as two project inserts do in
`Tenancy`.

`Converges` does not wait for the workers: ticks go on while images are pulled and
containers stopped, and each counts the rows as they are. Two kinds of rows are
excepted in `Settled`. A row that was unassigned while it had no container id is
in `blind` (`stopped_runs`). A `Stranded` one was inserted by a scheduler that
stopped, or whose publish failed, before it told the worker: it stays `pending`,
counts as a replica and against the quota, and nothing in the code clears it, so a
deployment may settle with a replica that does not exist. Failed starts are left
out of this run, since the container that a failed start leaves behind is never
removed.

### Fairness

`PacedSpec` adds weak fairness for every consumer, ticker and request handler: a
goroutine with a message, a tick or a request takes its next step. Clients,
faults, restarts and exits are not fair. The ticker's period is 5 s. That is long
against what the control plane does for a deploy, a placement or a status, which
is a few statements and a publish, so a fair tick finds those done (`Paced`); it
is not long against a worker, whose stop takes up to 10 s and whose pull has no
bound, so a tick waits for no worker. A tick that does overtake the control plane
remains possible, as often as its budget says; `stopped_runs` shows what it leads
to, and that it happens for ever is what `Converges` rules out by assumption. While
a stop is slow every tick sends the same unassign again; `MaxBacklog` bounds how
many wait. Inside a tick everything interleaves as in `Spec`.

`FairSpec` of `NodeRegistry` adds that time passes, due heartbeats are sent, polls
begin and end, the sweep runs and the scheduler handles what reaches it; loss,
starting and stopping are not fair. `FairSpec` of `ServiceInstances` adds that the
ticker fires and a tick goes on, and that the port consumer is served; errors are
bounded and not fair, reports and statuses not fair. `FairSpec` of `Builds` adds
that both consumers and the request handlers take their next step: both services
subscribe at start and handle messages in a loop; redelivery, restarts, faults,
commits and requests are not fair.

### Disagreements between code and documentation

`stopped_runs` ends in a counterexample to a sentence of `nats-contract.md`: a
tick over-requests (the deploy is not placed yet), the next one unassigns a
pending row with an empty id; the row becomes `stopped`, the container runs.

The following were met while modelling; the models behave as the code does.

* A status is last-writer-wins (`container.go:96`), so the late `running` of a
  start brings a stopped row back; `serviceinstance.go:150` relies on "a
  crashed/stopped container is gone for good, never revived under the same id".
  The tick that finds such a row orphaned deletes its instance and forgets its port
  (`serviceinstance.go:177`), and no status brings the port again: the revived
  container is never registered. `CandidateRegistered` therefore asks of a container
  that was once recorded as ended that its port is cached, and of no other.
* A container untracked by an unassign without id dies unnoticed
  (`assign.go:151`); `phase-3-controllers.md:9` has "the controller notices the
  deployment now has fewer running replicas than desired".
* A delete skips rows that have no runtime id yet (`handlers_applications.go:250`),
  whose containers outlive the application; the comment at 190 says "deleting an
  application must actually stop and remove whatever is running for it".
* A new deployment hides the previous one from the controller (`reconcile.go:56`);
  its containers stay, although `handlers_deployments.go:191` calls the strategy
  "recreate-only, single replica".
* A lost registration is not repaired by heartbeats, which only update
  (`node.go:111`); `nats-contract.md:11` says "loss is self-healing".
* The sweep lists the nodes and then marks them by id, so a node that is not
  silent any more becomes unreachable until its next heartbeat;
  `RunningNodeRecovers` is what remains.
* The port cache is not rebuilt after a restart, because the durable consumer
  resumes behind what it acked; `serviceinstance.go:89` expects a replay.
  Existing rows stay, a port that changed meanwhile is not learnt, and a container
  without a row gets none: `CandidateRegistered` is about containers of which
  a report was handled since the start.
* A scheduler that stops, or whose publish fails, behind the insert of a row leaves
  it `pending` for ever (`placement.go:134`); the controller counts it as a replica.
* A redelivered `build.requested` is built and reported again, and a redelivered
  `build.completed` deployed again; `consumer.go:77` says "always publishes exactly
  one build.completed outcome". The daily deployment quota is checked when a build
  is requested, not when it is deployed, so builds in flight can exceed it.
* Two owners who demote each other at the same time both count two owners;
  `membership.go:81` says "an org can never end up with zero owners". The project
  quota can be exceeded the same way.
* Two exchanges of one refresh token at the same time both succeed
  (`handlers_auth.go:191`), and one that is cut off between `Create` and `Rotate`
  leaves both tokens live; the comment at 188 says that a second use is
  detectable.
* Two client processes overwrite each other's file: rotated tokens or known
  applications are lost. A deploy whose create response or whose save was lost
  creates a second application of the same name when it is repeated, and the first
  one stays, unknown to the client; `handlers_applications.go:102` has an answer for
  "an application with this name already exists", but no constraint on the name
  (migration 0004) ever causes it. A process killed between truncation and write leaves
  a file no command can load, not even login. `config.go:4` says losing the file
  "only costs the user a re-login/re-lookup".
* A client that aborts its request ejects a healthy backend, because the proxy's
  error handler does not tell who failed (`proxy.go:60`).
* The scheduler ensures `NODE_ASSIGNMENTS` with the assign subject only
  (`placement.go:64`), the others with assign and unassign; the last to start
  wins, although `assign.go:56` calls the order harmless.

## 4. What is proved

For all values of the constants (any number of applications, nodes, containers,
users, requests, processes; any intervals and budgets):

| Module | Theorem | States |
|---|---|---|
| `PlatformProofs` | `OwnershipInvariant` | `Spec => []Ownership` |
| | `TypeCorrect` | `Spec => []TypeOK` |
| | `UnassignStopsOnlyItsOwn` | `Spec => []UnassignNamesOwnContainer` |
| | `RunningRowsAddressable` | `Spec => []RunningRowNamesContainer` |
| | `QuotaRespected` | `Spec => []FreshWithinQuota` |
| | `GoneRowsDoNotRun` | `Spec => []TerminalRowIsStopped` without failed starts and stops, redelivered assignments, worker restarts |
| | `RunningRowsObserved` | `Spec => []RunningRowObserved` without failed starts, redelivered assignments, worker restarts, failed publishes, redelivered statuses |
| `NodeRegistryProofs` | `TypeCorrect`, `RunningNodesSurvive` | `[]TypeOK`, `[]RunningNodeStaysHealthy` |
| `ServiceInstancesProofs` | `TypeCorrect`, `PortsReported` | `[]TypeOK`, `[]RowPortReported` |
| | `FeedImplemented` | `Spec => ImplementsFeed` |
| `LoadBalancerProofs` | `TypeCorrect`, `EveryInstanceExpires` | `[]TypeOK`, `[]OnTTLClock` |
| | `RegistryAgrees`, `StaleAddressesExpire` | `[]AgreesAfterResync`, `[]StaleAddressDropped` |
| | `FailedProbesSkipped` | `[]FailedProbeSkipped` |
| `BuildsProofs` | `TypeCorrect`, `SucceededBuildsDeployed` | `[]TypeOK`, `[]SucceededBuildDeployed` |
| | `DeployedOnce`, `InRequestOrder` | `[]DeployedOnceUnlessRedelivered`, `[]DeployedInOrder` |
| `SessionsProofs` | `TypeCorrect`, `AtMostOnce`, `LiveTokens` | `[]TypeOK`, `[]ExecutedAtMostOnce`, `[]OneLiveToken` |
| | `NoNeedlessRelogin`, `FileKnowsApplication` | `[]ReloginOnlyForCause`, `[]ApplicationKnown` |
| `TenancyProofs` | `TypeCorrect`, `LastOwnerKept`, `ProjectQuotaKept`, `KeysStayHome` | `[]TypeOK`, `[]OwnerlessOnlyByRace`, `[]ProjectsOverOnlyByRace`, `[]KeyConfined` |

The assumptions are the named ones next to each module's constants: bounds are
natural numbers, NULL and `NoPort` are none of the values they stand apart from,
the sets of deployments and assignments are finite, creation times of nodes
differ, a poll and a delay are shorter than the heartbeat interval, a query of the
load balancer is shorter than its resync interval (its resync loop reads and
writes before it waits for the next tick, `main.go:91`), and its TTL is at least
the 3 ticks from which `main.go` derives a sweep interval of at least one.

**Ownership.** That an unassign names the right container is not inductive: the
message is copied from a snapshot of a delete or a tick, the snapshot from the
row, the row from a status message, the message from a handler or from the
tracking map or the poll's snapshot of it, and those from the runtime.
`Ownership` is the conjunction of what each of these places keeps, together with
the fact that a handler that is not idle still has its message. The induction
rests on one observation: nothing ever takes an id back. `OwnershipProofs` states
it as `IdsKept` and `RowsKept`, with a frame lemma for conjuncts whose variables
do not change and a lemma per action of the apiserver, the scheduler, the
controller and the workers; `PlatformProofs` combines them.

**Quota.** That fresh rows stay within the quota is not inductive, since the count
and the insert are two steps. `QuotaKept` adds that between the two there is room
for one more: the trigger's count covers every fresh row, no other step makes a row
fresh (a status sets `stopped_at` when a row ends and never clears it), and no
other placement is under way.

**Agreement.** `Never(events)` says that the budget of these events is zero; that
of all others is any number. The argument has three layers of invariants on top of
`Ownership`.

1. `StartedOnce`: without failed starts, redelivered assignments and worker
   restarts, an assignment is delivered to one node once and has at most one
   container (`Deliveries`), and what a worker's goroutines say of a container
   was true of it (`Held`): a container reported as ended has ended, and an ended
   one stays ended. With one of these faults a container may be left that no row
   names.
2. `TerminalGone`, from which `GoneRowsDoNotRun` follows: whatever says that an
   assignment ended, the row, a status on the stream, a handler that has called
   `StopContainer`, is about a container that ended, or about an assignment in
   `blind`. It needs that stopping works, and neither the order nor the
   completeness of the stream, so lost and repeated statuses are allowed.
3. `Reporting`, from which `RunningRowsObserved` follows. An id leaves a worker
   only with the first status of its container (`IdsAnnounced`), no `running`
   stands behind an end of the same assignment (`InOrder`), whoever is past
   publishing an end has published it (`ReportsMade`), and an announced container
   is watched, being stopped or reported (`Followed`). `ReportsMade` is what the
   interleavings turn on: an entry leaves the tracking map, or stops saying
   `running`, only behind a publish, whichever of the three goroutines does it.
   A publish that fails or a `running` that comes again breaks it; a failing stop
   does not.

**Node liveness.** A row's age cannot be bounded by itself: a heartbeat may be
late by a poll and by its delay, and several may be in flight. But ticks never
move. The invariant `Ages` says that a heartbeat in flight is as old as its tick
but for the poll it waited for, and that a row is no older than the tick before
those whose heartbeats are lost or in flight, as a multiple of the interval.
`Loops` is needed for the lateness: a poll that ends leaves the health ticker
behind it, so a waiting heartbeat goes first.

**Discovery.** A row's port comes from the tick's copy, that from the cache, that
from the queue; `PortInv` says of all of them that the port was reported for that
container. The refinement needs the types only: each step of the tick maps to
`Write`, `Announce`, `Withhold` or a stutter.

**Load balancer.** A lookup or a resync may write what it read before the row
changed. `LookupOverlaps` and `ResyncOverlaps` say that it is wrong only about rows
that changed since it read. From there `Clocks` bounds a wrong address by the age of
its last confirmation (`TTLClock`), and the last resync by the ticker
(`ResyncClock`): with one miss at most it is two intervals and a query old, so the
sweep takes no instance with a row out if the TTL is longer than that, which is a
premise of `AgreesAfterResync` that the defaults satisfy. `MarkLasts` says that the
mark of a failed probe lasts to the next tick of the prober.

**Builds.** The order of two builds is lost sight of when one is deployed and the
other still a request, so `Line` reads deployments, waiting completions and
requests as one line, in which builds that were never redelivered stand once each
and in the order of their requests. Each step moves the head of a queue to the end
of the next place; the completion being handled counts as deployed or as waiting
according to the handler (`Waiting`).

**Sessions.** A request is executed only from `request` or `retry`, and an
executed one is in neither; `Attempts` says so per process. For the live tokens,
`Sessionwise` relates every token of a session to its exchanges: a token being
replaced is live or was revoked by a racing exchange that the history records.
For the two properties of the file, `Undisturbed` and `Remembered` say for each step
of the only active process what file, process, handler and database have in common:
which of them holds the newest token (`TokenOf`) and who knows of the application
(`AppOf`), of which there is one at most, because only a process that knows of none
creates one. An overlap, a fault or an expiry ends the claim on tokens. The claim
on the application goes on through faults that strike when server and
process agree, and ends with an overlap, a create or delete cut off before its save,
or a new login.

**Tenancy.** `Inv` says what a transaction may rely on between its statements:
what it has written is locked (`Held`, `Locks`), and what it counted still holds
(`OtherOwner`, `Room`) unless the history marks it as overtaken.

Only model-checked: the liveness properties (`Converges`, `DeleteStopsListed` and
those of `NodeRegistry`, `ServiceInstances` and `Builds`), because fairness is out
of the prover's reach. Every invariant of a passing run is also a theorem.

## 5. Not modelled

* TLS, git transport, archives and the Docker API, password hashing and token
  signing: library calls and I/O without a protocol of their own.
* Routes that only read, the logs and nodes routes and the worker's HTTP server,
  through which nothing but logs is asked for any more.
* Domains and the load balancer's host routes: rows written by single statements,
  and a map that is replaced as a whole by one writer.
* The contents of the audit log; an entry is part of the transaction it is about.
* `EnsureStream`: what JetStream does with a stream whose subjects change while
  messages of the old ones are stored is not in the repository.
* Row level security other than that of memberships; the other tables are only
  reached after the permission check that `Tenancy` models.
* Flags, output and individual calls of the command line client.
