---------------------------- MODULE ClusterState ----------------------------
(***************************************************************************)
(* The state the platform's processes share: the Postgres tables the       *)
(* orchestration path reads and writes (internal/db), the JetStream        *)
(* subjects it uses (internal/eventbus), and the local state of each       *)
(* process.  The component modules Scheduler, WorkerAgent,                 *)
(* DeploymentController and ApiServer extend this module with their        *)
(* actions; Platform composes them.                                        *)
(*                                                                         *)
(* Conventions.  A UUID primary key is a member of a constant set.  A      *)
(* table is a total function from its keys to rows; a key whose row has    *)
(* status "none" has not been minted and one with status "deleted" had     *)
(* its row removed, so no key is ever used twice.  NULL is SQL's NULL and  *)
(* the empty string the code marshals for it.  All applications belong to  *)
(* one organization, whose container quota is MaxContainers.               *)
(***************************************************************************)
EXTENDS Integers, Sequences, FiniteSets

CONSTANTS
    Apps,                 \* applications.id
    DeploymentIds,        \* deployments.id
    Assignments,          \* containers.id, which is also the assignment_id
    Nodes,                \* nodes.id
    RuntimeIds,           \* ids the container runtimes hand out
    NULL,
    NodeCreatedAt,        \* nodes.created_at: the order selectNode scans in
    MaxReplicas,          \* largest replicas_desired a client asks for
    MaxContainers,        \* resource_quotas.max_containers
    MaxDeploymentsPerDay, \* resource_quotas.max_deployments_per_day
    MaxBacklog,           \* unassigns a node may be behind when a paced tick starts
    Budget                \* how often each bounded event may happen

(***************************************************************************)
(* The events whose number Budget bounds: reconcile ticks and client       *)
(* requests, which set the pace, and the faults the code meets.            *)
(***************************************************************************)
Bounded == {"tick", "scale", "delete", "kill", "startError", "stopError", "publishError",
            "sweep", "placementRedelivery", "statusRedelivery", "assignRedelivery",
            "unassignRedelivery", "apiRestart", "schedulerRestart", "controllerRestart",
            "workerRestart"}

ASSUME ClusterAssumption ==
    /\ IsFiniteSet(DeploymentIds) /\ IsFiniteSet(Assignments)
    /\ NULL \notin Apps \cup DeploymentIds \cup Assignments \cup Nodes \cup RuntimeIds
    /\ NodeCreatedAt \in [Nodes -> Nat]
    /\ \A m, n \in Nodes : NodeCreatedAt[m] = NodeCreatedAt[n] => m = n
    /\ MaxReplicas \in Nat
    /\ MaxContainers \in Nat
    /\ MaxDeploymentsPerDay \in Nat
    /\ MaxBacklog \in Nat \ {0}
    /\ Budget \in [Bounded -> Nat]

VARIABLES
    (* Postgres *)
    applications,   \* [Apps -> AppRow]
    deployments,    \* [DeploymentIds -> DeploymentRow]
    containers,     \* [Assignments -> ContainerRow]
    nodes,          \* [Nodes -> nodes.status]
    clock,          \* how many started_at stamps now() has handed out
    (* JetStream: messages not yet acked, the head being handled *)
    placementQ,     \* placement.requested
    assignQ,        \* node.<id>.assign, per node
    unassignQ,      \* node.<id>.unassign, per node
    statusQ,        \* node.*.status
    (* apiserver: requests between two transactions *)
    deploys,        \* handleDeploy, per deployment it created
    deletes,        \* handleDeleteApplication, per application
    (* scheduler and controller-manager *)
    sched,          \* the placement consumer's handler
    ctl,            \* the Deployment controller's tick
    (* worker nodes *)
    runtime,        \* every container a runtime ever created
    tracked,        \* Agent.tracked, per node
    assignH,        \* handleAssignment, per node
    unassignH,      \* handleUnassign, per node
    pollH,          \* checkTrackedContainers, per node
    (* bounds and history *)
    budget,         \* what is left of Budget
    blind           \* assignments an unassign without a container id was sent for

dbVars     == <<applications, deployments, containers, nodes, clock>>
apiVars    == <<deploys, deletes>>
workerVars == <<runtime, tracked, assignH, unassignH, pollH>>
vars == <<applications, deployments, containers, nodes, clock,
          placementQ, assignQ, unassignQ, statusQ, deploys, deletes, sched, ctl,
          runtime, tracked, assignH, unassignH, pollH, budget, blind>>

-----------------------------------------------------------------------------
(* Rows, messages and handler states *)

LiveStatus == {"pending", "running", "crashed", "stopped"}

AppRow == [status : {"none", "live", "deleted"}, replicas : Nat]

DeploymentRow == [status : {"none", "pending", "failed", "deleted"},
                  app : Apps \cup {NULL}, revision : Nat]

\* started_at is an order, not a time: 0 stands for NULL.  Nothing reads the
\* value of stopped_at, so only whether it is set is kept.
ContainerRow == [status : LiveStatus \cup {"none", "deleted"},
                 deployment : DeploymentIds \cup {NULL}, node : Nodes \cup {NULL},
                 runtimeID : RuntimeIds \cup {NULL},
                 startedAt : Nat, stoppedAt : BOOLEAN]

StatusMsg   == [assignment : Assignments, containerID : RuntimeIds \cup {NULL},
                status : LiveStatus]
UnassignMsg == [assignment : Assignments, containerID : RuntimeIds \cup {NULL}]

\* A row as scaleDown or handleDeleteApplication read it, still to be unassigned.
Victim == [assignment : Assignments, node : Nodes, containerID : RuntimeIds \cup {NULL}]

RuntimeState == {"none", "created", "running", "exited0", "exited1", "removed"}
RuntimeContainer == [state : RuntimeState, node : Nodes \cup {NULL},
                     assignment : Assignments \cup {NULL}]

TrackedContainer == [containerID : RuntimeIds \cup {NULL}, lastStatus : LiveStatus \cup {"none"}]

SchedState == [pc : {"idle", "quota", "create", "insert", "publish"},
               deployment : DeploymentIds \cup {NULL}, node : Nodes \cup {NULL},
               assignment : Assignments \cup {NULL}]

Target   == [deployment : DeploymentIds, replicas : Nat]
CtlState == [pc : {"idle", "reconcile", "up", "list", "down"}, targets : SUBSET Target,
             deployment : DeploymentIds \cup {NULL}, count : Nat,
             victims : SUBSET Victim]

DeleteState   == [pc : {"idle", "publish"}, victims : SUBSET Victim]
AssignState   == [pc : {"idle", "publish", "track"}, containerID : RuntimeIds \cup {NULL},
                  status : LiveStatus \cup {"none"}]
UnassignState == {"idle", "remove", "publish", "untrack"}
PollState     == [pc : {"idle", "inspect", "publish", "update"},
                  todo : [Assignments -> TrackedContainer],
                  assignment : Assignments \cup {NULL}, status : LiveStatus \cup {"none"}]

NoApp        == [status |-> "none", replicas |-> 0]
NoDeployment == [status |-> "none", app |-> NULL, revision |-> 0]
NoContainer  == [status |-> "none", deployment |-> NULL, node |-> NULL,
                 runtimeID |-> NULL, startedAt |-> 0, stoppedAt |-> FALSE]
DeletedApp        == [status |-> "deleted", replicas |-> 0]
DeletedDeployment == [status |-> "deleted", app |-> NULL, revision |-> 0]
DeletedContainer  == [status |-> "deleted", deployment |-> NULL, node |-> NULL,
                      runtimeID |-> NULL, startedAt |-> 0, stoppedAt |-> FALSE]
NoRuntime    == [state |-> "none", node |-> NULL, assignment |-> NULL]
NotTracked   == [containerID |-> NULL, lastStatus |-> "none"]
NoTracking   == [a \in Assignments |-> NotTracked]
SchedIdle    == [pc |-> "idle", deployment |-> NULL, node |-> NULL, assignment |-> NULL]
CtlIdle      == [pc |-> "idle", targets |-> {}, deployment |-> NULL, count |-> 0, victims |-> {}]
DeleteIdle   == [pc |-> "idle", victims |-> {}]
AssignIdle   == [pc |-> "idle", containerID |-> NULL, status |-> "none"]
PollIdle     == [pc |-> "idle", todo |-> NoTracking, assignment |-> NULL, status |-> "none"]

-----------------------------------------------------------------------------
(* Repositories: the queries and updates of internal/db *)

\* Mutation of ActiveContainer: a crashed container still counts as a replica.
NotStoppedContainer(a) == containers[a].status \in {"pending", "running", "crashed"}

ActiveContainer(a) == containers[a].status \in {"pending", "running"}

\* containerRepository.CountActiveByDeployment and ListByDeployment.
ActiveByDeployment(d) == {a \in Assignments : ActiveContainer(a) /\ containers[a].deployment = d}

\* Mutation of CurrentUsage: rows that have not started yet are not counted.
RunningUsage == Cardinality({a \in Assignments : containers[a].status = "running"})

\* quotaRepository.CurrentUsage: the organization's active containers.
CurrentUsage == Cardinality({a \in Assignments : ActiveContainer(a)})

ExistingDeployment(d) == deployments[d].status \in {"pending", "failed"}

DeploymentsOf(app) == {d \in DeploymentIds : ExistingDeployment(d) /\ deployments[d].app = app}

\* deploymentRepository.Latest: the application's highest revision.
IsLatest(d) ==
    /\ ExistingDeployment(d)
    /\ \A e \in DeploymentsOf(deployments[d].app) : deployments[e].revision <= deployments[d].revision

\* deploymentRepository.Create: COALESCE(MAX(revision), 0) + 1.
IsNextRevision(app, rev) ==
    /\ \A d \in DeploymentsOf(app) : deployments[d].revision < rev
    /\ rev = 1 \/ \E d \in DeploymentsOf(app) : deployments[d].revision = rev - 1

\* containerRepository.UpdateStatus: the last writer wins, an absent runtime id
\* keeps the stored one, and each timestamp is written once.
UpdateStatus(a, status, runtimeID) ==
    LET row   == containers[a]
        start == status = "running" /\ row.startedAt = 0
    IN  /\ containers' = [containers EXCEPT ![a] =
             [status |-> status, deployment |-> row.deployment, node |-> row.node,
              runtimeID |-> IF runtimeID = NULL THEN row.runtimeID ELSE runtimeID,
              startedAt |-> IF start THEN clock + 1 ELSE row.startedAt,
              stoppedAt |-> row.stoppedAt \/ status \in {"crashed", "stopped"}]]
        /\ clock' = IF start THEN clock + 1 ELSE clock

\* Mutation of VictimOf: one fixed worker instead of the container's own node.
FixedWorkerVictimOf(a) == [assignment |-> a, node |-> CHOOSE n \in Nodes : TRUE,
                           containerID |-> containers[a].runtimeID]

\* What scaleDown and handleDeleteApplication take from a containers row.
VictimOf(a) == [assignment |-> a, node |-> containers[a].node,
                containerID |-> containers[a].runtimeID]

\* The id the database or a runtime mints next: any unused one will do.
NewDeployments == {d \in DeploymentIds : deployments[d].status = "none"}
NewAssignments == {a \in Assignments : containers[a].status = "none"}
NewRuntimeIds  == {r \in RuntimeIds : runtime[r].state = "none"}
Mint(unused)   == CHOOSE id \in unused : TRUE

-----------------------------------------------------------------------------
(* Event bus *)

Spend(event) == budget[event] > 0 /\ budget' = [budget EXCEPT ![event] = @ - 1]

\* SubscribeDurable acks with AckExplicit and the default AckWait: a message
\* whose handler is slow is delivered again behind the ones already queued.
Redelivered(q) == Append(q, Head(q))

\* PublishDurable of an unassign message for victim v.
PublishUnassign(v) ==
    /\ unassignQ' = [unassignQ EXCEPT ![v.node] =
                        Append(@, [assignment |-> v.assignment, containerID |-> v.containerID])]
    /\ blind' = IF v.containerID = NULL THEN blind \cup {v.assignment} ELSE blind

=============================================================================
