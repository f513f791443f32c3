----------------------------- MODULE Scheduler ------------------------------
(***************************************************************************)
(* services/scheduler: the consumer of placement.requested, which turns a  *)
(* request into a containers row and an assignment, and the consumer of    *)
(* node.*.status, which records what the workers report.  The two          *)
(* consumers run concurrently with each other and with every other         *)
(* service; the database calls of handlePlacement are separate statements, *)
(* so each is a step, and so are the quota trigger's count and the insert  *)
(* it guards.  Every path through either handler acks its message.         *)
(***************************************************************************)
EXTENDS ClusterState

\* loadOf: a node's non-terminal containers.
LoadOf(n) == Cardinality({a \in Assignments : ActiveContainer(a) /\ containers[a].node = n})

\* Nodes register with their configured capacity, which is positive.
Eligible == {n \in Nodes : nodes[n] = "healthy"}

\* selectNode scans newest first and keeps the first node of least load.
Better(m, n) ==
    \/ LoadOf(m) < LoadOf(n)
    \/ LoadOf(m) = LoadOf(n) /\ NodeCreatedAt[m] > NodeCreatedAt[n]
Selected(n) == n \in Eligible /\ \A m \in Eligible \ {n} : Better(n, m)

AckPlacement == placementQ' = Tail(placementQ) /\ sched' = SchedIdle

\* handlePlacement, up to selectNode: no eligible node drops the request.
SelectNode ==
    /\ sched.pc = "idle" /\ placementQ # <<>>
    /\ \/ /\ Eligible = {}
          /\ AckPlacement
       \/ \E n \in Nodes :
             /\ Selected(n)
             /\ sched' = [pc |-> "quota", deployment |-> Head(placementQ), node |-> n,
                          assignment |-> NULL]
             /\ UNCHANGED placementQ
    /\ UNCHANGED <<dbVars, assignQ, unassignQ, statusQ, apiVars, ctl, workerVars, budget, blind>>

\* checkQuota: reject when one more container would exceed the organization's
\* quota, or when the deployment is gone.
CheckQuota ==
    /\ sched.pc = "quota"
    /\ \/ /\ ExistingDeployment(sched.deployment) /\ CurrentUsage + 1 <= MaxContainers
          /\ sched' = [sched EXCEPT !.pc = "create"]
          /\ UNCHANGED placementQ
       \/ /\ ~ExistingDeployment(sched.deployment) \/ CurrentUsage + 1 > MaxContainers
          /\ AckPlacement
    /\ UNCHANGED <<dbVars, assignQ, unassignQ, statusQ, apiVars, ctl, workerVars, budget, blind>>

\* containers.Create, its first half: the insert fires enforce_container_quota,
\* which counts the active rows it can see and holds no lock while it does.
EnforceContainerQuota ==
    /\ sched.pc = "create"
    /\ \/ /\ CurrentUsage + 1 <= MaxContainers
          /\ sched' = [sched EXCEPT !.pc = "insert"]
          /\ UNCHANGED placementQ
       \/ /\ CurrentUsage + 1 > MaxContainers
          /\ AckPlacement
    /\ UNCHANGED <<dbVars, assignQ, unassignQ, statusQ, apiVars, ctl, workerVars, budget, blind>>

\* Its second half: the row goes in, by now perhaps next to rows that the
\* trigger did not count, unless the deployment it references is gone.
CreateContainerRow ==
    /\ sched.pc = "insert"
    /\ \/ /\ ExistingDeployment(sched.deployment)
          /\ NewAssignments # {}
          /\ LET a == Mint(NewAssignments) IN
                /\ containers' = [containers EXCEPT ![a] =
                      [status |-> "pending", deployment |-> sched.deployment,
                       node |-> sched.node, runtimeID |-> NULL,
                       startedAt |-> 0, stoppedAt |-> FALSE]]
                /\ sched' = [pc |-> "publish", deployment |-> sched.deployment,
                             node |-> sched.node, assignment |-> a]
          /\ UNCHANGED placementQ
       \/ /\ ~ExistingDeployment(sched.deployment)
          /\ AckPlacement
          /\ UNCHANGED containers
    /\ UNCHANGED <<applications, deployments, nodes, clock, assignQ, unassignQ, statusQ,
                   apiVars, ctl, workerVars, budget, blind>>

\* Publish the assignment on the chosen node's subject; an error is only logged.
PublishAssignment ==
    /\ sched.pc = "publish"
    /\ AckPlacement
    /\ \/ /\ assignQ' = [assignQ EXCEPT ![sched.node] = Append(@, sched.assignment)]
          /\ UNCHANGED budget
       \/ /\ Spend("publishError")
          /\ UNCHANGED assignQ
    /\ UNCHANGED <<dbVars, unassignQ, statusQ, apiVars, ctl, workerVars, blind>>

\* handleStatus: one UPDATE; a status for a deleted row is dropped.
HandleStatus ==
    /\ statusQ # <<>>
    /\ LET msg == Head(statusQ) IN
          \/ /\ containers[msg.assignment].status \in LiveStatus
             /\ UpdateStatus(msg.assignment, msg.status, msg.containerID)
          \/ /\ containers[msg.assignment].status \notin LiveStatus
             /\ UNCHANGED <<containers, clock>>
    /\ statusQ' = Tail(statusQ)
    /\ UNCHANGED <<applications, deployments, nodes, placementQ, assignQ, unassignQ,
                   apiVars, sched, ctl, workerVars, budget, blind>>

\* The registry's two writes of nodes.status; NodeRegistry models when they happen.
SweepUnreachable(n) ==
    /\ nodes[n] = "healthy" /\ Spend("sweep")
    /\ nodes' = [nodes EXCEPT ![n] = "unreachable"]
    /\ UNCHANGED <<applications, deployments, containers, clock, placementQ, assignQ, unassignQ,
                   statusQ, apiVars, sched, ctl, workerVars, blind>>

HandleHeartbeat(n) ==
    /\ nodes[n] = "unreachable"
    /\ nodes' = [nodes EXCEPT ![n] = "healthy"]
    /\ UNCHANGED <<applications, deployments, containers, clock, placementQ, assignQ, unassignQ,
                   statusQ, apiVars, sched, ctl, workerVars, budget, blind>>

\* A slow handler lets AckWait expire, and a restart loses the handler, not the
\* message: either way the request is handled again.
RedeliverPlacement ==
    /\ sched.pc # "idle" /\ Spend("placementRedelivery")
    /\ placementQ' = Redelivered(placementQ)
    /\ UNCHANGED <<dbVars, assignQ, unassignQ, statusQ, apiVars, sched, ctl, workerVars, blind>>

RedeliverStatus ==
    /\ statusQ # <<>> /\ Spend("statusRedelivery")
    /\ statusQ' = Redelivered(statusQ)
    /\ UNCHANGED <<dbVars, placementQ, assignQ, unassignQ, apiVars, sched, ctl, workerVars, blind>>

SchedulerRestart ==
    /\ sched.pc # "idle" /\ Spend("schedulerRestart")
    /\ sched' = SchedIdle
    /\ UNCHANGED <<dbVars, placementQ, assignQ, unassignQ, statusQ, apiVars, ctl, workerVars, blind>>

SchedulerNext ==
    \/ SelectNode \/ CheckQuota \/ EnforceContainerQuota \/ CreateContainerRow
    \/ PublishAssignment
    \/ HandleStatus
    \/ \E n \in Nodes : SweepUnreachable(n) \/ HandleHeartbeat(n)
    \/ RedeliverPlacement \/ RedeliverStatus \/ SchedulerRestart

=============================================================================
