------------------------------ MODULE Platform ------------------------------
(***************************************************************************)
(* The orchestration path of the platform as a whole: apiserver,           *)
(* scheduler, Deployment controller and worker agents over one database    *)
(* and one event bus.                                                      *)
(***************************************************************************)
EXTENDS Scheduler, WorkerAgent, DeploymentController, ApiServer

\* An empty database, registered healthy nodes and idle services.
Init ==
    /\ applications = [app \in Apps |-> NoApp]
    /\ deployments  = [d \in DeploymentIds |-> NoDeployment]
    /\ containers   = [a \in Assignments |-> NoContainer]
    /\ nodes        = [n \in Nodes |-> "healthy"]
    /\ clock        = 0
    /\ placementQ   = <<>>
    /\ assignQ      = [n \in Nodes |-> <<>>]
    /\ unassignQ    = [n \in Nodes |-> <<>>]
    /\ statusQ      = <<>>
    /\ deploys      = [d \in DeploymentIds |-> "none"]
    /\ deletes      = [app \in Apps |-> DeleteIdle]
    /\ sched        = SchedIdle
    /\ ctl          = CtlIdle
    /\ runtime      = [r \in RuntimeIds |-> NoRuntime]
    /\ tracked      = [n \in Nodes |-> NoTracking]
    /\ assignH      = [n \in Nodes |-> AssignIdle]
    /\ unassignH    = [n \in Nodes |-> "idle"]
    /\ pollH        = [n \in Nodes |-> PollIdle]
    /\ budget       = Budget
    /\ blind        = {}

Next == ApiNext \/ SchedulerNext \/ ControllerNext \/ WorkerNext

Spec == Init /\ [][Next]_vars

-----------------------------------------------------------------------------
TypeOK ==
    /\ applications \in [Apps -> AppRow]
    /\ deployments \in [DeploymentIds -> DeploymentRow]
    /\ containers \in [Assignments -> ContainerRow]
    /\ nodes \in [Nodes -> {"healthy", "unreachable"}]
    /\ clock \in Nat
    /\ placementQ \in Seq(DeploymentIds)
    /\ assignQ \in [Nodes -> Seq(Assignments)]
    /\ unassignQ \in [Nodes -> Seq(UnassignMsg)]
    /\ statusQ \in Seq(StatusMsg)
    /\ deploys \in [DeploymentIds -> {"none", "publish", "fail"}]
    /\ deletes \in [Apps -> DeleteState]
    /\ sched \in SchedState
    /\ ctl \in CtlState
    /\ runtime \in [RuntimeIds -> RuntimeContainer]
    /\ tracked \in [Nodes -> [Assignments -> TrackedContainer]]
    /\ assignH \in [Nodes -> AssignState]
    /\ unassignH \in [Nodes -> UnassignState]
    /\ pollH \in [Nodes -> PollState]
    /\ budget \in [Bounded -> Nat]
    /\ blind \subseteq Assignments

-----------------------------------------------------------------------------
(* Who a runtime id belongs to.  A worker stops whatever container id an     *)
(* unassign message names, without comparing it with the assignment, so the  *)
(* pair must be right wherever it travels: from the runtime through the      *)
(* agent, the status stream, the containers row and the snapshots of the     *)
(* controller and the apiserver back to the node.                            *)

\* r is the container that node n's runtime created for assignment a.
CreatedFor(r, a, n) == runtime[r].assignment = a /\ runtime[r].node = n

\* An unassign message that names a container names one that the receiving node
\* created for that very assignment: handleUnassign (assign.go) can never stop
\* another assignment's container, under redelivery, restarts and lost publishes.
UnassignNamesOwnContainer ==
    \A n \in Nodes : \A i \in 1..Len(unassignQ[n]) :
       LET msg == unassignQ[n][i]
       IN  msg.containerID # NULL => CreatedFor(msg.containerID, msg.assignment, n)

\* A containers row in status running has been stamped and names a container its
\* own node created for it, so every consumer of running rows (scaleDown,
\* handleDeleteApplication, ListRunningCandidates) can address that container.
RunningRowNamesContainer ==
    \A a \in Assignments : containers[a].status = "running" =>
       /\ containers[a].startedAt # 0
       /\ containers[a].runtimeID # NULL
       /\ CreatedFor(containers[a].runtimeID, a, containers[a].node)

\* The two above hold because of what every place the pair travels through keeps.
Owned(r, a, n) == r # NULL => CreatedFor(r, a, n)

\* Assignment a was placed on node n; its row may have been deleted since.
PlacedOn(a, n) ==
    /\ containers[a].status # "none"
    /\ containers[a].status \in LiveStatus => containers[a].node = n

RowsWellFormed ==
    /\ \A d \in DeploymentIds : ExistingDeployment(d) => deployments[d].app \in Apps
    /\ \A a \in Assignments :
          /\ containers[a].status \in LiveStatus =>
                containers[a].node \in Nodes /\ containers[a].deployment \in DeploymentIds
          /\ Owned(containers[a].runtimeID, a, containers[a].node)

RuntimesPlaced ==
    \A r \in RuntimeIds :
       \/ runtime[r] = NoRuntime
       \/ /\ runtime[r].state # "none"
          /\ runtime[r].node \in Nodes /\ runtime[r].assignment \in Assignments
          /\ PlacedOn(runtime[r].assignment, runtime[r].node)

SchedulerHolds ==
    /\ sched.pc # "idle" =>
          placementQ # <<>> /\ sched.deployment \in DeploymentIds /\ sched.node \in Nodes
    /\ sched.pc = "publish" =>
          sched.assignment \in Assignments /\ PlacedOn(sched.assignment, sched.node)

ControllerHolds ==
    /\ ctl.pc = "up" => ctl.deployment \in DeploymentIds /\ ctl.count > 0
    /\ \A v \in ctl.victims : Owned(v.containerID, v.assignment, v.node)

DeletesHold ==
    \A app \in Apps : \A v \in deletes[app].victims : Owned(v.containerID, v.assignment, v.node)

AssignmentsPlaced ==
    \A n \in Nodes : \A i \in 1..Len(assignQ[n]) : PlacedOn(assignQ[n][i], n)

StatusesOwned ==
    \A i \in 1..Len(statusQ) :
       /\ statusQ[i].containerID # NULL =>
             runtime[statusQ[i].containerID].assignment = statusQ[i].assignment
       /\ statusQ[i].status = "running" => statusQ[i].containerID # NULL

AssignHandlersHold ==
    \A n \in Nodes : assignH[n].pc # "idle" =>
       /\ assignQ[n] # <<>> /\ assignH[n].status \in LiveStatus
       /\ Owned(assignH[n].containerID, Head(assignQ[n]), n)
       /\ assignH[n].pc = "track" \/ assignH[n].status = "running" => assignH[n].containerID # NULL

UnassignHandlersHold == \A n \in Nodes : unassignH[n] # "idle" => unassignQ[n] # <<>>

\* An entry of the tracking map, or of the poll's snapshot of it.
EntryOwned(entry, a, n) ==
    entry # NotTracked => entry.containerID # NULL /\ CreatedFor(entry.containerID, a, n)

TrackedOwned == \A n \in Nodes, a \in Assignments : EntryOwned(tracked[n][a], a, n)

SnapshotsOwned == \A n \in Nodes, a \in Assignments : EntryOwned(pollH[n].todo[a], a, n)

PollsHold ==
    \A n \in Nodes : pollH[n].pc \in {"publish", "update"} =>
       /\ pollH[n].assignment \in Assignments /\ pollH[n].status \in LiveStatus
       /\ pollH[n].todo[pollH[n].assignment] # NotTracked

\* Nothing on the way from a runtime to a row and back to a worker confuses two
\* containers, two assignments or two nodes: every handler still holds the
\* message it works on, and each id it carries was created for that assignment
\* on that node.  This is the inductive invariant of PlatformProofs.
Ownership ==
    /\ TypeOK /\ RowsWellFormed /\ RuntimesPlaced
    /\ SchedulerHolds /\ ControllerHolds /\ DeletesHold
    /\ AssignmentsPlaced /\ StatusesOwned /\ UnassignNamesOwnContainer
    /\ AssignHandlersHold /\ UnassignHandlersHold
    /\ TrackedOwned /\ SnapshotsOwned /\ PollsHold
    /\ RunningRowNamesContainer

\* The active rows whose containers have never been reported ended.
FreshContainers == {a \in Assignments : ActiveContainer(a) /\ ~containers[a].stoppedAt}

\* The organization's active containers exceed max_containers only by rows that a
\* late or repeated status revived: UpdateStatus may bring an ended row back
\* after the placement that replaced it was checked, counted by the trigger or
\* inserted, but no placement, repeated or interrupted, adds a row for which there
\* was no room (checkQuota in placement.go, migration 0013).
FreshWithinQuota == Cardinality(FreshContainers) <= MaxContainers

-----------------------------------------------------------------------------
(* Agreement of the containers table with the runtimes.  Both directions     *)
(* except the assignments an unassign without container id was sent for      *)
(* (scaleDown's unassign of a row that is still pending).                    *)

TerminalOnItsWay(a) ==
    \/ \E i \in 1..Len(statusQ) :
          statusQ[i].assignment = a /\ statusQ[i].status \in {"crashed", "stopped"}
    \/ \E n \in Nodes : unassignH[n] \in {"remove", "publish"} /\ Head(unassignQ[n]).assignment = a

\* Somebody will report the end of assignment a's container r on node n: the
\* handler that started it is about to track it, or the health poll has it.
Observed(r, a, n) ==
    \/ assignH[n].pc # "idle" /\ assignH[n].containerID = r
    \/ tracked[n][a] = [containerID |-> r, lastStatus |-> "running"]

\* A row that says running is backed by a running container, or the container's
\* end is observed or on its way: an out-of-band kill cannot stay unnoticed
\* (phase-3-controllers.md Task 1), whatever the three goroutines of a worker
\* and the status consumer interleave.
RunningRowObserved ==
    \A a \in Assignments \ blind :
       LET row == containers[a] IN
       row.status = "running" =>
          \/ runtime[row.runtimeID].state = "running"
          \/ TerminalOnItsWay(a)
          \/ Observed(row.runtimeID, a, row.node)

\* A row that says crashed or stopped has no running container: nothing the
\* control plane counts as gone still runs (nats-contract.md on unassign).
TerminalRowIsStopped ==
    \A a \in Assignments \ blind : containers[a].status \in {"crashed", "stopped"} =>
       ~\E r \in RuntimeIds : runtime[r].state = "running" /\ runtime[r].assignment = a

-----------------------------------------------------------------------------
(* Liveness.  The 5 s between two ticks outlast what the control plane does  *)
(* for a message or a request, a few statements and a publish, so a paced    *)
(* tick finds handleDeploy, handlePlacement and handleStatus done; Tick,     *)
(* which waits for nothing, stays possible as often as its budget allows.    *)
(* No tick waits for a worker: a pull takes any time, a stop up to 10 s, and *)
(* every tick that still counts the row sends the same unassign again.       *)
(* MaxBacklog is the model's bound on what piles up that way.                *)

Paced ==
    /\ placementQ = <<>> /\ sched.pc = "idle" /\ statusQ = <<>>
    /\ \A d \in DeploymentIds : deploys[d] = "none"
    /\ \A n \in Nodes : Len(unassignQ[n]) < MaxBacklog

PacedTick == Paced /\ TickList /\ UNCHANGED budget

PacedNext == Next \/ PacedTick

\* Every consumer, ticker and request handler keeps running: a handler that has
\* a message, a tick or a request makes its next step.  Faults, clients and
\* container exits are not fair.
Fairness ==
    /\ WF_vars(SelectNode \/ CheckQuota \/ EnforceContainerQuota \/ CreateContainerRow
               \/ PublishAssignment)
    /\ WF_vars(HandleStatus)
    /\ WF_vars(PacedTick) /\ WF_vars(Reconcile)
    /\ \A d \in DeploymentIds : WF_vars(PublishPlacement(d) \/ RecordDeployFailure(d))
    /\ \A app \in Apps : WF_vars(DeletePublish(app) \/ DeleteTx(app))
    /\ \A n \in Nodes : /\ WF_vars(HandleAssignment(n)) /\ WF_vars(HandleUnassign(n))
                        /\ WF_vars(CheckTrackedContainers(n)) /\ WF_vars(HandleHeartbeat(n))

PacedSpec == Init /\ [][PacedNext]_vars /\ Fairness

\* A pending row nobody will start or report on: the scheduler stopped between
\* the insert and the publish, and the redelivered request does not take it over.
Stranded(a) ==
    /\ containers[a].status = "pending"
    /\ sched.assignment # a
    /\ \A i \in 1..Len(assignQ[containers[a].node]) : assignQ[containers[a].node][i] # a
    /\ \A i \in 1..Len(statusQ) : statusQ[i].assignment # a

\* Every application's current deployment has as many active rows as desired
\* replicas, each backed by a running container unless it is stranded, and no row
\* that says crashed or stopped names a container that still runs; rows that were
\* unassigned before their container had an id are excepted.
Settled ==
    /\ \A t \in ListActive :
          /\ Cardinality(ActiveByDeployment(t.deployment)) = t.replicas
          /\ \A a \in ActiveByDeployment(t.deployment) :
                \/ a \in blind \/ Stranded(a)
                \/ containers[a].status = "running" /\ runtime[containers[a].runtimeID].state = "running"
    /\ \A a \in Assignments \ blind :
          containers[a].status \in {"crashed", "stopped"} /\ containers[a].runtimeID # NULL
             => runtime[containers[a].runtimeID].state # "running"

\* Once clients and faults pause and ticks no longer overtake the control plane,
\* the platform settles on the desired replicas and stays there
\* (phase-3-controllers.md's exit criterion), although ticks go on counting rows
\* whose containers are still being pulled or stopped.  What a scheduler that
\* stopped may leave behind for good is a stranded row that counts as a replica.
Converges == <>[]Settled

\* A container that a delete request found gets stopped unless the request is
\* aborted with the application still there: its row is gone by the time the
\* worker handles the unassign, the worker may restart in between and handle the
\* message twice, and the publish may fail (handleDeleteApplication: "a publish
\* failure aborts the deletion rather than leaving an orphaned container").
DeleteStopsListed ==
    \A app \in Apps, r \in RuntimeIds :
       (\E v \in deletes[app].victims : v.containerID = r)
          ~> \/ runtime[r].state # "running"
             \/ deletes[app].pc = "idle" /\ applications[app].status = "live"

-----------------------------------------------------------------------------
(* A statement the repository makes about itself that the code does not     *)
(* keep; its run ends in a counterexample.                                   *)

\* "a lost unassign leaves a container running that the control plane thinks is
\* gone" is what nats-contract.md excludes by publishing unassign durably: a row
\* that says stopped has no running container.
StoppedMeansStopped ==
    \A a \in Assignments : containers[a].status \in {"crashed", "stopped"} =>
       ~\E r \in RuntimeIds : runtime[r].state = "running" /\ runtime[r].assignment = a

=============================================================================
