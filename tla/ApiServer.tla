----------------------------- MODULE ApiServer ------------------------------
(***************************************************************************)
(* services/apiserver: the requests that change what should run.  A        *)
(* transaction (WithTx) is one step; publishing happens outside it         *)
(* (ADR-0012), so a deploy and a delete are several steps with the other   *)
(* services in between.  Any number of requests may be in flight, at most  *)
(* one delete per application.  Authorization is not modelled here.        *)
(***************************************************************************)
EXTENDS ClusterState

\* handleCreateApplication; replicas_desired defaults to 1.
CreateApplication(app) ==
    /\ applications[app].status = "none"
    /\ applications' = [applications EXCEPT ![app] = [status |-> "live", replicas |-> 1]]
    /\ UNCHANGED <<deployments, containers, nodes, clock, placementQ, assignQ, unassignQ, statusQ,
                   apiVars, sched, ctl, workerVars, budget, blind>>

\* checkDeploymentQuota: all modelled deployments are less than a day old.
CheckDeploymentQuota ==
    Cardinality({d \in DeploymentIds : ExistingDeployment(d)}) < MaxDeploymentsPerDay

\* checkResourceQuota: replace the latest deployment's containers by replicas.
CheckResourceQuota(app, replicas) ==
    LET current == UNION {ActiveByDeployment(d) : d \in {e \in DeploymentsOf(app) : IsLatest(e)}}
    IN  CurrentUsage - Cardinality(current) + replicas <= MaxContainers

\* handleDeploy's transaction: createDeploymentTx writes the desired state.
DeployTx(app) ==
    /\ applications[app].status = "live" /\ NewDeployments # {}
    /\ CheckDeploymentQuota
    /\ CheckResourceQuota(app, applications[app].replicas)
    /\ LET d == Mint(NewDeployments) IN
          /\ \E rev \in 1..Cardinality(DeploymentIds) :
                /\ IsNextRevision(app, rev)
                /\ deployments' = [deployments EXCEPT ![d] =
                      [status |-> "pending", app |-> app, revision |-> rev]]
          /\ deploys' = [deploys EXCEPT ![d] = "publish"]
    /\ UNCHANGED <<applications, containers, nodes, clock, placementQ, assignQ, unassignQ, statusQ,
                   deletes, sched, ctl, workerVars, budget, blind>>

\* publishPlacement: a publish error leads to a second transaction.
PublishPlacement(d) ==
    /\ deploys[d] = "publish"
    /\ \/ /\ placementQ' = Append(placementQ, d)
          /\ deploys' = [deploys EXCEPT ![d] = "none"]
          /\ UNCHANGED budget
       \/ /\ Spend("publishError")
          /\ deploys' = [deploys EXCEPT ![d] = "fail"]
          /\ UNCHANGED placementQ
    /\ UNCHANGED <<dbVars, assignQ, unassignQ, statusQ, deletes, sched, ctl, workerVars, blind>>

\* UpdateResult(failed); no row is updated if the deployment is gone by then.
RecordDeployFailure(d) ==
    /\ deploys[d] = "fail"
    /\ deployments' = IF ExistingDeployment(d) THEN [deployments EXCEPT ![d].status = "failed"]
                      ELSE deployments
    /\ deploys' = [deploys EXCEPT ![d] = "none"]
    /\ UNCHANGED <<applications, containers, nodes, clock, placementQ, assignQ, unassignQ, statusQ,
                   deletes, sched, ctl, workerVars, budget, blind>>

\* handleScaleApplication: only replicas_desired changes.
ScaleApplication(app, replicas) ==
    /\ applications[app].status = "live" /\ replicas # applications[app].replicas
    /\ Spend("scale")
    /\ CheckResourceQuota(app, replicas)
    /\ applications' = [applications EXCEPT ![app].replicas = replicas]
    /\ UNCHANGED <<deployments, containers, nodes, clock, placementQ, assignQ, unassignQ, statusQ,
                   apiVars, sched, ctl, workerVars, blind>>

\* handleDeleteApplication's first transaction: the containers of the latest
\* deployment; the loop that follows skips those without a runtime id.
DeleteList(app) ==
    /\ applications[app].status = "live" /\ deletes[app].pc = "idle" /\ Spend("delete")
    /\ deletes' = [deletes EXCEPT ![app] =
          [pc |-> "publish",
           victims |-> {VictimOf(a) : a \in
              {b \in Assignments : /\ containers[b].status \in LiveStatus
                                   /\ containers[b].runtimeID # NULL
                                   /\ deployments[containers[b].deployment].app = app
                                   /\ IsLatest(containers[b].deployment)}}]]
    /\ UNCHANGED <<dbVars, placementQ, assignQ, unassignQ, statusQ, deploys, sched, ctl, workerVars,
                   blind>>

\* One unassign per container; a publish error aborts the request.
DeletePublish(app) ==
    /\ deletes[app].pc = "publish"
    /\ \E v \in deletes[app].victims :
          \/ /\ PublishUnassign(v)
             /\ deletes' = [deletes EXCEPT ![app].victims = @ \ {v}]
             /\ UNCHANGED budget
          \/ /\ Spend("publishError")
             /\ deletes' = [deletes EXCEPT ![app] = DeleteIdle]
             /\ UNCHANGED <<unassignQ, blind>>
    /\ UNCHANGED <<dbVars, placementQ, assignQ, statusQ, deploys, sched, ctl, workerVars>>

\* The second transaction: the delete cascades to deployments and containers.
DeleteTx(app) ==
    /\ deletes[app].pc = "publish" /\ deletes[app].victims = {}
    /\ applications' = [applications EXCEPT ![app] = DeletedApp]
    /\ deployments' = [d \in DeploymentIds |->
          IF d \in DeploymentsOf(app) THEN DeletedDeployment
          ELSE deployments[d]]
    /\ containers' = [a \in Assignments |->
          IF containers[a].status \in LiveStatus /\ containers[a].deployment \in DeploymentsOf(app)
          THEN DeletedContainer
          ELSE containers[a]]
    /\ deletes' = [deletes EXCEPT ![app] = DeleteIdle]
    /\ UNCHANGED <<nodes, clock, placementQ, assignQ, unassignQ, statusQ, deploys, sched, ctl,
                   workerVars, budget, blind>>

\* The apiserver restarts: the requests in flight are lost.
ApiRestart ==
    /\ Spend("apiRestart")
    /\ deploys' = [d \in DeploymentIds |-> "none"]
    /\ deletes' = [app \in Apps |-> DeleteIdle]
    /\ UNCHANGED <<dbVars, placementQ, assignQ, unassignQ, statusQ, sched, ctl, workerVars, blind>>

ApiNext ==
    \/ \E app \in Apps :
          \/ CreateApplication(app) \/ DeployTx(app)
          \/ \E replicas \in 0..MaxReplicas : ScaleApplication(app, replicas)
          \/ DeleteList(app) \/ DeletePublish(app) \/ DeleteTx(app)
    \/ \E d \in DeploymentIds : PublishPlacement(d) \/ RecordDeployFailure(d)
    \/ ApiRestart

=============================================================================
