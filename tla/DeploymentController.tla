----------------------- MODULE DeploymentController -------------------------
(***************************************************************************)
(* services/controller-manager: the Deployment controller.  A tick lists   *)
(* the latest, not failed deployment of every application with its         *)
(* replicas_desired, then for each one counts the active containers and    *)
(* requests the missing placements or unassigns the excess.  The list, the *)
(* count, the listing of scaleDown and every publish are separate calls,   *)
(* so what a publish acts on may be stale by then.                         *)
(***************************************************************************)
EXTENDS ClusterState

\* reconcileRepository.ListActive.
ListActive ==
    {[deployment |-> d, replicas |-> applications[deployments[d].app].replicas] :
        d \in {e \in DeploymentIds : IsLatest(e) /\ deployments[e].status # "failed"}}

\* The tick moves on to the remaining targets, or ends.
NextTarget(targets) ==
    IF targets = {} THEN CtlIdle
    ELSE [pc |-> "reconcile", targets |-> targets, deployment |-> NULL, count |-> 0,
          victims |-> {}]

TickList ==
    /\ ctl.pc = "idle" /\ ListActive # {}
    /\ ctl' = NextTarget(ListActive)
    /\ UNCHANGED <<dbVars, placementQ, assignQ, unassignQ, statusQ, apiVars, sched, workerVars, blind>>

\* tick, at its own pace: the number of ticks is bounded.
Tick == TickList /\ Spend("tick")

\* reconcileOne: the count taken now against the replicas the list returned.
ReconcileOne ==
    /\ ctl.pc = "reconcile"
    /\ \E t \in ctl.targets :
          LET active == Cardinality(ActiveByDeployment(t.deployment))
              rest   == ctl.targets \ {t}
          IN  \/ /\ active < t.replicas
                 /\ ctl' = [pc |-> "up", targets |-> rest, deployment |-> t.deployment,
                            count |-> t.replicas - active, victims |-> {}]
              \/ /\ active > t.replicas
                 /\ ctl' = [pc |-> "list", targets |-> rest, deployment |-> t.deployment,
                            count |-> active - t.replicas, victims |-> {}]
              \/ /\ active = t.replicas
                 /\ ctl' = NextTarget(rest)
    /\ UNCHANGED <<dbVars, placementQ, assignQ, unassignQ, statusQ, apiVars, sched, workerVars,
                   budget, blind>>

\* scaleUp publishes one request per missing replica and gives up on an error.
ScaleUp ==
    /\ ctl.pc = "up"
    /\ \/ /\ placementQ' = Append(placementQ, ctl.deployment)
          /\ ctl' = IF ctl.count = 1 THEN NextTarget(ctl.targets)
                    ELSE [ctl EXCEPT !.count = @ - 1]
          /\ UNCHANGED budget
       \/ /\ Spend("publishError")
          /\ ctl' = NextTarget(ctl.targets)
          /\ UNCHANGED placementQ
    /\ UNCHANGED <<dbVars, assignQ, unassignQ, statusQ, apiVars, sched, workerVars, blind>>

\* scaleDown sorts the active containers by started_at, NULL last.
Older(a, b) ==
    /\ containers[a].startedAt # 0
    /\ containers[b].startedAt = 0 \/ containers[a].startedAt < containers[b].startedAt

\* active[:excess], with excess cut to the number of active containers.
Oldest(V, active, excess) ==
    /\ V \subseteq active
    /\ Cardinality(V) = IF excess > Cardinality(active) THEN Cardinality(active) ELSE excess
    /\ \A v \in V, w \in active \ V : ~Older(w, v)

ScaleDownList ==
    /\ ctl.pc = "list"
    /\ LET active == ActiveByDeployment(ctl.deployment) IN
       \E V \in SUBSET active :
          /\ Oldest(V, active, ctl.count)
          /\ ctl' = IF V = {} THEN NextTarget(ctl.targets)
                    ELSE [pc |-> "down", targets |-> ctl.targets, deployment |-> ctl.deployment,
                          count |-> 0, victims |-> {VictimOf(a) : a \in V}]
    /\ UNCHANGED <<dbVars, placementQ, assignQ, unassignQ, statusQ, apiVars, sched, workerVars,
                   budget, blind>>

\* One unassign per victim; an error skips that victim.
ScaleDownPublish ==
    /\ ctl.pc = "down"
    /\ \E v \in ctl.victims :
          /\ \/ /\ PublishUnassign(v)
                /\ UNCHANGED budget
             \/ /\ Spend("publishError")
                /\ UNCHANGED <<unassignQ, blind>>
          /\ ctl' = IF ctl.victims = {v} THEN NextTarget(ctl.targets)
                    ELSE [ctl EXCEPT !.victims = @ \ {v}]
    /\ UNCHANGED <<dbVars, placementQ, assignQ, statusQ, apiVars, sched, workerVars>>

ControllerRestart ==
    /\ ctl.pc # "idle" /\ Spend("controllerRestart")
    /\ ctl' = CtlIdle
    /\ UNCHANGED <<dbVars, placementQ, assignQ, unassignQ, statusQ, apiVars, sched, workerVars, blind>>

Reconcile == ReconcileOne \/ ScaleUp \/ ScaleDownList \/ ScaleDownPublish

ControllerNext == Tick \/ Reconcile \/ ControllerRestart

=============================================================================
