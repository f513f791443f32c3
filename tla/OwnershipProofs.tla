-------------------------- MODULE OwnershipProofs ---------------------------
(***************************************************************************)
(* Every step of the platform keeps Ownership: first what the proofs of    *)
(* the single actions share, then the steps of the scheduler, of the       *)
(* Deployment controller and of the apiserver, then those of a worker      *)
(* node, of its runtime and of the faults it meets.                        *)
(*                                                                         *)
(* An action can disturb a conjunct of Ownership in two ways: by changing  *)
(* the variables the conjunct is about, or by changing who a runtime id    *)
(* belongs to or where an assignment was placed.  The latter never happens *)
(* (IdsKept and RowsKept), so each action's proof is left with the         *)
(* conjuncts whose own variables it changes; Frame takes care of all the   *)
(* others.                                                                 *)
(***************************************************************************)
EXTENDS Platform, TLAPS, FiniteSetTheorems

\* A step leaves every container with the node and assignment it was created for.
IdsKept ==
    \A r \in RuntimeIds : runtime[r].assignment \in Assignments =>
       /\ runtime'[r].assignment = runtime[r].assignment
       /\ runtime'[r].node = runtime[r].node

\* A step leaves every assignment on the node it was placed on.
RowsKept == \A a \in Assignments, n \in Nodes : PlacedOn(a, n) => PlacedOn(a, n)'

-----------------------------------------------------------------------------
\* NULL is not an id of anything (the UUIDs and runtime ids of the code are
\* never empty).
LEMMA NullIsNoId ==
    NULL \notin Assignments /\ NULL \notin RuntimeIds /\ NULL \notin Nodes /\ NULL \notin DeploymentIds
  BY ClusterAssumption

\* Publishing to a subject leaves the message being handled at its head.
LEMMA AppendFacts ==
    ASSUME NEW S, NEW q \in Seq(S), NEW x \in S
    PROVE  /\ Append(q, x) \in Seq(S)
           /\ Append(q, x) # <<>>
           /\ Len(Append(q, x)) = Len(q) + 1
           /\ \A i \in 1..Len(q) : Append(q, x)[i] = q[i]
           /\ Append(q, x)[Len(q) + 1] = x
           /\ q # <<>> => Head(Append(q, x)) = Head(q)
  <1>1. /\ Append(q, x) \in Seq(S)
        /\ Len(Append(q, x)) = Len(q) + 1
        /\ \A i \in 1..Len(q) : Append(q, x)[i] = q[i]
        /\ Append(q, x)[Len(q) + 1] = x
    OBVIOUS
  <1>2. Append(q, x) # <<>>
    BY <1>1
  <1>3. ASSUME q # <<>> PROVE Head(Append(q, x)) = Head(q)
    <2>1. 1 \in 1..Len(q) /\ Head(q) = q[1]
      BY <1>3
    <2>2. Head(Append(q, x)) = Append(q, x)[1]
      BY <1>1, <1>2
    <2> QED
      BY <1>1, <2>1, <2>2
  <1> QED
    BY <1>1, <1>2, <1>3

\* Acking the message at the head moves the others up.
LEMMA TailFacts ==
    ASSUME NEW S, NEW q \in Seq(S), q # <<>>
    PROVE  /\ Tail(q) \in Seq(S)
           /\ Head(q) \in S
           /\ Head(q) = q[1]
           /\ 1 \in 1..Len(q)
           /\ Len(Tail(q)) = Len(q) - 1
           /\ \A i \in 1..Len(Tail(q)) : i + 1 \in 1..Len(q) /\ Tail(q)[i] = q[i + 1]
  OBVIOUS

\* Spending a bounded event keeps the type of the budget.
LEMMA SpendType ==
    ASSUME NEW e \in Bounded, budget \in [Bounded -> Nat], Spend(e)
    PROVE  budget' \in [Bounded -> Nat]
  BY DEF Spend

\* A step that does not touch the containers of the runtimes keeps IdsKept.
LEMMA SameRuntime == UNCHANGED runtime => IdsKept
  BY DEF IdsKept

\* A step that does not touch the containers table keeps RowsKept.
LEMMA SameRows == UNCHANGED containers => RowsKept
  BY DEF RowsKept, PlacedOn

\* An id owned by an assignment stays owned: what handlers and messages carry
\* does not go stale.
LEMMA OwnedKept ==
    ASSUME IdsKept, NEW r \in RuntimeIds \cup {NULL}, NEW a \in Assignments, NEW n, Owned(r, a, n)
    PROVE  Owned(r, a, n)'
  BY DEF IdsKept, Owned, CreatedFor

\* The conjuncts of Ownership whose own variables a step leaves alone are kept.
LEMMA FrameRows ==
    ASSUME TypeOK, IdsKept, RowsWellFormed, UNCHANGED <<deployments, containers>>
    PROVE  RowsWellFormed'
  <1>1. \A a \in Assignments : containers[a].runtimeID \in RuntimeIds \cup {NULL}
    BY DEF TypeOK, ContainerRow
  <1>2. \A a \in Assignments : Owned(containers[a].runtimeID, a, containers[a].node)'
    BY <1>1, OwnedKept DEF RowsWellFormed
  <1> QED
    BY <1>2 DEF RowsWellFormed, ExistingDeployment

\* The same for each further part of Ownership.
LEMMA FrameRuntimes ==
    ASSUME RuntimesPlaced, RowsKept, UNCHANGED runtime
    PROVE  RuntimesPlaced'
  BY DEF RuntimesPlaced, RowsKept, NoRuntime

LEMMA FrameScheduler ==
    ASSUME SchedulerHolds, RowsKept, UNCHANGED <<sched, placementQ>>
    PROVE  SchedulerHolds'
  BY DEF SchedulerHolds, RowsKept

LEMMA FrameController ==
    ASSUME TypeOK, ControllerHolds, IdsKept, UNCHANGED ctl
    PROVE  ControllerHolds'
  <1>1. ctl.victims \subseteq Victim
    BY DEF TypeOK, CtlState
  <1>2. \A v \in ctl.victims : Owned(v.containerID, v.assignment, v.node)'
    BY <1>1, OwnedKept DEF ControllerHolds, Victim
  <1> QED
    BY <1>2 DEF ControllerHolds

LEMMA FrameDeletes ==
    ASSUME TypeOK, DeletesHold, IdsKept, UNCHANGED deletes
    PROVE  DeletesHold'
  <1>1. \A app \in Apps : deletes[app].victims \subseteq Victim
    BY DEF TypeOK, DeleteState
  <1>2. \A app \in Apps : \A v \in deletes[app].victims : Owned(v.containerID, v.assignment, v.node)'
    BY <1>1, OwnedKept DEF DeletesHold, Victim
  <1> QED
    BY <1>2 DEF DeletesHold

LEMMA FrameAssignments ==
    ASSUME TypeOK, AssignmentsPlaced, RowsKept, UNCHANGED assignQ
    PROVE  AssignmentsPlaced'
  <1>1. \A n \in Nodes : \A i \in 1..Len(assignQ[n]) : assignQ[n][i] \in Assignments
    BY DEF TypeOK
  <1> QED
    BY <1>1 DEF AssignmentsPlaced, RowsKept

LEMMA FrameStatuses ==
    ASSUME TypeOK, StatusesOwned, IdsKept, UNCHANGED statusQ
    PROVE  StatusesOwned'
  <1>1. \A i \in 1..Len(statusQ) : statusQ[i] \in StatusMsg
    BY DEF TypeOK
  <1> QED
    BY <1>1 DEF StatusesOwned, IdsKept, StatusMsg

LEMMA FrameUnassigns ==
    ASSUME TypeOK, UnassignNamesOwnContainer, IdsKept, UNCHANGED unassignQ
    PROVE  UnassignNamesOwnContainer'
  <1>1. \A n \in Nodes : \A i \in 1..Len(unassignQ[n]) : unassignQ[n][i] \in UnassignMsg
    BY DEF TypeOK
  <1> QED
    BY <1>1 DEF UnassignNamesOwnContainer, IdsKept, CreatedFor, UnassignMsg

LEMMA FrameAssignHandlers ==
    ASSUME TypeOK, AssignHandlersHold, IdsKept, UNCHANGED <<assignQ, assignH>>
    PROVE  AssignHandlersHold'
  <1>1. \A n \in Nodes : assignQ[n] # <<>> => Head(assignQ[n]) \in Assignments
    BY DEF TypeOK
  <1>2. \A n \in Nodes : assignH[n].containerID \in RuntimeIds \cup {NULL}
    BY DEF TypeOK, AssignState
  <1>3. \A n \in Nodes : assignH[n].pc # "idle" => Owned(assignH[n].containerID, Head(assignQ[n]), n)'
    BY <1>1, <1>2, OwnedKept DEF AssignHandlersHold
  <1> QED
    BY <1>3 DEF AssignHandlersHold

LEMMA FrameUnassignHandlers ==
    ASSUME UnassignHandlersHold, UNCHANGED <<unassignQ, unassignH>>
    PROVE  UnassignHandlersHold'
  BY DEF UnassignHandlersHold

\* An entry that is owned stays owned while ids keep their owners.
LEMMA EntryKept ==
    ASSUME IdsKept, NEW entry \in TrackedContainer, NEW a \in Assignments, NEW n,
           EntryOwned(entry, a, n)
    PROVE  EntryOwned(entry, a, n)'
  BY DEF EntryOwned, IdsKept, CreatedFor, TrackedContainer, NotTracked

LEMMA FrameTracked ==
    ASSUME TypeOK, TrackedOwned, IdsKept, UNCHANGED tracked
    PROVE  TrackedOwned'
  <1>1. \A n \in Nodes, a \in Assignments : tracked[n][a] \in TrackedContainer
    BY DEF TypeOK
  <1> QED
    BY <1>1, EntryKept DEF TrackedOwned

LEMMA FrameSnapshots ==
    ASSUME TypeOK, SnapshotsOwned, IdsKept, UNCHANGED pollH
    PROVE  SnapshotsOwned'
  <1>1. \A n \in Nodes, a \in Assignments : pollH[n].todo[a] \in TrackedContainer
    BY DEF TypeOK, PollState
  <1> QED
    BY <1>1, EntryKept DEF SnapshotsOwned

LEMMA FramePolls ==
    ASSUME PollsHold, UNCHANGED pollH
    PROVE  PollsHold'
  BY DEF PollsHold, NotTracked

LEMMA FrameRunningRows ==
    ASSUME TypeOK, RunningRowNamesContainer, IdsKept, UNCHANGED containers
    PROVE  RunningRowNamesContainer'
  <1>1. \A a \in Assignments : containers[a].runtimeID \in RuntimeIds \cup {NULL}
    BY DEF TypeOK, ContainerRow
  <1> QED
    BY <1>1 DEF RunningRowNamesContainer, IdsKept, CreatedFor

\* All of them together: an action's proof cites Frame for what it leaves alone.
LEMMA Frame ==
    ASSUME Ownership, IdsKept, RowsKept
    PROVE  /\ UNCHANGED <<deployments, containers>> => RowsWellFormed'
           /\ UNCHANGED runtime => RuntimesPlaced'
           /\ UNCHANGED <<sched, placementQ>> => SchedulerHolds'
           /\ UNCHANGED ctl => ControllerHolds'
           /\ UNCHANGED deletes => DeletesHold'
           /\ UNCHANGED assignQ => AssignmentsPlaced'
           /\ UNCHANGED statusQ => StatusesOwned'
           /\ UNCHANGED unassignQ => UnassignNamesOwnContainer'
           /\ UNCHANGED <<assignQ, assignH>> => AssignHandlersHold'
           /\ UNCHANGED <<unassignQ, unassignH>> => UnassignHandlersHold'
           /\ UNCHANGED tracked => TrackedOwned'
           /\ UNCHANGED pollH => SnapshotsOwned'
           /\ UNCHANGED pollH => PollsHold'
           /\ UNCHANGED containers => RunningRowNamesContainer'
  <1>1. UNCHANGED <<deployments, containers>> => RowsWellFormed'
    BY FrameRows DEF Ownership
  <1>2. UNCHANGED runtime => RuntimesPlaced'
    BY FrameRuntimes DEF Ownership
  <1>3. UNCHANGED <<sched, placementQ>> => SchedulerHolds'
    BY FrameScheduler DEF Ownership
  <1>4. UNCHANGED ctl => ControllerHolds'
    BY FrameController DEF Ownership
  <1>5. UNCHANGED deletes => DeletesHold'
    BY FrameDeletes DEF Ownership
  <1>6. UNCHANGED assignQ => AssignmentsPlaced'
    BY FrameAssignments DEF Ownership
  <1>7. UNCHANGED statusQ => StatusesOwned'
    BY FrameStatuses DEF Ownership
  <1>8. UNCHANGED unassignQ => UnassignNamesOwnContainer'
    BY FrameUnassigns DEF Ownership
  <1>9. UNCHANGED <<assignQ, assignH>> => AssignHandlersHold'
    BY FrameAssignHandlers DEF Ownership
  <1>10. UNCHANGED <<unassignQ, unassignH>> => UnassignHandlersHold'
    BY FrameUnassignHandlers DEF Ownership
  <1>11. UNCHANGED tracked => TrackedOwned'
    BY FrameTracked DEF Ownership
  <1>14. UNCHANGED pollH => SnapshotsOwned'
    BY FrameSnapshots DEF Ownership
  <1>12. UNCHANGED pollH => PollsHold'
    BY FramePolls DEF Ownership
  <1>13. UNCHANGED containers => RunningRowNamesContainer'
    BY FrameRunningRows DEF Ownership
  <1> QED
    BY <1>1, <1>2, <1>3, <1>4, <1>5, <1>6, <1>7, <1>8, <1>9, <1>10, <1>11, <1>12, <1>13, <1>14

-----------------------------------------------------------------------------
(* services/scheduler *)

\* Choosing a node for the head of placement.requested.
LEMMA SelectNodeKeeps == Ownership /\ SelectNode => Ownership'
  <1> SUFFICES ASSUME Ownership, SelectNode PROVE Ownership'
    OBVIOUS
  <1> USE DEF dbVars, apiVars, workerVars
  <1>1. TypeOK /\ placementQ \in Seq(DeploymentIds) /\ placementQ # <<>>
    BY DEF Ownership, TypeOK, SelectNode
  <1>2. placementQ' \in Seq(DeploymentIds) /\ Head(placementQ) \in DeploymentIds
    BY <1>1 DEF SelectNode, AckPlacement
  <1>3. sched' \in SchedState
    BY <1>2 DEF SelectNode, AckPlacement, SchedState, SchedIdle
  <1>4. TypeOK'
    BY <1>1, <1>2, <1>3 DEF TypeOK, SelectNode
  <1>5. SchedulerHolds'
    BY <1>1, <1>2 DEF SelectNode, AckPlacement, SchedIdle, SchedulerHolds
  <1>6. IdsKept /\ RowsKept
    BY SameRuntime, SameRows DEF SelectNode
  <1> QED
    BY <1>4, <1>5, <1>6, Frame DEF Ownership, SelectNode

\* The quota check on behalf of the request being handled.
LEMMA CheckQuotaKeeps == Ownership /\ CheckQuota => Ownership'
  <1> SUFFICES ASSUME Ownership, CheckQuota PROVE Ownership'
    OBVIOUS
  <1> USE DEF dbVars, apiVars, workerVars
  <1>1. TypeOK /\ placementQ \in Seq(DeploymentIds) /\ placementQ # <<>> /\ sched \in SchedState
    BY DEF Ownership, TypeOK, CheckQuota, SchedulerHolds
  <1>2. placementQ' \in Seq(DeploymentIds)
    BY <1>1 DEF CheckQuota, AckPlacement
  <1>3. sched' \in SchedState
    BY <1>1 DEF CheckQuota, AckPlacement, SchedState, SchedIdle
  <1>4. TypeOK'
    BY <1>1, <1>2, <1>3 DEF TypeOK, CheckQuota
  <1>5. SchedulerHolds'
    BY <1>1, <1>2 DEF CheckQuota, AckPlacement, SchedIdle, SchedulerHolds, Ownership, SchedState
  <1>6. IdsKept /\ RowsKept
    BY SameRuntime, SameRows DEF CheckQuota
  <1> QED
    BY <1>4, <1>5, <1>6, Frame DEF Ownership, CheckQuota

\* The trigger's count, taken by the insert that is to follow.
LEMMA EnforceContainerQuotaKeeps == Ownership /\ EnforceContainerQuota => Ownership'
  <1> SUFFICES ASSUME Ownership, EnforceContainerQuota PROVE Ownership'
    OBVIOUS
  <1> USE DEF dbVars, apiVars, workerVars
  <1>1. TypeOK /\ placementQ \in Seq(DeploymentIds) /\ placementQ # <<>> /\ sched \in SchedState
    BY DEF Ownership, TypeOK, EnforceContainerQuota, SchedulerHolds
  <1>2. placementQ' \in Seq(DeploymentIds)
    BY <1>1 DEF EnforceContainerQuota, AckPlacement
  <1>3. sched' \in SchedState
    BY <1>1 DEF EnforceContainerQuota, AckPlacement, SchedState, SchedIdle
  <1>4. TypeOK'
    BY <1>1, <1>2, <1>3 DEF TypeOK, EnforceContainerQuota
  <1>5. SchedulerHolds'
    BY <1>1, <1>2 DEF EnforceContainerQuota, AckPlacement, SchedIdle, SchedulerHolds, Ownership,
                      SchedState
  <1>6. IdsKept /\ RowsKept
    BY SameRuntime, SameRows DEF EnforceContainerQuota
  <1> QED
    BY <1>4, <1>5, <1>6, Frame DEF Ownership, EnforceContainerQuota

\* Inserting the row: a new assignment, which no message or handler names yet.
LEMMA CreateContainerRowKeeps == Ownership /\ CreateContainerRow => Ownership'
  <1> SUFFICES ASSUME Ownership, CreateContainerRow PROVE Ownership'
    OBVIOUS
  <1> USE DEF dbVars, apiVars, workerVars
  <1>1. /\ TypeOK /\ placementQ \in Seq(DeploymentIds) /\ placementQ # <<>> /\ sched \in SchedState
        /\ containers \in [Assignments -> ContainerRow]
        /\ sched.deployment \in DeploymentIds /\ sched.node \in Nodes
    BY DEF Ownership, TypeOK, CreateContainerRow, SchedulerHolds
  <1>2. CASE AckPlacement /\ UNCHANGED containers
    <2>1. placementQ' \in Seq(DeploymentIds) /\ sched' \in SchedState
      BY <1>1, <1>2 DEF AckPlacement, SchedState, SchedIdle
    <2>2. TypeOK'
      BY <1>1, <1>2, <2>1 DEF TypeOK, CreateContainerRow
    <2>3. SchedulerHolds'
      BY <1>2 DEF AckPlacement, SchedIdle, SchedulerHolds
    <2>4. IdsKept /\ RowsKept
      BY <1>2, SameRuntime, SameRows DEF CreateContainerRow
    <2> QED
      BY <1>2, <2>2, <2>3, <2>4, Frame DEF Ownership, CreateContainerRow
  <1>3. ASSUME NEW a \in Assignments, containers[a].status = "none",
               containers' = [containers EXCEPT ![a] =
                  [status |-> "pending", deployment |-> sched.deployment,
                   node |-> sched.node, runtimeID |-> NULL,
                   startedAt |-> 0, stoppedAt |-> FALSE]],
               sched' = [pc |-> "publish", deployment |-> sched.deployment,
                         node |-> sched.node, assignment |-> a],
               UNCHANGED placementQ
        PROVE  Ownership'
    <2>1. containers' \in [Assignments -> ContainerRow] /\ sched' \in SchedState
      BY <1>1, <1>3 DEF ContainerRow, LiveStatus, SchedState
    <2>2. TypeOK'
      BY <1>1, <1>3, <2>1 DEF TypeOK, CreateContainerRow
    <2>3. PlacedOn(a, sched.node)'
      BY <1>1, <1>3 DEF PlacedOn
    <2>4. IdsKept
      BY SameRuntime DEF CreateContainerRow
    <2>5. RowsKept
      BY <1>1, <1>3 DEF RowsKept, PlacedOn
    <2>6. SchedulerHolds'
      BY <1>1, <1>3, <2>3 DEF SchedulerHolds
    <2>7. RowsWellFormed'
      BY <1>1, <1>3 DEF Ownership, RowsWellFormed, Owned, CreatedFor, CreateContainerRow, ExistingDeployment
    <2>8. RunningRowNamesContainer'
      BY <1>1, <1>3 DEF Ownership, RunningRowNamesContainer, CreatedFor, CreateContainerRow
    <2> QED
      BY <1>3, <2>2, <2>4, <2>5, <2>6, <2>7, <2>8, Frame DEF Ownership, CreateContainerRow
  <1> QED
    BY <1>2, <1>3 DEF CreateContainerRow, Mint, NewAssignments

\* Publishing the assignment of the row just inserted, or failing to.
LEMMA PublishAssignmentKeeps == Ownership /\ PublishAssignment => Ownership'
  <1> SUFFICES ASSUME Ownership, PublishAssignment PROVE Ownership'
    OBVIOUS
  <1> USE DEF dbVars, apiVars, workerVars
  <1>1. /\ TypeOK /\ placementQ \in Seq(DeploymentIds) /\ placementQ # <<>>
        /\ assignQ \in [Nodes -> Seq(Assignments)] /\ budget \in [Bounded -> Nat]
        /\ sched.node \in Nodes /\ sched.assignment \in Assignments
        /\ PlacedOn(sched.assignment, sched.node)
    BY DEF Ownership, TypeOK, PublishAssignment, SchedulerHolds
  <1>2. placementQ' \in Seq(DeploymentIds) /\ sched' \in SchedState
    BY <1>1 DEF PublishAssignment, AckPlacement, SchedState, SchedIdle
  <1>3. SchedulerHolds'
    BY DEF PublishAssignment, AckPlacement, SchedIdle, SchedulerHolds
  <1>4. IdsKept /\ RowsKept /\ UNCHANGED containers
    BY SameRuntime, SameRows DEF PublishAssignment
  <1>5. PICK a \in Assignments, m \in Nodes : a = sched.assignment /\ m = sched.node
    BY <1>1
  <1>6. CASE /\ assignQ' = [assignQ EXCEPT ![sched.node] = Append(@, sched.assignment)]
             /\ UNCHANGED budget
    <2>1. assignQ' \in [Nodes -> Seq(Assignments)]
      BY <1>1, <1>6
    <2>2. TypeOK'
      BY <1>1, <1>2, <1>6, <2>1 DEF TypeOK, PublishAssignment
    <2>3. AssignmentsPlaced'
      <3> SUFFICES ASSUME NEW n \in Nodes, NEW i \in 1..Len(assignQ'[n])
                   PROVE  PlacedOn(assignQ[n][i], n)'
        BY DEF AssignmentsPlaced
      <3>1. CASE n = m /\ i = Len(assignQ[n]) + 1
        <4>1. assignQ'[n][i] = a
          BY <1>1, <1>5, <1>6, <3>1
        <4>2. PlacedOn(a, m)'
          BY <1>1, <1>4, <1>5 DEF RowsKept
        <4> QED
          BY <3>1, <4>1, <4>2 DEF PlacedOn
      <3>2. CASE n # m \/ i # Len(assignQ[n]) + 1
        <4>1. i \in 1..Len(assignQ[n]) /\ assignQ'[n][i] = assignQ[n][i]
          BY <1>1, <1>5, <1>6, <3>2
        <4> QED
          BY <1>1, <1>4, <4>1 DEF Ownership, AssignmentsPlaced, PlacedOn
      <3> QED
        BY <3>1, <3>2
    <2>4. AssignHandlersHold'
      <3>1. \A n \in Nodes : assignQ[n] # <<>> =>
               assignQ'[n] # <<>> /\ Head(assignQ'[n]) = Head(assignQ[n])
        BY <1>1, <1>6, AppendFacts
      <3>2. \A n \in Nodes : assignH'[n] = assignH[n] /\ runtime' = runtime
        BY DEF PublishAssignment
      <3> QED
        BY <3>1, <3>2 DEF Ownership, AssignHandlersHold, Owned, CreatedFor
    <2> QED
      BY <1>3, <1>4, <2>2, <2>3, <2>4, Frame DEF Ownership, PublishAssignment
  <1>7. CASE Spend("publishError") /\ UNCHANGED assignQ
    <2>1. budget' \in [Bounded -> Nat]
      BY <1>1, <1>7, SpendType DEF Bounded
    <2>2. TypeOK'
      BY <1>1, <1>2, <1>7, <2>1 DEF TypeOK, PublishAssignment
    <2> QED
      BY <1>3, <1>4, <1>7, <2>2, Frame DEF Ownership, PublishAssignment
  <1> QED
    BY <1>6, <1>7 DEF PublishAssignment

\* Recording a status: the id a worker reports was created for that assignment,
\* and on the node the assignment's row names.
LEMMA HandleStatusKeeps == Ownership /\ HandleStatus => Ownership'
  <1> SUFFICES ASSUME Ownership, HandleStatus PROVE Ownership'
    OBVIOUS
  <1> USE DEF dbVars, apiVars, workerVars
  <1> DEFINE msg == Head(statusQ)
             a == msg.assignment
             row == containers[a]
  <1>1. /\ TypeOK /\ statusQ \in Seq(StatusMsg) /\ statusQ # <<>>
        /\ containers \in [Assignments -> ContainerRow] /\ clock \in Nat
    BY DEF Ownership, TypeOK, HandleStatus
  <1>2. /\ statusQ' \in Seq(StatusMsg) /\ msg \in StatusMsg /\ msg = statusQ[1] /\ 1 \in 1..Len(statusQ)
        /\ Len(statusQ') = Len(statusQ) - 1
        /\ \A i \in 1..Len(statusQ') : i + 1 \in 1..Len(statusQ) /\ statusQ'[i] = statusQ[i + 1]
    BY <1>1, TailFacts DEF HandleStatus
  <1>3. /\ a \in Assignments /\ msg.containerID \in RuntimeIds \cup {NULL} /\ msg.status \in LiveStatus
        /\ row \in ContainerRow
    BY <1>1, <1>2 DEF StatusMsg
  <1>4. /\ msg.containerID # NULL => runtime[msg.containerID].assignment = a
        /\ msg.status = "running" => msg.containerID # NULL
    BY <1>2 DEF Ownership, StatusesOwned
  <1>5. IdsKept /\ UNCHANGED runtime
    BY SameRuntime DEF HandleStatus
  <1>6. StatusesOwned'
    BY <1>2, <1>5 DEF Ownership, StatusesOwned
  <1>7. CASE row.status \notin LiveStatus
    <2>1. UNCHANGED <<containers, clock>>
      BY <1>7 DEF HandleStatus
    <2>2. TypeOK'
      BY <1>1, <1>2, <2>1 DEF TypeOK, HandleStatus
    <2> QED
      BY <1>5, <1>6, <2>1, <2>2, SameRows, Frame DEF Ownership, HandleStatus
  <1>8. CASE row.status \in LiveStatus
    <2>1. UpdateStatus(a, msg.status, msg.containerID)
      BY <1>8 DEF HandleStatus
    <2>2. PICK new :
             /\ containers' = [containers EXCEPT ![a] = new]
             /\ new = [status |-> msg.status, deployment |-> row.deployment, node |-> row.node,
                       runtimeID |-> IF msg.containerID = NULL THEN row.runtimeID ELSE msg.containerID,
                       startedAt |-> IF msg.status = "running" /\ row.startedAt = 0 THEN clock + 1
                                     ELSE row.startedAt,
                       stoppedAt |-> row.stoppedAt \/ msg.status \in {"crashed", "stopped"}]
      BY <2>1 DEF UpdateStatus
    <2>3. clock' \in Nat
      BY <1>1, <2>1 DEF UpdateStatus
    <2>4. new \in ContainerRow
      BY <1>1, <1>3, <2>2 DEF ContainerRow
    <2>5. TypeOK'
      BY <1>1, <1>2, <2>2, <2>3, <2>4 DEF TypeOK, HandleStatus
    <2>6. row.node \in Nodes /\ row.deployment \in DeploymentIds /\ Owned(row.runtimeID, a, row.node)
      BY <1>3, <1>8 DEF Ownership, RowsWellFormed
    <2>7. msg.containerID # NULL => CreatedFor(msg.containerID, a, row.node)
      BY <1>3, <1>4, <1>8, NullIsNoId DEF Ownership, RuntimesPlaced, NoRuntime, PlacedOn, CreatedFor
    <2>8. Owned(new.runtimeID, a, new.node)
      BY <2>2, <2>6, <2>7 DEF Owned
    <2>9. RowsKept
      BY <1>1, <1>3, <1>8, <2>2 DEF RowsKept, PlacedOn, LiveStatus
    <2>10. RowsWellFormed'
      <3>1. UNCHANGED deployments
        BY DEF HandleStatus
      <3>2. /\ \A b \in Assignments : b # a => containers'[b] = containers[b]
            /\ containers'[a] = new /\ new.node = row.node /\ new.deployment = row.deployment
        BY <1>1, <1>3, <2>2
      <3>3. \A b \in Assignments : Owned(containers[b].runtimeID, b, containers[b].node)'
        BY <1>5, <2>8, <3>2 DEF Ownership, RowsWellFormed, Owned, CreatedFor
      <3>4. \A b \in Assignments : containers'[b].status \in LiveStatus =>
               containers'[b].node \in Nodes /\ containers'[b].deployment \in DeploymentIds
        BY <2>6, <3>2 DEF Ownership, RowsWellFormed
      <3> QED
        BY <3>1, <3>3, <3>4 DEF Ownership, RowsWellFormed, ExistingDeployment
    <2>11. new.status = "running" => new.startedAt # 0 /\ new.runtimeID # NULL
      BY <1>1, <1>3, <1>4, <2>2 DEF ContainerRow
    <2>12. RunningRowNamesContainer'
      BY <1>1, <1>3, <1>5, <2>2, <2>8, <2>11
         DEF Ownership, RunningRowNamesContainer, Owned, CreatedFor
    <2> QED
      BY <1>5, <1>6, <2>5, <2>9, <2>10, <2>12, Frame DEF Ownership, HandleStatus
  <1> QED
    BY <1>7, <1>8

\* The node registry only writes nodes.status.
LEMMA RegistryKeeps ==
    ASSUME NEW n \in Nodes, Ownership, SweepUnreachable(n) \/ HandleHeartbeat(n)
    PROVE  Ownership'
  <1> USE DEF dbVars, apiVars, workerVars
  <1>1. TypeOK /\ nodes \in [Nodes -> {"healthy", "unreachable"}] /\ budget \in [Bounded -> Nat]
    BY DEF Ownership, TypeOK
  <1>2. nodes' \in [Nodes -> {"healthy", "unreachable"}] /\ budget' \in [Bounded -> Nat]
    BY <1>1, SpendType DEF SweepUnreachable, HandleHeartbeat, Bounded
  <1>3. TypeOK'
    BY <1>1, <1>2 DEF TypeOK, SweepUnreachable, HandleHeartbeat
  <1>4. IdsKept /\ RowsKept
    BY SameRuntime, SameRows DEF SweepUnreachable, HandleHeartbeat
  <1> QED
    BY <1>3, <1>4, Frame DEF Ownership, SweepUnreachable, HandleHeartbeat

\* A second delivery of the request being handled, behind the others.
LEMMA RedeliverPlacementKeeps == Ownership /\ RedeliverPlacement => Ownership'
  <1> SUFFICES ASSUME Ownership, RedeliverPlacement PROVE Ownership'
    OBVIOUS
  <1> USE DEF dbVars, apiVars, workerVars
  <1>1. /\ TypeOK /\ placementQ \in Seq(DeploymentIds) /\ placementQ # <<>>
        /\ budget \in [Bounded -> Nat]
    BY DEF Ownership, TypeOK, RedeliverPlacement, SchedulerHolds
  <1>2. placementQ' \in Seq(DeploymentIds) /\ placementQ' # <<>>
    BY <1>1, TailFacts, AppendFacts DEF RedeliverPlacement, Redelivered
  <1>3. budget' \in [Bounded -> Nat]
    BY <1>1, SpendType DEF RedeliverPlacement, Bounded
  <1>4. TypeOK'
    BY <1>1, <1>2, <1>3 DEF TypeOK, RedeliverPlacement
  <1>5. IdsKept /\ RowsKept /\ UNCHANGED containers
    BY SameRuntime, SameRows DEF RedeliverPlacement
  <1>6. SchedulerHolds'
    BY <1>2, <1>5 DEF Ownership, SchedulerHolds, RedeliverPlacement, PlacedOn
  <1> QED
    BY <1>4, <1>5, <1>6, Frame DEF Ownership, RedeliverPlacement

\* A second delivery of a status.
LEMMA RedeliverStatusKeeps == Ownership /\ RedeliverStatus => Ownership'
  <1> SUFFICES ASSUME Ownership, RedeliverStatus PROVE Ownership'
    OBVIOUS
  <1> USE DEF dbVars, apiVars, workerVars
  <1>1. /\ TypeOK /\ statusQ \in Seq(StatusMsg) /\ statusQ # <<>> /\ budget \in [Bounded -> Nat]
    BY DEF Ownership, TypeOK, RedeliverStatus
  <1>2. /\ Head(statusQ) \in StatusMsg /\ Head(statusQ) = statusQ[1] /\ 1 \in 1..Len(statusQ)
        /\ statusQ' = Append(statusQ, Head(statusQ))
    BY <1>1, TailFacts DEF RedeliverStatus, Redelivered
  <1>3. budget' \in [Bounded -> Nat] /\ statusQ' \in Seq(StatusMsg)
    BY <1>1, <1>2, SpendType, AppendFacts DEF RedeliverStatus, Bounded
  <1>4. TypeOK'
    BY <1>1, <1>3 DEF TypeOK, RedeliverStatus
  <1>5. IdsKept /\ RowsKept /\ UNCHANGED runtime
    BY SameRuntime, SameRows DEF RedeliverStatus
  <1>6. \A i \in 1..Len(statusQ') : \E j \in 1..Len(statusQ) : statusQ'[i] = statusQ[j]
    BY <1>1, <1>2
  <1>7. StatusesOwned'
    BY <1>5, <1>6 DEF Ownership, StatusesOwned
  <1> QED
    BY <1>4, <1>5, <1>7, Frame DEF Ownership, RedeliverStatus

\* A restart between two statements of handlePlacement.
LEMMA SchedulerRestartKeeps == Ownership /\ SchedulerRestart => Ownership'
  <1> SUFFICES ASSUME Ownership, SchedulerRestart PROVE Ownership'
    OBVIOUS
  <1> USE DEF dbVars, apiVars, workerVars
  <1>1. TypeOK /\ budget \in [Bounded -> Nat]
    BY DEF Ownership, TypeOK
  <1>2. budget' \in [Bounded -> Nat] /\ sched' \in SchedState
    BY <1>1, SpendType DEF SchedulerRestart, Bounded, SchedIdle, SchedState
  <1>3. TypeOK'
    BY <1>1, <1>2 DEF TypeOK, SchedulerRestart
  <1>4. IdsKept /\ RowsKept
    BY SameRuntime, SameRows DEF SchedulerRestart
  <1>5. SchedulerHolds'
    BY DEF SchedulerRestart, SchedulerHolds, SchedIdle
  <1> QED
    BY <1>3, <1>4, <1>5, Frame DEF Ownership, SchedulerRestart

\* Every step of services/scheduler keeps Ownership.
LEMMA SchedulerKeeps == Ownership /\ SchedulerNext => Ownership'
  BY SelectNodeKeeps, CheckQuotaKeeps, EnforceContainerQuotaKeeps, CreateContainerRowKeeps,
     PublishAssignmentKeeps,
     HandleStatusKeeps, RegistryKeeps, RedeliverPlacementKeeps, RedeliverStatusKeeps,
     SchedulerRestartKeeps DEF SchedulerNext

-----------------------------------------------------------------------------
(* services/controller-manager *)

\* The controller's state between two targets is well formed and holds no victim.
LEMMA NextTargetType ==
    ASSUME NEW T \in SUBSET Target
    PROVE  /\ NextTarget(T) \in CtlState /\ NextTarget(T).pc # "up"
           /\ NextTarget(T).victims = {}
  BY DEF NextTarget, CtlIdle, CtlState

\* The number of a deployment's active containers is a number.
LEMMA ActiveCount == \A d : Cardinality(ActiveByDeployment(d)) \in Nat
  BY ClusterAssumption, FS_Subset, FS_CardinalityType DEF ActiveByDeployment

\* Starting a tick: every target ListActive returns is a target of the type.
LEMMA TickListKeeps ==
    ASSUME Ownership, TickList, budget' \in [Bounded -> Nat]
    PROVE  Ownership'
  <1> USE DEF dbVars, apiVars, workerVars
  <1>1. /\ TypeOK /\ applications \in [Apps -> AppRow]
        /\ \A d \in DeploymentIds : ExistingDeployment(d) => deployments[d].app \in Apps
    BY DEF Ownership, TypeOK, RowsWellFormed
  <1>2. ListActive \in SUBSET Target
    BY <1>1 DEF ListActive, Target, IsLatest, AppRow
  <1>3. ctl' \in CtlState /\ ctl'.pc # "up" /\ ctl'.victims = {}
    BY <1>2, NextTargetType DEF TickList
  <1>4. TypeOK'
    BY <1>1, <1>3 DEF TypeOK, TickList
  <1>5. IdsKept /\ RowsKept
    BY SameRuntime, SameRows DEF TickList
  <1>6. ControllerHolds'
    BY <1>3 DEF ControllerHolds
  <1> QED
    BY <1>4, <1>5, <1>6, Frame DEF Ownership, TickList

\* A tick, at the cost of one, is the listing of the targets.
LEMMA TickKeeps == Ownership /\ Tick => Ownership'
  <1> SUFFICES ASSUME Ownership, Tick PROVE Ownership'
    OBVIOUS
  <1>1. budget' \in [Bounded -> Nat]
    BY SpendType DEF Ownership, TypeOK, Tick, Bounded
  <1> QED
    BY <1>1, TickListKeeps DEF Tick

\* Comparing the replicas listed with the containers counted.
LEMMA ReconcileOneKeeps == Ownership /\ ReconcileOne => Ownership'
  <1> SUFFICES ASSUME Ownership, ReconcileOne PROVE Ownership'
    OBVIOUS
  <1> USE DEF dbVars, apiVars, workerVars
  <1>1. TypeOK /\ ctl \in CtlState
    BY DEF Ownership, TypeOK
  <1>2. PICK t \in ctl.targets :
          LET active == Cardinality(ActiveByDeployment(t.deployment))
              rest   == ctl.targets \ {t}
          IN  \/ /\ active < t.replicas
                 /\ ctl' = [pc |-> "up", targets |-> rest, deployment |-> t.deployment,
                            count |-> t.replicas - active, victims |-> {}]
              \/ /\ active > t.replicas
                 /\ ctl' = [pc |-> "list", targets |-> rest, deployment |-> t.deployment,
                            count |-> active - t.replicas, victims |-> {}]
              \/ ctl' = NextTarget(rest)
    BY DEF ReconcileOne
  <1>3. t \in Target /\ ctl.targets \ {t} \in SUBSET Target
    BY <1>1, <1>2 DEF CtlState
  <1>4. t.deployment \in DeploymentIds /\ t.replicas \in Nat
    BY <1>3 DEF Target
  <1>5. PICK active \in Nat : active = Cardinality(ActiveByDeployment(t.deployment))
    BY ActiveCount
  <1>6. ctl' \in CtlState /\ ctl'.victims = {}
    BY <1>2, <1>3, <1>4, <1>5, NextTargetType DEF CtlState
  <1>7. ctl'.pc = "up" => ctl'.deployment \in DeploymentIds /\ ctl'.count > 0
    BY <1>2, <1>3, <1>4, <1>5, NextTargetType
  <1>8. TypeOK'
    BY <1>1, <1>6 DEF TypeOK, ReconcileOne
  <1>9. IdsKept /\ RowsKept
    BY SameRuntime, SameRows DEF ReconcileOne
  <1>10. ControllerHolds'
    BY <1>6, <1>7 DEF ControllerHolds
  <1> QED
    BY <1>8, <1>9, <1>10, Frame DEF Ownership, ReconcileOne

\* Requesting one missing replica, or giving the deployment up.
LEMMA ScaleUpKeeps == Ownership /\ ScaleUp => Ownership'
  <1> SUFFICES ASSUME Ownership, ScaleUp PROVE Ownership'
    OBVIOUS
  <1> USE DEF dbVars, apiVars, workerVars
  <1>1. /\ TypeOK /\ ctl \in CtlState /\ placementQ \in Seq(DeploymentIds)
        /\ budget \in [Bounded -> Nat]
        /\ ctl.deployment \in DeploymentIds /\ ctl.count > 0 /\ ctl.pc = "up"
        /\ \A v \in ctl.victims : Owned(v.containerID, v.assignment, v.node)
    BY DEF Ownership, TypeOK, ControllerHolds, ScaleUp
  <1>2. /\ placementQ' \in Seq(DeploymentIds)
        /\ placementQ # <<>> => placementQ' # <<>>
    BY <1>1, AppendFacts DEF ScaleUp
  <1>3. budget' \in [Bounded -> Nat]
    BY <1>1, SpendType DEF ScaleUp, Bounded
  <1>4. ctl.targets \in SUBSET Target /\ ctl.count \in Nat /\ ctl.victims \in SUBSET Victim
    BY <1>1 DEF CtlState
  <1>5. IdsKept /\ RowsKept /\ UNCHANGED <<runtime, containers, sched>>
    BY SameRuntime, SameRows DEF ScaleUp
  <1>6. ctl' = NextTarget(ctl.targets) \/ (ctl.count # 1 /\ ctl' = [ctl EXCEPT !.count = @ - 1])
    BY DEF ScaleUp
  <1>7. ctl' \in CtlState /\ ControllerHolds'
    <2>1. CASE ctl' = NextTarget(ctl.targets)
      BY <1>4, <2>1, NextTargetType DEF ControllerHolds
    <2>2. CASE ctl.count # 1 /\ ctl' = [ctl EXCEPT !.count = @ - 1]
      <3>1. /\ ctl' \in CtlState /\ ctl'.deployment = ctl.deployment
            /\ ctl'.count > 0 /\ ctl'.victims = ctl.victims
        BY <1>1, <1>4, <2>2 DEF CtlState
      <3> QED
        BY <1>1, <1>5, <3>1 DEF ControllerHolds, Owned, CreatedFor
    <2> QED
      BY <1>6, <2>1, <2>2
  <1>8. TypeOK'
    BY <1>1, <1>2, <1>3, <1>7 DEF TypeOK, ScaleUp
  <1>9. SchedulerHolds'
    BY <1>2, <1>5 DEF Ownership, SchedulerHolds, PlacedOn
  <1> QED
    BY <1>5, <1>7, <1>8, <1>9, Frame DEF Ownership, ScaleUp

\* A row read with its runtime id names a container of its own.
LEMMA VictimOwned ==
    ASSUME Ownership, NEW a \in Assignments, containers[a].status \in LiveStatus
    PROVE  /\ VictimOf(a) \in Victim
           /\ Owned(VictimOf(a).containerID, VictimOf(a).assignment, VictimOf(a).node)
  <1>1. containers[a] \in ContainerRow
    BY DEF Ownership, TypeOK
  <1>2. containers[a].node \in Nodes /\ Owned(containers[a].runtimeID, a, containers[a].node)
    BY DEF Ownership, RowsWellFormed
  <1> QED
    BY <1>1, <1>2 DEF VictimOf, Victim, ContainerRow

\* Choosing which containers to unassign.
LEMMA ScaleDownListKeeps == Ownership /\ ScaleDownList => Ownership'
  <1> SUFFICES ASSUME Ownership, ScaleDownList PROVE Ownership'
    OBVIOUS
  <1> USE DEF dbVars, apiVars, workerVars
  <1>1. TypeOK /\ ctl \in CtlState
    BY DEF Ownership, TypeOK
  <1>2. PICK V \in SUBSET ActiveByDeployment(ctl.deployment) :
          ctl' = IF V = {} THEN NextTarget(ctl.targets)
                 ELSE [pc |-> "down", targets |-> ctl.targets, deployment |-> ctl.deployment,
                       count |-> 0, victims |-> {VictimOf(a) : a \in V}]
    BY DEF ScaleDownList
  <1>3. \A a \in V : a \in Assignments /\ containers[a].status \in LiveStatus
    BY <1>2 DEF ActiveByDeployment, ActiveContainer, LiveStatus
  <1>4. IdsKept /\ RowsKept /\ UNCHANGED <<runtime, containers>>
    BY SameRuntime, SameRows DEF ScaleDownList
  <1>5. \A v \in {VictimOf(a) : a \in V} :
          v \in Victim /\ Owned(v.containerID, v.assignment, v.node)
    BY <1>3, VictimOwned
  <1>6. ctl' \in CtlState /\ ctl'.pc # "up"
    BY <1>1, <1>2, <1>5, NextTargetType DEF CtlState
  <1>7. ctl'.victims = {} \/ ctl'.victims = {VictimOf(a) : a \in V}
    BY <1>1, <1>2, NextTargetType DEF CtlState
  <1>8. TypeOK'
    BY <1>1, <1>6 DEF TypeOK, ScaleDownList
  <1>9. ControllerHolds'
    BY <1>4, <1>5, <1>6, <1>7 DEF ControllerHolds, Owned, CreatedFor
  <1> QED
    BY <1>4, <1>8, <1>9, Frame DEF Ownership, ScaleDownList

\* Publishing an unassign for an owned victim.
LEMMA PublishUnassignKeeps ==
    ASSUME Ownership, NEW v \in Victim, Owned(v.containerID, v.assignment, v.node),
           PublishUnassign(v), UNCHANGED <<runtime, unassignH>>
    PROVE  /\ unassignQ' \in [Nodes -> Seq(UnassignMsg)] /\ blind' \subseteq Assignments
           /\ UnassignNamesOwnContainer' /\ UnassignHandlersHold'
  <1> DEFINE m == [assignment |-> v.assignment, containerID |-> v.containerID]
  <1>1. unassignQ \in [Nodes -> Seq(UnassignMsg)] /\ blind \subseteq Assignments
    BY DEF Ownership, TypeOK
  <1>2. m \in UnassignMsg /\ v.node \in Nodes /\ v.assignment \in Assignments
    BY DEF UnassignMsg, Victim
  <1>3. unassignQ' = [unassignQ EXCEPT ![v.node] = Append(@, m)]
    BY DEF PublishUnassign
  <1>4. unassignQ' \in [Nodes -> Seq(UnassignMsg)] /\ blind' \subseteq Assignments
    BY <1>1, <1>2, <1>3 DEF PublishUnassign
  <1>5. \A n \in Nodes : unassignQ[n] # <<>> => unassignQ'[n] # <<>>
    BY <1>1, <1>2, <1>3, AppendFacts
  <1>6. UnassignHandlersHold'
    BY <1>5 DEF Ownership, UnassignHandlersHold
  <1>7. UnassignNamesOwnContainer'
    <2> SUFFICES ASSUME NEW n \in Nodes, NEW i \in 1..Len(unassignQ'[n]),
                        unassignQ'[n][i].containerID # NULL
                 PROVE  CreatedFor(unassignQ[n][i].containerID, unassignQ[n][i].assignment, n)'
      BY DEF UnassignNamesOwnContainer
    <2>1. CASE n = v.node /\ i = Len(unassignQ[n]) + 1
      <3>1. unassignQ'[n][i] = m
        BY <1>1, <1>2, <1>3, <2>1
      <3> QED
        BY <2>1, <3>1 DEF Owned, CreatedFor
    <2>2. CASE n # v.node \/ i # Len(unassignQ[n]) + 1
      <3>1. i \in 1..Len(unassignQ[n]) /\ unassignQ'[n][i] = unassignQ[n][i]
        BY <1>1, <1>2, <1>3, <2>2
      <3> QED
        BY <3>1 DEF Ownership, UnassignNamesOwnContainer, CreatedFor
    <2> QED
      BY <2>1, <2>2
  <1> QED
    BY <1>4, <1>6, <1>7

\* Unassigning one victim, or skipping it.
LEMMA ScaleDownPublishKeeps == Ownership /\ ScaleDownPublish => Ownership'
  <1> SUFFICES ASSUME Ownership, ScaleDownPublish PROVE Ownership'
    OBVIOUS
  <1> USE DEF dbVars, apiVars, workerVars
  <1>1. TypeOK /\ ctl \in CtlState /\ budget \in [Bounded -> Nat]
    BY DEF Ownership, TypeOK
  <1>2. PICK v \in ctl.victims :
          /\ \/ PublishUnassign(v) /\ UNCHANGED budget
             \/ Spend("publishError") /\ UNCHANGED <<unassignQ, blind>>
          /\ ctl' = IF ctl.victims = {v} THEN NextTarget(ctl.targets)
                    ELSE [ctl EXCEPT !.victims = @ \ {v}]
    BY DEF ScaleDownPublish
  <1>3. /\ v \in Victim /\ ctl.victims \subseteq Victim /\ ctl.targets \in SUBSET Target
        /\ ctl.pc = "down"
    BY <1>1, <1>2 DEF CtlState, ScaleDownPublish
  <1>4. Owned(v.containerID, v.assignment, v.node)
    BY <1>2 DEF Ownership, ControllerHolds
  <1>5. IdsKept /\ RowsKept /\ UNCHANGED <<runtime, containers, unassignH>>
    BY SameRuntime, SameRows DEF ScaleDownPublish
  <1>6. budget' \in [Bounded -> Nat]
    BY <1>1, <1>2, SpendType DEF Bounded
  <1>7. /\ unassignQ' \in [Nodes -> Seq(UnassignMsg)] /\ blind' \subseteq Assignments
        /\ UnassignNamesOwnContainer' /\ UnassignHandlersHold'
    <2>1. CASE PublishUnassign(v)
      BY <1>3, <1>4, <1>5, <2>1, PublishUnassignKeeps
    <2>2. CASE UNCHANGED <<unassignQ, blind>>
      BY <1>1, <1>5, <2>2, Frame DEF Ownership, TypeOK
    <2> QED
      BY <1>2, <2>1, <2>2
  <1>8. ctl' \in CtlState /\ ctl'.pc # "up" /\ ctl'.victims \subseteq ctl.victims
    BY <1>1, <1>2, <1>3, NextTargetType DEF CtlState
  <1>9. TypeOK'
    BY <1>1, <1>6, <1>7, <1>8 DEF TypeOK, ScaleDownPublish
  <1>10. ControllerHolds'
    BY <1>5, <1>8 DEF Ownership, ControllerHolds, Owned, CreatedFor
  <1> QED
    BY <1>5, <1>7, <1>9, <1>10, Frame DEF Ownership, ScaleDownPublish

\* A restart in the middle of a tick.
LEMMA ControllerRestartKeeps == Ownership /\ ControllerRestart => Ownership'
  <1> SUFFICES ASSUME Ownership, ControllerRestart PROVE Ownership'
    OBVIOUS
  <1> USE DEF dbVars, apiVars, workerVars
  <1>1. TypeOK /\ budget \in [Bounded -> Nat]
    BY DEF Ownership, TypeOK
  <1>2. budget' \in [Bounded -> Nat] /\ ctl' \in CtlState
    BY <1>1, SpendType DEF ControllerRestart, Bounded, CtlIdle, CtlState
  <1>3. TypeOK'
    BY <1>1, <1>2 DEF TypeOK, ControllerRestart
  <1>4. IdsKept /\ RowsKept
    BY SameRuntime, SameRows DEF ControllerRestart
  <1>5. ControllerHolds'
    BY DEF ControllerRestart, ControllerHolds, CtlIdle
  <1> QED
    BY <1>3, <1>4, <1>5, Frame DEF Ownership, ControllerRestart

\* Every step of the Deployment controller keeps Ownership.
LEMMA ControllerKeeps == Ownership /\ ControllerNext => Ownership'
  BY TickKeeps, ReconcileOneKeeps, ScaleUpKeeps, ScaleDownListKeeps, ScaleDownPublishKeeps,
     ControllerRestartKeeps DEF ControllerNext, Reconcile

-----------------------------------------------------------------------------
(* services/apiserver *)

\* Creating an application or changing its replicas writes applications only.
LEMMA ApplicationsKeep ==
    ASSUME Ownership, NEW app \in Apps,
           CreateApplication(app) \/ \E replicas \in 0..MaxReplicas : ScaleApplication(app, replicas)
    PROVE  Ownership'
  <1> USE DEF dbVars, apiVars, workerVars
  <1>1. TypeOK /\ applications \in [Apps -> AppRow] /\ budget \in [Bounded -> Nat]
    BY DEF Ownership, TypeOK
  <1>2. budget' \in [Bounded -> Nat]
    BY <1>1, SpendType DEF CreateApplication, ScaleApplication, Bounded
  <1>3. applications' \in [Apps -> AppRow]
    BY <1>1, ClusterAssumption DEF CreateApplication, ScaleApplication, AppRow
  <1>4. TypeOK'
    BY <1>1, <1>2, <1>3 DEF TypeOK, CreateApplication, ScaleApplication
  <1>5. IdsKept /\ RowsKept
    BY SameRuntime, SameRows DEF CreateApplication, ScaleApplication
  <1> QED
    BY <1>4, <1>5, Frame DEF Ownership, CreateApplication, ScaleApplication

\* The deploy transaction inserts a deployment of the application.
LEMMA DeployTxKeeps == ASSUME NEW app \in Apps PROVE Ownership /\ DeployTx(app) => Ownership'
  <1> SUFFICES ASSUME Ownership, DeployTx(app) PROVE Ownership'
    OBVIOUS
  <1> USE DEF dbVars, apiVars, workerVars
  <1>1. /\ TypeOK /\ deployments \in [DeploymentIds -> DeploymentRow]
        /\ deploys \in [DeploymentIds -> {"none", "publish", "fail"}]
    BY DEF Ownership, TypeOK
  <1>2. PICK d \in DeploymentIds, rev \in 1..Cardinality(DeploymentIds) :
          /\ deployments' = [deployments EXCEPT ![d] =
                [status |-> "pending", app |-> app, revision |-> rev]]
          /\ deploys' = [deploys EXCEPT ![d] = "publish"]
    BY DEF DeployTx, Mint, NewDeployments
  <1>3. rev \in Nat
    BY <1>2, ClusterAssumption, FS_CardinalityType
  <1>4. /\ deployments' \in [DeploymentIds -> DeploymentRow]
        /\ deploys' \in [DeploymentIds -> {"none", "publish", "fail"}]
    BY <1>1, <1>2, <1>3 DEF DeploymentRow
  <1>5. TypeOK'
    BY <1>1, <1>4 DEF TypeOK, DeployTx
  <1>6. IdsKept /\ RowsKept /\ UNCHANGED <<containers, runtime>>
    BY SameRuntime, SameRows DEF DeployTx
  <1>7. RowsWellFormed'
    BY <1>1, <1>2, <1>6 DEF Ownership, RowsWellFormed, ExistingDeployment, Owned, CreatedFor
  <1> QED
    BY <1>5, <1>6, <1>7, Frame DEF Ownership, DeployTx

\* Publishing the placement request, or going on to record the failure.
LEMMA PublishPlacementKeeps ==
    ASSUME NEW d \in DeploymentIds PROVE Ownership /\ PublishPlacement(d) => Ownership'
  <1> SUFFICES ASSUME Ownership, PublishPlacement(d) PROVE Ownership'
    OBVIOUS
  <1> USE DEF dbVars, apiVars, workerVars
  <1>1. /\ TypeOK /\ placementQ \in Seq(DeploymentIds) /\ budget \in [Bounded -> Nat]
        /\ deploys \in [DeploymentIds -> {"none", "publish", "fail"}]
    BY DEF Ownership, TypeOK
  <1>2. /\ placementQ' \in Seq(DeploymentIds)
        /\ placementQ # <<>> => placementQ' # <<>>
    <2>1. placementQ' = placementQ \/ placementQ' = Append(placementQ, d)
      BY DEF PublishPlacement
    <2> QED
      BY <1>1, <2>1, AppendFacts
  <1>3. /\ budget' \in [Bounded -> Nat]
        /\ deploys' \in [DeploymentIds -> {"none", "publish", "fail"}]
    BY <1>1, SpendType DEF PublishPlacement, Bounded
  <1>4. TypeOK'
    BY <1>1, <1>2, <1>3 DEF TypeOK, PublishPlacement
  <1>5. IdsKept /\ RowsKept /\ UNCHANGED <<containers, sched>>
    BY SameRuntime, SameRows DEF PublishPlacement
  <1>6. SchedulerHolds'
    BY <1>2, <1>5 DEF Ownership, SchedulerHolds, PlacedOn
  <1> QED
    BY <1>4, <1>5, <1>6, Frame DEF Ownership, PublishPlacement

\* Recording that the deploy failed.
LEMMA RecordDeployFailureKeeps ==
    ASSUME NEW d \in DeploymentIds PROVE Ownership /\ RecordDeployFailure(d) => Ownership'
  <1> SUFFICES ASSUME Ownership, RecordDeployFailure(d) PROVE Ownership'
    OBVIOUS
  <1> USE DEF dbVars, apiVars, workerVars
  <1>1. /\ TypeOK /\ deployments \in [DeploymentIds -> DeploymentRow]
        /\ deploys \in [DeploymentIds -> {"none", "publish", "fail"}]
    BY DEF Ownership, TypeOK
  <1>2. /\ deployments' \in [DeploymentIds -> DeploymentRow]
        /\ deploys' \in [DeploymentIds -> {"none", "publish", "fail"}]
    BY <1>1 DEF RecordDeployFailure, DeploymentRow
  <1>3. TypeOK'
    BY <1>1, <1>2 DEF TypeOK, RecordDeployFailure
  <1>4. IdsKept /\ RowsKept /\ UNCHANGED <<containers, runtime>>
    BY SameRuntime, SameRows DEF RecordDeployFailure
  <1>5. \A e \in DeploymentIds : ExistingDeployment(e)' =>
           ExistingDeployment(e) /\ deployments'[e].app = deployments[e].app
    BY <1>1 DEF RecordDeployFailure, ExistingDeployment, DeploymentRow
  <1>6. RowsWellFormed'
    BY <1>4, <1>5 DEF Ownership, RowsWellFormed, Owned, CreatedFor
  <1> QED
    BY <1>3, <1>4, <1>6, Frame DEF Ownership, RecordDeployFailure

\* The delete request reads the containers it will unassign.
LEMMA DeleteListKeeps == ASSUME NEW app \in Apps PROVE Ownership /\ DeleteList(app) => Ownership'
  <1> SUFFICES ASSUME Ownership, DeleteList(app) PROVE Ownership'
    OBVIOUS
  <1> USE DEF dbVars, apiVars, workerVars
  <1>1. TypeOK /\ deletes \in [Apps -> DeleteState] /\ budget \in [Bounded -> Nat]
    BY DEF Ownership, TypeOK
  <1>2. PICK V \in SUBSET Assignments :
          /\ \A a \in V : containers[a].status \in LiveStatus
          /\ deletes' = [deletes EXCEPT ![app] =
                            [pc |-> "publish", victims |-> {VictimOf(a) : a \in V}]]
    BY DEF DeleteList
  <1>3. \A v \in {VictimOf(a) : a \in V} :
          v \in Victim /\ Owned(v.containerID, v.assignment, v.node)
    BY <1>2, VictimOwned
  <1>4. budget' \in [Bounded -> Nat]
    BY <1>1, SpendType DEF DeleteList, Bounded
  <1>5. deletes' \in [Apps -> DeleteState]
    BY <1>1, <1>2, <1>3 DEF DeleteState
  <1>6. TypeOK'
    BY <1>1, <1>4, <1>5 DEF TypeOK, DeleteList
  <1>7. IdsKept /\ RowsKept /\ UNCHANGED runtime
    BY SameRuntime, SameRows DEF DeleteList
  <1>8. \A b \in Apps : deletes'[b].victims = deletes[b].victims
                          \/ deletes'[b].victims = {VictimOf(a) : a \in V}
    BY <1>1, <1>2
  <1>9. DeletesHold'
    BY <1>3, <1>7, <1>8 DEF Ownership, DeletesHold, Owned, CreatedFor
  <1> QED
    BY <1>6, <1>7, <1>9, Frame DEF Ownership, DeleteList

\* Unassigning one of them, or aborting the request.
LEMMA DeletePublishKeeps ==
    ASSUME NEW app \in Apps PROVE Ownership /\ DeletePublish(app) => Ownership'
  <1> SUFFICES ASSUME Ownership, DeletePublish(app) PROVE Ownership'
    OBVIOUS
  <1> USE DEF dbVars, apiVars, workerVars
  <1>1. TypeOK /\ deletes \in [Apps -> DeleteState] /\ budget \in [Bounded -> Nat]
    BY DEF Ownership, TypeOK
  <1>2. PICK v \in deletes[app].victims :
          \/ /\ PublishUnassign(v) /\ UNCHANGED budget
             /\ deletes' = [deletes EXCEPT ![app].victims = @ \ {v}]
          \/ /\ Spend("publishError") /\ UNCHANGED <<unassignQ, blind>>
             /\ deletes' = [deletes EXCEPT ![app] = DeleteIdle]
    BY DEF DeletePublish
  <1>3. v \in Victim /\ Owned(v.containerID, v.assignment, v.node)
    BY <1>1, <1>2 DEF DeleteState, Ownership, DeletesHold
  <1>4. IdsKept /\ RowsKept /\ UNCHANGED <<runtime, containers, unassignH>>
    BY SameRuntime, SameRows DEF DeletePublish
  <1>5. budget' \in [Bounded -> Nat]
    BY <1>1, <1>2, SpendType DEF Bounded
  <1>6. /\ unassignQ' \in [Nodes -> Seq(UnassignMsg)] /\ blind' \subseteq Assignments
        /\ UnassignNamesOwnContainer' /\ UnassignHandlersHold'
    <2>1. CASE PublishUnassign(v)
      BY <1>3, <1>4, <2>1, PublishUnassignKeeps
    <2>2. CASE UNCHANGED <<unassignQ, blind>>
      BY <1>1, <1>4, <2>2, Frame DEF Ownership, TypeOK
    <2> QED
      BY <1>2, <2>1, <2>2
  <1>7. /\ deletes' \in [Apps -> DeleteState]
        /\ \A b \in Apps : deletes'[b].victims \subseteq deletes[b].victims
    BY <1>1, <1>2 DEF DeleteState, DeleteIdle
  <1>8. TypeOK'
    BY <1>1, <1>5, <1>6, <1>7 DEF TypeOK, DeletePublish
  <1>9. DeletesHold'
    BY <1>4, <1>7 DEF Ownership, DeletesHold, Owned, CreatedFor
  <1> QED
    BY <1>4, <1>6, <1>8, <1>9, Frame DEF Ownership, DeletePublish

\* The cascade turns live rows into deleted ones and leaves the others alone.
LEMMA DeleteTxKeeps == ASSUME NEW app \in Apps PROVE Ownership /\ DeleteTx(app) => Ownership'
  <1> SUFFICES ASSUME Ownership, DeleteTx(app) PROVE Ownership'
    OBVIOUS
  <1> USE DEF dbVars, apiVars, workerVars
  <1>1. /\ TypeOK /\ deletes \in [Apps -> DeleteState] /\ applications \in [Apps -> AppRow]
        /\ deployments \in [DeploymentIds -> DeploymentRow]
        /\ containers \in [Assignments -> ContainerRow]
    BY DEF Ownership, TypeOK
  <1>2. /\ \A d \in DeploymentIds : deployments'[d] \in {deployments[d], DeletedDeployment}
        /\ deployments' = [d \in DeploymentIds |-> deployments'[d]]
    BY DEF DeleteTx
  <1>3. /\ \A a \in Assignments :
              \/ containers'[a] = containers[a]
              \/ containers[a].status \in LiveStatus /\ containers'[a] = DeletedContainer
        /\ containers' = [a \in Assignments |-> containers'[a]]
    BY DEF DeleteTx
  <1>4. DeletedDeployment \in DeploymentRow /\ DeletedContainer \in ContainerRow /\ DeletedApp \in AppRow
    BY DEF DeletedDeployment, DeploymentRow, DeletedContainer, ContainerRow, DeletedApp, AppRow
  <1>5. deployments' \in [DeploymentIds -> DeploymentRow]
    BY <1>1, <1>2, <1>4
  <1>6. containers' \in [Assignments -> ContainerRow]
    BY <1>1, <1>3, <1>4
  <1>7. /\ applications' \in [Apps -> AppRow] /\ deletes' \in [Apps -> DeleteState]
        /\ \A b \in Apps : deletes'[b].victims \subseteq deletes[b].victims
    BY <1>1, <1>4 DEF DeleteTx, DeleteIdle, DeleteState
  <1>8. TypeOK'
    BY <1>1, <1>5, <1>6, <1>7 DEF TypeOK, DeleteTx
  <1>9. IdsKept /\ UNCHANGED runtime
    BY SameRuntime DEF DeleteTx
  <1>10. RowsKept
    BY <1>3 DEF RowsKept, PlacedOn, DeletedContainer, LiveStatus
  <1>11. DeletesHold'
    BY <1>7, <1>9 DEF Ownership, DeletesHold, Owned, CreatedFor
  <1>12. RowsWellFormed'
    BY <1>2, <1>3, <1>9 DEF Ownership, RowsWellFormed, ExistingDeployment, Owned, CreatedFor,
                            DeletedDeployment, DeletedContainer, LiveStatus
  <1>13. RunningRowNamesContainer'
    BY <1>3, <1>9 DEF Ownership, RunningRowNamesContainer, CreatedFor, DeletedContainer
  <1> QED
    BY <1>8, <1>9, <1>10, <1>11, <1>12, <1>13, Frame DEF Ownership, DeleteTx

\* A restart drops the requests in flight.
LEMMA ApiRestartKeeps == Ownership /\ ApiRestart => Ownership'
  <1> SUFFICES ASSUME Ownership, ApiRestart PROVE Ownership'
    OBVIOUS
  <1> USE DEF dbVars, apiVars, workerVars
  <1>1. TypeOK /\ budget \in [Bounded -> Nat]
    BY DEF Ownership, TypeOK
  <1>2. /\ budget' \in [Bounded -> Nat] /\ deletes' \in [Apps -> DeleteState]
        /\ deploys' \in [DeploymentIds -> {"none", "publish", "fail"}]
    BY <1>1, SpendType DEF ApiRestart, Bounded, DeleteIdle, DeleteState
  <1>3. TypeOK'
    BY <1>1, <1>2 DEF TypeOK, ApiRestart
  <1>4. IdsKept /\ RowsKept
    BY SameRuntime, SameRows DEF ApiRestart
  <1>5. DeletesHold'
    BY DEF ApiRestart, DeletesHold, DeleteIdle
  <1> QED
    BY <1>3, <1>4, <1>5, Frame DEF Ownership, ApiRestart

\* Every step of services/apiserver keeps Ownership.
LEMMA ApiKeeps == Ownership /\ ApiNext => Ownership'
  BY ApplicationsKeep, DeployTxKeeps, PublishPlacementKeeps, RecordDeployFailureKeeps,
     DeleteListKeeps, DeletePublishKeeps, DeleteTxKeeps, ApiRestartKeeps DEF ApiNext

-----------------------------------------------------------------------------
(* What the handlers share *)

\* containerStatus only yields values of the container_status type.
LEMMA ContainerStatusType == \A state : ContainerStatusOf(state) \in LiveStatus
  BY DEF ContainerStatusOf, LiveStatus

\* A container created under a new id for the assignment being handled was
\* created for it, and confuses nobody else: no message or handler names it yet.
LEMMA NewContainer ==
    ASSUME Ownership, NEW n \in Nodes, assignQ[n] # <<>>, UNCHANGED containers,
           NEW r \in RuntimeIds, runtime[r].state = "none", NEW s \in RuntimeState \ {"none"},
           NEW a, a = Head(assignQ[n]),
           runtime' = [runtime EXCEPT ![r] = [state |-> s, node |-> n, assignment |-> a]]
    PROVE  /\ runtime' \in [RuntimeIds -> RuntimeContainer]
           /\ IdsKept /\ RowsKept /\ RuntimesPlaced'
           /\ CreatedFor(r, a, n)'
  <1>1. /\ runtime \in [RuntimeIds -> RuntimeContainer]
        /\ assignQ \in [Nodes -> Seq(Assignments)]
    BY DEF Ownership, TypeOK
  <1>2. a \in Assignments /\ a = assignQ[n][1] /\ 1 \in 1..Len(assignQ[n])
    BY <1>1, TailFacts
  <1>3. PlacedOn(a, n)
    BY <1>2 DEF Ownership, AssignmentsPlaced
  <1>4. runtime[r].assignment = NULL
    BY DEF Ownership, RuntimesPlaced, NoRuntime
  <1>5. runtime' \in [RuntimeIds -> RuntimeContainer] /\ CreatedFor(r, a, n)'
    BY <1>1, <1>2 DEF RuntimeContainer, CreatedFor
  <1>6. IdsKept /\ RowsKept
    BY <1>1, <1>4, NullIsNoId, SameRows DEF IdsKept
  <1>7. RuntimesPlaced'
    BY <1>1, <1>2, <1>3 DEF Ownership, RuntimesPlaced, PlacedOn, NoRuntime
  <1> QED
    BY <1>5, <1>6, <1>7

\* A container that exits or is removed keeps its node and assignment.
LEMMA StateChange ==
    ASSUME Ownership, NEW r \in RuntimeIds, NEW s \in RuntimeState \ {"none"},
           runtime[r].state # "none", UNCHANGED containers,
           runtime' = [runtime EXCEPT ![r].state = s]
    PROVE  /\ runtime' \in [RuntimeIds -> RuntimeContainer]
           /\ IdsKept /\ RowsKept /\ RuntimesPlaced'
  <1>1. runtime \in [RuntimeIds -> RuntimeContainer]
    BY DEF Ownership, TypeOK
  <1>2. runtime' \in [RuntimeIds -> RuntimeContainer]
    BY <1>1 DEF RuntimeContainer
  <1>3. \A q \in RuntimeIds : /\ runtime'[q].node = runtime[q].node
                              /\ runtime'[q].assignment = runtime[q].assignment
                              /\ runtime[q].state # "none" => runtime'[q].state # "none"
                              /\ q # r => runtime'[q] = runtime[q]
    BY <1>1 DEF RuntimeContainer
  <1>4. IdsKept /\ RowsKept
    BY <1>3, SameRows DEF IdsKept
  <1>5. RuntimesPlaced'
    BY <1>3 DEF Ownership, RuntimesPlaced, PlacedOn, NoRuntime
  <1> QED
    BY <1>2, <1>4, <1>5

\* Publishing the status of an assignment with an id created for it.
LEMMA PublishStatusKeeps ==
    ASSUME Ownership, NEW a \in Assignments, NEW r \in RuntimeIds \cup {NULL},
           NEW status \in LiveStatus,
           r # NULL => runtime[r].assignment = a,
           status = "running" => r # NULL,
           UNCHANGED runtime, PublishStatus(a, r, status)
    PROVE  statusQ' \in Seq(StatusMsg) /\ budget' \in [Bounded -> Nat] /\ StatusesOwned'
  <1> DEFINE m == [assignment |-> a, containerID |-> r, status |-> status]
  <1>1. statusQ \in Seq(StatusMsg) /\ budget \in [Bounded -> Nat] /\ m \in StatusMsg
    BY DEF Ownership, TypeOK, StatusMsg
  <1>2. CASE statusQ' = Append(statusQ, m) /\ UNCHANGED budget
    <2> HIDE DEF m
    <2>1. /\ statusQ' \in Seq(StatusMsg) /\ Len(statusQ') = Len(statusQ) + 1 /\ Len(statusQ) \in Nat
          /\ \A i \in 1..Len(statusQ) : statusQ'[i] = statusQ[i]
          /\ statusQ'[Len(statusQ) + 1] = m
      BY <1>1, <1>2, AppendFacts
    <2> USE DEF m
    <2>2. StatusesOwned'
      BY <2>1 DEF Ownership, StatusesOwned
    <2> QED
      BY <1>1, <1>2, <2>1, <2>2
  <1>3. CASE Spend("publishError") /\ UNCHANGED statusQ
    <2>1. budget' \in [Bounded -> Nat]
      BY <1>1, <1>3, SpendType DEF Bounded
    <2> QED
      BY <1>1, <1>3, <2>1 DEF Ownership, StatusesOwned
  <1> QED
    BY <1>2, <1>3 DEF PublishStatus

\* Acking an assignment ends its handler and leaves the other messages placed.
LEMMA AckAssignKeeps ==
    ASSUME Ownership, NEW n \in Nodes, assignQ[n] # <<>>, AckAssign(n),
           assignH' = [assignH EXCEPT ![n] = AssignIdle], UNCHANGED <<containers, runtime>>
    PROVE  /\ assignQ' \in [Nodes -> Seq(Assignments)] /\ assignH' \in [Nodes -> AssignState]
           /\ AssignmentsPlaced' /\ AssignHandlersHold'
  <1>1. assignQ \in [Nodes -> Seq(Assignments)] /\ assignH \in [Nodes -> AssignState]
    BY DEF Ownership, TypeOK
  <1>2. assignQ' = [assignQ EXCEPT ![n] = Tail(@)]
    BY DEF AckAssign
  <1>3. assignQ' \in [Nodes -> Seq(Assignments)] /\ assignH' \in [Nodes -> AssignState]
    BY <1>1, <1>2, TailFacts DEF AssignState, AssignIdle
  <1>4. \A m \in Nodes : \A i \in 1..Len(assignQ'[m]) :
           \E j \in 1..Len(assignQ[m]) : assignQ'[m][i] = assignQ[m][j]
    BY <1>1, <1>2, TailFacts
  <1>5. AssignmentsPlaced'
    BY <1>4 DEF Ownership, AssignmentsPlaced, PlacedOn
  <1>6. \A m \in Nodes : \/ assignH'[m].pc = "idle"
                         \/ assignH'[m] = assignH[m] /\ assignQ'[m] = assignQ[m]
    BY <1>1, <1>2 DEF AssignIdle
  <1>7. AssignHandlersHold'
    BY <1>6 DEF Ownership, AssignHandlersHold, Owned, CreatedFor
  <1> QED
    BY <1>3, <1>5, <1>7

-----------------------------------------------------------------------------
(* handleAssignment *)

\* Starting the container of the assignment at the head of the queue.
LEMMA StartContainerKeeps ==
    ASSUME NEW n \in Nodes PROVE Ownership /\ StartContainer(n) => Ownership'
  <1> SUFFICES ASSUME Ownership, StartContainer(n) PROVE Ownership'
    OBVIOUS
  <1> USE DEF dbVars, apiVars, workerVars
  <1>1. /\ TypeOK /\ assignH \in [Nodes -> AssignState] /\ budget \in [Bounded -> Nat]
        /\ assignQ[n] # <<>>
    BY DEF Ownership, TypeOK, StartContainer
  <1>2. PICK r \in RuntimeIds, s \in {"running", "exited0", "exited1"} :
          /\ runtime[r].state = "none"
          /\ UNCHANGED budget \/ Spend("kill")
          /\ runtime' = [runtime EXCEPT ![r] =
                [state |-> s, node |-> n, assignment |-> Head(assignQ[n])]]
          /\ assignH' = [assignH EXCEPT ![n] =
                [pc |-> "publish", containerID |-> r, status |-> ContainerStatusOf(s)]]
    BY DEF StartContainer, Mint, NewRuntimeIds
  <1>3. PICK a : a = Head(assignQ[n])
    OBVIOUS
  <1>4. UNCHANGED <<containers, assignQ>> /\ s \in RuntimeState \ {"none"}
    BY DEF StartContainer, RuntimeState
  <1>5. /\ runtime' \in [RuntimeIds -> RuntimeContainer]
        /\ IdsKept /\ RowsKept /\ RuntimesPlaced' /\ CreatedFor(r, a, n)'
    BY <1>1, <1>2, <1>3, <1>4, NewContainer
  <1>6. budget' \in [Bounded -> Nat]
    BY <1>1, <1>2, SpendType DEF Bounded
  <1>7. PICK st \in LiveStatus : st = ContainerStatusOf(s)
    BY ContainerStatusType
  <1>8. assignH' = [assignH EXCEPT ![n] = [pc |-> "publish", containerID |-> r, status |-> st]]
    BY <1>2, <1>7
  <1>9. assignH' \in [Nodes -> AssignState]
    BY <1>1, <1>8 DEF AssignState
  <1>10. TypeOK'
    BY <1>1, <1>5, <1>6, <1>9 DEF TypeOK, StartContainer
  <1>11. AssignHandlersHold'
    <2> SUFFICES ASSUME NEW m \in Nodes, assignH'[m].pc # "idle"
                 PROVE  /\ assignQ'[m] # <<>> /\ assignH'[m].status \in LiveStatus
                        /\ Owned(assignH[m].containerID, Head(assignQ[m]), m)'
                        /\ assignH'[m].pc = "track" \/ assignH'[m].status = "running"
                              => assignH'[m].containerID # NULL
      BY DEF AssignHandlersHold
    <2>1. CASE m = n
      BY <1>1, <1>3, <1>4, <1>5, <1>8, <2>1, NullIsNoId DEF Owned, CreatedFor
    <2>2. CASE m # n
      <3>1. assignH'[m] = assignH[m] /\ assignQ'[m] = assignQ[m]
        BY <1>1, <1>4, <1>8, <2>2
      <3>2. /\ assignH[m].containerID \in RuntimeIds \cup {NULL}
            /\ assignQ[m] # <<>> => Head(assignQ[m]) \in Assignments
        BY <1>1 DEF TypeOK, AssignState
      <3> QED
        BY <1>5, <3>1, <3>2, OwnedKept DEF Ownership, AssignHandlersHold
    <2> QED
      BY <2>1, <2>2
  <1> QED
    BY <1>5, <1>10, <1>11, Frame DEF Ownership, StartContainer

\* Failing to start it, possibly leaving a container behind.
LEMMA StartContainerErrorKeeps ==
    ASSUME NEW n \in Nodes PROVE Ownership /\ StartContainerError(n) => Ownership'
  <1> SUFFICES ASSUME Ownership, StartContainerError(n) PROVE Ownership'
    OBVIOUS
  <1> USE DEF dbVars, apiVars, workerVars
  <1>1. /\ TypeOK /\ assignH \in [Nodes -> AssignState] /\ assignQ[n] # <<>>
        /\ UNCHANGED <<containers, assignQ>>
        /\ assignH' = [assignH EXCEPT ![n] =
              [pc |-> "publish", containerID |-> NULL, status |-> "crashed"]]
    BY DEF Ownership, TypeOK, StartContainerError
  <1>2. /\ runtime' \in [RuntimeIds -> RuntimeContainer]
        /\ IdsKept /\ RowsKept /\ RuntimesPlaced'
    <2>1. CASE UNCHANGED runtime
      BY <1>1, <2>1, SameRuntime, SameRows, FrameRuntimes DEF Ownership, TypeOK
    <2>2. CASE \E s \in {"created", "running"} :
             /\ NewRuntimeIds # {}
             /\ runtime' = [runtime EXCEPT ![Mint(NewRuntimeIds)] =
                   [state |-> s, node |-> n, assignment |-> Head(assignQ[n])]]
      <3>1. PICK r \in RuntimeIds, s \in {"created", "running"} :
              /\ runtime[r].state = "none"
              /\ runtime' = [runtime EXCEPT ![r] =
                    [state |-> s, node |-> n, assignment |-> Head(assignQ[n])]]
        BY <2>2 DEF Mint, NewRuntimeIds
      <3>2. s \in RuntimeState \ {"none"}
        BY DEF RuntimeState
      <3> QED
        BY <1>1, <3>1, <3>2, NewContainer
    <2> QED
      BY <2>1, <2>2 DEF StartContainerError
  <1>3. budget' \in [Bounded -> Nat]
    BY SpendType DEF Ownership, TypeOK, StartContainerError, Bounded
  <1>4. assignH' \in [Nodes -> AssignState]
    BY <1>1 DEF AssignState, LiveStatus
  <1>5. TypeOK'
    BY <1>1, <1>2, <1>3, <1>4 DEF TypeOK, StartContainerError
  <1>6. AssignHandlersHold'
    <2> SUFFICES ASSUME NEW m \in Nodes, assignH'[m].pc # "idle"
                 PROVE  /\ assignQ'[m] # <<>> /\ assignH'[m].status \in LiveStatus
                        /\ Owned(assignH[m].containerID, Head(assignQ[m]), m)'
                        /\ assignH'[m].pc = "track" \/ assignH'[m].status = "running"
                              => assignH'[m].containerID # NULL
      BY DEF AssignHandlersHold
    <2>1. CASE m = n
      BY <1>1, <2>1 DEF Owned, LiveStatus
    <2>2. CASE m # n
      <3>1. assignH'[m] = assignH[m] /\ assignQ'[m] = assignQ[m]
        BY <1>1, <2>2
      <3>2. /\ assignH[m].containerID \in RuntimeIds \cup {NULL}
            /\ assignQ[m] # <<>> => Head(assignQ[m]) \in Assignments
        BY <1>1 DEF TypeOK, AssignState
      <3> QED
        BY <1>2, <3>1, <3>2, OwnedKept DEF Ownership, AssignHandlersHold
    <2> QED
      BY <2>1, <2>2
  <1> QED
    BY <1>2, <1>5, <1>6, Frame DEF Ownership, StartContainerError

\* Publishing the outcome of the assignment at the head of the queue.
LEMMA AssignPublishStatusKeeps ==
    ASSUME NEW n \in Nodes PROVE Ownership /\ AssignPublishStatus(n) => Ownership'
  <1> SUFFICES ASSUME Ownership, AssignPublishStatus(n) PROVE Ownership'
    OBVIOUS
  <1> USE DEF dbVars, apiVars, workerVars
  <1> DEFINE a == Head(assignQ[n])
             r == assignH[n].containerID
  <1>1. /\ TypeOK /\ assignH \in [Nodes -> AssignState] /\ assignQ \in [Nodes -> Seq(Assignments)]
        /\ assignQ[n] # <<>> /\ assignH[n].status \in LiveStatus /\ Owned(r, a, n)
        /\ assignH[n].status = "running" => r # NULL
    BY DEF Ownership, TypeOK, AssignPublishStatus, AssignHandlersHold
  <1>2. a \in Assignments /\ r \in RuntimeIds \cup {NULL}
    BY <1>1 DEF AssignState
  <1>3. IdsKept /\ RowsKept /\ UNCHANGED <<runtime, containers>>
    BY SameRuntime, SameRows DEF AssignPublishStatus
  <1>4. PublishStatus(a, r, assignH[n].status)
    BY DEF AssignPublishStatus
  <1>5. statusQ' \in Seq(StatusMsg) /\ budget' \in [Bounded -> Nat] /\ StatusesOwned'
    BY <1>1, <1>2, <1>3, <1>4, PublishStatusKeeps DEF Owned, CreatedFor
  <1>6. /\ assignQ' \in [Nodes -> Seq(Assignments)] /\ assignH' \in [Nodes -> AssignState]
        /\ AssignmentsPlaced' /\ AssignHandlersHold'
    <2>1. CASE r = NULL
      BY <1>1, <1>3, <2>1, AckAssignKeeps DEF AssignPublishStatus
    <2>2. CASE r # NULL
      <3>1. assignH' = [assignH EXCEPT ![n].pc = "track"] /\ UNCHANGED assignQ
        BY <2>2 DEF AssignPublishStatus
      <3>2. /\ assignH' \in [Nodes -> AssignState]
            /\ \A m \in Nodes : /\ assignH'[m].containerID = assignH[m].containerID
                                /\ assignH'[m].status = assignH[m].status
                                /\ m # n => assignH'[m].pc = assignH[m].pc
        BY <1>1, <3>1 DEF AssignState
      <3>3. AssignHandlersHold'
        BY <1>1, <1>3, <2>2, <3>1, <3>2 DEF Ownership, AssignHandlersHold, Owned, CreatedFor
      <3> QED
        BY <1>1, <1>3, <3>1, <3>2, <3>3, Frame
    <2> QED
      BY <2>1, <2>2
  <1>7. TypeOK'
    BY <1>1, <1>5, <1>6 DEF TypeOK, AssignPublishStatus
  <1> QED
    BY <1>3, <1>5, <1>6, <1>7, Frame DEF Ownership, AssignPublishStatus

\* Tracking the container that was started for it.
LEMMA AssignTrackKeeps == ASSUME NEW n \in Nodes PROVE Ownership /\ AssignTrack(n) => Ownership'
  <1> SUFFICES ASSUME Ownership, AssignTrack(n) PROVE Ownership'
    OBVIOUS
  <1> USE DEF dbVars, apiVars, workerVars
  <1>1. /\ TypeOK /\ assignH[n] \in AssignState /\ assignQ \in [Nodes -> Seq(Assignments)]
        /\ tracked \in [Nodes -> [Assignments -> TrackedContainer]]
        /\ assignQ[n] # <<>> /\ assignH[n].status \in LiveStatus
        /\ Owned(assignH[n].containerID, Head(assignQ[n]), n) /\ assignH[n].containerID # NULL
    BY DEF Ownership, TypeOK, AssignTrack, AssignHandlersHold
  <1>2. PICK a \in Assignments, entry \in TrackedContainer :
          a = Head(assignQ[n]) /\ entry = TrackedEntry(n)
    <2>1. Head(assignQ[n]) \in Assignments
      BY <1>1
    <2>2. TrackedEntry(n) \in TrackedContainer
      BY <1>1 DEF AssignState, TrackedEntry, TrackedContainer
    <2> QED
      BY <2>1, <2>2
  <1>3. IdsKept /\ RowsKept /\ UNCHANGED <<runtime, containers>>
    BY SameRuntime, SameRows DEF AssignTrack
  <1>4. EntryOwned(entry, a, n)'
    BY <1>1, <1>2, <1>3 DEF EntryOwned, TrackedEntry, Owned, CreatedFor
  <1>5. tracked' = [tracked EXCEPT ![n][a] = entry]
    BY <1>2 DEF AssignTrack
  <1>6. tracked' \in [Nodes -> [Assignments -> TrackedContainer]]
    BY <1>1, <1>2, <1>5
  <1>7. /\ assignQ' \in [Nodes -> Seq(Assignments)] /\ assignH' \in [Nodes -> AssignState]
        /\ AssignmentsPlaced' /\ AssignHandlersHold'
    BY <1>1, <1>3, AckAssignKeeps DEF AssignTrack
  <1>8. TypeOK'
    BY <1>1, <1>6, <1>7 DEF TypeOK, AssignTrack
  <1>9. TrackedOwned'
    BY <1>1, <1>2, <1>3, <1>4, <1>5 DEF Ownership, TrackedOwned, EntryOwned, CreatedFor, NotTracked
  <1> QED
    BY <1>3, <1>7, <1>8, <1>9, Frame DEF Ownership, AssignTrack

-----------------------------------------------------------------------------
(* handleUnassign *)

\* Stopping or removing the container that the message names, or failing to.
LEMMA UnassignRuntimeKeeps ==
    ASSUME NEW n \in Nodes, Ownership, UnassignStop(n) \/ UnassignRemove(n)
    PROVE  Ownership'
  <1> USE DEF dbVars, apiVars, workerVars
  <1>1. /\ TypeOK /\ unassignH \in [Nodes -> UnassignState] /\ budget \in [Bounded -> Nat]
        /\ unassignQ \in [Nodes -> Seq(UnassignMsg)]
        /\ unassignQ[n] # <<>> /\ UNCHANGED <<containers, unassignQ>>
    BY DEF Ownership, TypeOK, UnassignStop, UnassignRemove, UnassignHandlersHold
  <1>2. PICK r \in RuntimeIds \cup {NULL} : r = UnassignTarget(n)
    <2>1. Head(unassignQ[n]) \in UnassignMsg
      BY <1>1
    <2>2. UnassignTarget(n) \in RuntimeIds \cup {NULL}
      BY <2>1 DEF UnassignTarget, UnassignMsg
    <2> QED
      BY <2>2
  <1>3. budget' \in [Bounded -> Nat]
    BY <1>1, SpendType DEF UnassignStop, UnassignRemove, Bounded
  <1>4. \/ UNCHANGED runtime
        \/ /\ r \in RuntimeIds /\ runtime[r].state # "none"
           /\ \E s \in RuntimeState \ {"none"} : runtime' = [runtime EXCEPT ![r].state = s]
    BY <1>2, NullIsNoId DEF UnassignStop, UnassignRemove, Runs, Present, RuntimeState
  <1>5. /\ runtime' \in [RuntimeIds -> RuntimeContainer]
        /\ IdsKept /\ RowsKept /\ RuntimesPlaced'
    <2>1. CASE UNCHANGED runtime
      BY <1>1, <2>1, SameRuntime, SameRows, FrameRuntimes DEF Ownership, TypeOK
    <2>2. CASE /\ r \in RuntimeIds /\ runtime[r].state # "none"
               /\ \E s \in RuntimeState \ {"none"} : runtime' = [runtime EXCEPT ![r].state = s]
      BY <1>1, <2>2, StateChange
    <2> QED
      BY <1>4, <2>1, <2>2
  <1>6. unassignH' \in [Nodes -> UnassignState]
    BY <1>1 DEF UnassignStop, UnassignRemove, UnassignState
  <1>7. TypeOK'
    BY <1>1, <1>3, <1>5, <1>6 DEF TypeOK, UnassignStop, UnassignRemove
  <1>8. \A m \in Nodes : m = n \/ unassignH'[m] = unassignH[m]
    BY <1>1 DEF UnassignStop, UnassignRemove
  <1>9. UnassignHandlersHold'
    BY <1>1, <1>8 DEF Ownership, UnassignHandlersHold
  <1> QED
    BY <1>5, <1>7, <1>9, Frame DEF Ownership, UnassignStop, UnassignRemove

\* Reporting the assignment stopped, with the id of the message.
LEMMA UnassignPublishStatusKeeps ==
    ASSUME NEW n \in Nodes PROVE Ownership /\ UnassignPublishStatus(n) => Ownership'
  <1> SUFFICES ASSUME Ownership, UnassignPublishStatus(n) PROVE Ownership'
    OBVIOUS
  <1> USE DEF dbVars, apiVars, workerVars
  <1> DEFINE msg == Head(unassignQ[n])
  <1>1. /\ TypeOK /\ unassignH \in [Nodes -> UnassignState]
        /\ unassignQ \in [Nodes -> Seq(UnassignMsg)] /\ unassignQ[n] # <<>>
    BY DEF Ownership, TypeOK, UnassignPublishStatus, UnassignHandlersHold
  <1>2. msg \in UnassignMsg /\ msg = unassignQ[n][1] /\ 1 \in 1..Len(unassignQ[n])
    BY <1>1, TailFacts
  <1>3. /\ msg.assignment \in Assignments /\ msg.containerID \in RuntimeIds \cup {NULL}
        /\ msg.containerID # NULL => runtime[msg.containerID].assignment = msg.assignment
    BY <1>2 DEF UnassignMsg, Ownership, UnassignNamesOwnContainer, CreatedFor
  <1>4. IdsKept /\ RowsKept /\ UNCHANGED <<runtime, containers, unassignQ>>
    BY SameRuntime, SameRows DEF UnassignPublishStatus
  <1>5. PublishStatus(msg.assignment, msg.containerID, "stopped")
    BY DEF UnassignPublishStatus
  <1>6. "stopped" \in LiveStatus
    BY DEF LiveStatus
  <1>7. statusQ' \in Seq(StatusMsg) /\ budget' \in [Bounded -> Nat] /\ StatusesOwned'
    BY <1>3, <1>4, <1>5, <1>6, PublishStatusKeeps
  <1>8. unassignH' \in [Nodes -> UnassignState] /\ \A m \in Nodes : m = n \/ unassignH'[m] = unassignH[m]
    BY <1>1 DEF UnassignPublishStatus, UnassignState
  <1>9. TypeOK'
    BY <1>1, <1>7, <1>8 DEF TypeOK, UnassignPublishStatus
  <1>10. UnassignHandlersHold'
    BY <1>1, <1>4, <1>8 DEF Ownership, UnassignHandlersHold
  <1> QED
    BY <1>4, <1>7, <1>9, <1>10, Frame DEF Ownership, UnassignPublishStatus

\* Forgetting the assignment and acking the message.
LEMMA UnassignUntrackKeeps ==
    ASSUME NEW n \in Nodes PROVE Ownership /\ UnassignUntrack(n) => Ownership'
  <1> SUFFICES ASSUME Ownership, UnassignUntrack(n) PROVE Ownership'
    OBVIOUS
  <1> USE DEF dbVars, apiVars, workerVars
  <1>1. /\ TypeOK /\ unassignH \in [Nodes -> UnassignState]
        /\ unassignQ \in [Nodes -> Seq(UnassignMsg)] /\ unassignQ[n] # <<>>
        /\ tracked \in [Nodes -> [Assignments -> TrackedContainer]]
    BY DEF Ownership, TypeOK, UnassignUntrack, UnassignHandlersHold
  <1>2. PICK a \in Assignments : a = Head(unassignQ[n]).assignment
    <2>1. Head(unassignQ[n]) \in UnassignMsg
      BY <1>1
    <2>2. Head(unassignQ[n]).assignment \in Assignments
      BY <2>1 DEF UnassignMsg
    <2> QED
      BY <2>2
  <1>3. /\ tracked' = [tracked EXCEPT ![n][a] = NotTracked]
        /\ unassignQ' = [unassignQ EXCEPT ![n] = Tail(@)]
        /\ unassignH' = [unassignH EXCEPT ![n] = "idle"]
    BY <1>2 DEF UnassignUntrack, AckUnassign
  <1>4. NotTracked \in TrackedContainer
    BY DEF NotTracked, TrackedContainer
  <1>5. /\ tracked' \in [Nodes -> [Assignments -> TrackedContainer]]
        /\ unassignH' \in [Nodes -> UnassignState]
    BY <1>1, <1>3, <1>4 DEF UnassignState
  <1>6. unassignQ' \in [Nodes -> Seq(UnassignMsg)]
    BY <1>1, <1>3, TailFacts
  <1>7. TypeOK'
    BY <1>1, <1>5, <1>6 DEF TypeOK, UnassignUntrack
  <1>8. IdsKept /\ RowsKept /\ UNCHANGED <<runtime, containers>>
    BY SameRuntime, SameRows DEF UnassignUntrack
  <1>9. TrackedOwned'
    <2>1. \A m \in Nodes, b \in Assignments :
             tracked'[m][b] = tracked[m][b] \/ tracked'[m][b] = NotTracked
      BY <1>1, <1>3
    <2> QED
      BY <1>8, <2>1 DEF Ownership, TrackedOwned, EntryOwned, CreatedFor
  <1>10. \A m \in Nodes : \A i \in 1..Len(unassignQ'[m]) :
            \E j \in 1..Len(unassignQ[m]) : unassignQ'[m][i] = unassignQ[m][j]
    BY <1>1, <1>3, TailFacts
  <1>11. UnassignNamesOwnContainer'
    BY <1>8, <1>10 DEF Ownership, UnassignNamesOwnContainer, CreatedFor
  <1>12. UnassignHandlersHold'
    BY <1>1, <1>3 DEF Ownership, UnassignHandlersHold
  <1> QED
    BY <1>7, <1>8, <1>9, <1>11, <1>12, Frame DEF Ownership, UnassignUntrack

-----------------------------------------------------------------------------
(* checkTrackedContainers *)

\* Taking the snapshot of the map.
LEMMA PollSnapshotKeeps == ASSUME NEW n \in Nodes PROVE Ownership /\ PollSnapshot(n) => Ownership'
  <1> SUFFICES ASSUME Ownership, PollSnapshot(n) PROVE Ownership'
    OBVIOUS
  <1> USE DEF dbVars, apiVars, workerVars
  <1>1. /\ TypeOK /\ pollH \in [Nodes -> PollState]
        /\ tracked \in [Nodes -> [Assignments -> TrackedContainer]]
        /\ pollH' = [pollH EXCEPT ![n] = Inspecting(tracked[n])]
    BY DEF Ownership, TypeOK, PollSnapshot
  <1>2. Inspecting(tracked[n]) \in PollState
    BY <1>1 DEF Inspecting, PollState
  <1>3. pollH' \in [Nodes -> PollState]
    BY <1>1, <1>2
  <1>4. TypeOK'
    BY <1>1, <1>3 DEF TypeOK, PollSnapshot
  <1>5. IdsKept /\ RowsKept /\ UNCHANGED runtime
    BY SameRuntime, SameRows DEF PollSnapshot
  <1>6. SnapshotsOwned'
    <2>1. \A m \in Nodes : m # n => pollH'[m] = pollH[m]
      BY <1>1
    <2>2. pollH'[n].todo = tracked[n]
      BY <1>1 DEF Inspecting
    <2> QED
      BY <1>5, <2>1, <2>2
         DEF Ownership, TrackedOwned, SnapshotsOwned, EntryOwned, CreatedFor, NotTracked
  <1>7. PollsHold'
    BY <1>1 DEF Ownership, PollsHold, Inspecting, NotTracked
  <1> QED
    BY <1>4, <1>5, <1>6, <1>7, Frame DEF Ownership, PollSnapshot

\* Moving on to the next container of the snapshot.
LEMMA PollAdvanceKeeps ==
    ASSUME NEW n \in Nodes, NEW a \in Assignments, Ownership, PollAdvance(n, a), UNCHANGED runtime
    PROVE  pollH' \in [Nodes -> PollState] /\ SnapshotsOwned' /\ PollsHold'
  <1> DEFINE todo == [pollH[n].todo EXCEPT ![a] = NotTracked]
  <1>1. pollH \in [Nodes -> PollState]
    BY DEF Ownership, TypeOK
  <1>2. pollH' = [pollH EXCEPT ![n] = IF todo = NoTracking THEN PollIdle ELSE Inspecting(todo)]
    BY DEF PollAdvance
  <1>3. NotTracked \in TrackedContainer
    BY DEF NotTracked, TrackedContainer
  <1>4. pollH[n].todo \in [Assignments -> TrackedContainer]
    BY <1>1 DEF PollState
  <1>5. todo \in [Assignments -> TrackedContainer] /\ NoTracking \in [Assignments -> TrackedContainer]
    BY <1>3, <1>4 DEF NoTracking
  <1>6. \A b \in Assignments : todo[b] = NotTracked \/ todo[b] = pollH[n].todo[b]
    BY <1>4
  <1> HIDE DEF todo
  <1>7. PollIdle \in PollState /\ Inspecting(todo) \in PollState
    BY <1>5 DEF PollIdle, Inspecting, PollState
  <1>8. pollH' \in [Nodes -> PollState]
    BY <1>1, <1>2, <1>7
  <1>9. /\ \A m \in Nodes : m # n => pollH'[m] = pollH[m]
        /\ pollH'[n].pc \notin {"publish", "update"}
        /\ pollH'[n].todo = todo \/ pollH'[n].todo = NoTracking
    BY <1>1, <1>2 DEF PollIdle, Inspecting
  <1>10. SnapshotsOwned'
    <2> SUFFICES ASSUME NEW m \in Nodes, NEW b \in Assignments
                 PROVE  EntryOwned(pollH[m].todo[b], b, m)'
      BY DEF SnapshotsOwned
    <2>1. pollH'[m].todo[b] = NotTracked \/ pollH'[m].todo[b] = pollH[m].todo[b]
      BY <1>6, <1>9 DEF NoTracking
    <2> QED
      BY <2>1 DEF Ownership, SnapshotsOwned, EntryOwned, CreatedFor, NotTracked
  <1>11. PollsHold'
    BY <1>9 DEF Ownership, PollsHold, NotTracked
  <1> QED
    BY <1>8, <1>10, <1>11

\* Inspecting one container of the snapshot.
LEMMA PollInspectKeeps == ASSUME NEW n \in Nodes PROVE Ownership /\ PollInspect(n) => Ownership'
  <1> SUFFICES ASSUME Ownership, PollInspect(n) PROVE Ownership'
    OBVIOUS
  <1> USE DEF dbVars, apiVars, workerVars
  <1>1. TypeOK /\ pollH \in [Nodes -> PollState]
    BY DEF Ownership, TypeOK
  <1>2. IdsKept /\ RowsKept /\ UNCHANGED runtime
    BY SameRuntime, SameRows DEF PollInspect
  <1>3. PICK a \in Assignments, status \in LiveStatus :
          /\ pollH[n].todo[a] # NotTracked
          /\ \/ PollAdvance(n, a)
             \/ pollH' = [pollH EXCEPT ![n] =
                   [pc |-> "publish", todo |-> @.todo, assignment |-> a, status |-> status]]
    BY ContainerStatusType DEF PollInspect
  <1>4. pollH' \in [Nodes -> PollState] /\ SnapshotsOwned' /\ PollsHold'
    <2>1. CASE PollAdvance(n, a)
      BY <1>2, <2>1, PollAdvanceKeeps
    <2>2. CASE pollH' = [pollH EXCEPT ![n] =
                 [pc |-> "publish", todo |-> @.todo, assignment |-> a, status |-> status]]
      <3>1. pollH' \in [Nodes -> PollState] /\ \A m \in Nodes : pollH'[m].todo = pollH[m].todo
        BY <1>1, <2>2 DEF PollState
      <3>2. SnapshotsOwned'
        BY <1>2, <3>1 DEF Ownership, SnapshotsOwned, EntryOwned, CreatedFor, NotTracked
      <3>3. PollsHold'
        BY <1>1, <1>3, <2>2 DEF Ownership, PollsHold, NotTracked
      <3> QED
        BY <3>1, <3>2, <3>3
    <2> QED
      BY <1>3, <2>1, <2>2
  <1>5. TypeOK'
    BY <1>1, <1>4 DEF TypeOK, PollInspect
  <1> QED
    BY <1>2, <1>4, <1>5, Frame DEF Ownership, PollInspect

\* Publishing a change of status, with the id of the snapshot.
LEMMA PollPublishStatusKeeps ==
    ASSUME NEW n \in Nodes PROVE Ownership /\ PollPublishStatus(n) => Ownership'
  <1> SUFFICES ASSUME Ownership, PollPublishStatus(n) PROVE Ownership'
    OBVIOUS
  <1> USE DEF dbVars, apiVars, workerVars
  <1> DEFINE a == pollH[n].assignment
             r == pollH[n].todo[a].containerID
  <1>1. /\ TypeOK /\ pollH \in [Nodes -> PollState] /\ pollH[n].pc = "publish"
        /\ pollH' = [pollH EXCEPT ![n].pc = "update"]
    BY DEF Ownership, TypeOK, PollPublishStatus
  <1>2. a \in Assignments /\ pollH[n].status \in LiveStatus /\ pollH[n].todo[a] # NotTracked
    BY <1>1 DEF Ownership, PollsHold
  <1>3. pollH[n].todo[a] \in TrackedContainer
    BY <1>1, <1>2 DEF PollState
  <1>4. r \in RuntimeIds \cup {NULL} /\ r # NULL /\ runtime[r].assignment = a
    BY <1>2, <1>3 DEF TrackedContainer, Ownership, SnapshotsOwned, EntryOwned, CreatedFor
  <1>5. IdsKept /\ RowsKept /\ UNCHANGED runtime
    BY SameRuntime, SameRows DEF PollPublishStatus
  <1>6. PublishStatus(a, r, pollH[n].status)
    BY DEF PollPublishStatus
  <1>7. statusQ' \in Seq(StatusMsg) /\ budget' \in [Bounded -> Nat] /\ StatusesOwned'
    BY <1>2, <1>4, <1>5, <1>6, PublishStatusKeeps
  <1>8. /\ pollH' \in [Nodes -> PollState]
        /\ \A m \in Nodes : /\ pollH'[m].todo = pollH[m].todo /\ pollH'[m].status = pollH[m].status
                            /\ pollH'[m].assignment = pollH[m].assignment
                            /\ m # n => pollH'[m].pc = pollH[m].pc
    BY <1>1 DEF PollState
  <1>9. SnapshotsOwned'
    BY <1>5, <1>8 DEF Ownership, SnapshotsOwned, EntryOwned, CreatedFor, NotTracked
  <1>10. PollsHold'
    BY <1>2, <1>8 DEF Ownership, PollsHold, NotTracked
  <1>11. TypeOK'
    BY <1>1, <1>7, <1>8 DEF TypeOK, PollPublishStatus
  <1> QED
    BY <1>5, <1>7, <1>9, <1>10, <1>11, Frame DEF Ownership, PollPublishStatus

\* Remembering the published status, if the assignment is still tracked.
LEMMA PollUpdateKeeps == ASSUME NEW n \in Nodes PROVE Ownership /\ PollUpdate(n) => Ownership'
  <1> SUFFICES ASSUME Ownership, PollUpdate(n) PROVE Ownership'
    OBVIOUS
  <1> USE DEF dbVars, apiVars, workerVars
  <1>1. /\ TypeOK /\ tracked \in [Nodes -> [Assignments -> TrackedContainer]]
        /\ pollH[n].pc = "update"
    BY DEF Ownership, TypeOK, PollUpdate
  <1>2. PICK a \in Assignments, status \in LiveStatus :
          a = pollH[n].assignment /\ status = pollH[n].status
    BY <1>1 DEF Ownership, PollsHold
  <1>3. IdsKept /\ RowsKept /\ UNCHANGED runtime
    BY SameRuntime, SameRows DEF PollUpdate
  <1>4. pollH' \in [Nodes -> PollState] /\ SnapshotsOwned' /\ PollsHold'
    BY <1>2, <1>3, PollAdvanceKeeps DEF PollUpdate
  <1>5. \/ tracked' = tracked
        \/ tracked[n][a] # NotTracked /\ tracked' = [tracked EXCEPT ![n][a].lastStatus = status]
    BY <1>2 DEF PollUpdate
  <1>6. tracked' \in [Nodes -> [Assignments -> TrackedContainer]] /\ TrackedOwned'
    <2>1. CASE tracked' = tracked
      BY <1>1, <1>3, <2>1, Frame
    <2>2. CASE tracked[n][a] # NotTracked /\ tracked' = [tracked EXCEPT ![n][a].lastStatus = status]
      <3>1. tracked[n][a] \in TrackedContainer
        BY <1>1
      <3>2. PICK entry \in TrackedContainer : entry = [tracked[n][a] EXCEPT !.lastStatus = status]
        BY <3>1 DEF TrackedContainer
      <3>3. entry.containerID = tracked[n][a].containerID
        BY <3>1, <3>2 DEF TrackedContainer
      <3>4. tracked' = [tracked EXCEPT ![n] = [tracked[n] EXCEPT ![a] = entry]]
        BY <1>1, <2>2, <3>2
      <3>5. tracked' \in [Nodes -> [Assignments -> TrackedContainer]]
        BY <1>1, <3>4
      <3>6. \A m \in Nodes, b \in Assignments :
               tracked'[m][b] = IF m = n /\ b = a THEN entry ELSE tracked[m][b]
        BY <1>1, <3>4
      <3>7. TrackedOwned'
        BY <1>3, <2>2, <3>3, <3>6 DEF Ownership, TrackedOwned, EntryOwned, CreatedFor, NotTracked
      <3> QED
        BY <3>5, <3>7
    <2> QED
      BY <1>5, <2>1, <2>2
  <1>7. TypeOK'
    BY <1>1, <1>4, <1>6 DEF TypeOK, PollUpdate
  <1> QED
    BY <1>3, <1>4, <1>6, <1>7, Frame DEF Ownership, PollUpdate

-----------------------------------------------------------------------------
(* The node's environment *)

\* A container exits by itself.
LEMMA ContainerExitsKeeps ==
    ASSUME NEW r \in RuntimeIds PROVE Ownership /\ ContainerExits(r) => Ownership'
  <1> SUFFICES ASSUME Ownership, ContainerExits(r) PROVE Ownership'
    OBVIOUS
  <1> USE DEF dbVars, apiVars, workerVars
  <1>1. TypeOK /\ UNCHANGED containers
    BY DEF Ownership, ContainerExits
  <1>2. PICK s \in RuntimeState \ {"none"} : runtime' = [runtime EXCEPT ![r].state = s]
    BY DEF ContainerExits, RuntimeState
  <1>3. /\ runtime' \in [RuntimeIds -> RuntimeContainer]
        /\ IdsKept /\ RowsKept /\ RuntimesPlaced'
    BY <1>1, <1>2, StateChange DEF ContainerExits
  <1>4. budget' \in [Bounded -> Nat]
    BY SpendType DEF Ownership, TypeOK, ContainerExits, Bounded
  <1>5. TypeOK'
    BY <1>1, <1>3, <1>4 DEF TypeOK, ContainerExits
  <1> QED
    BY <1>3, <1>5, Frame DEF Ownership, ContainerExits

\* A restart of the agent loses the map and the handlers, not the messages.
LEMMA WorkerRestartKeeps == ASSUME NEW n \in Nodes PROVE Ownership /\ WorkerRestart(n) => Ownership'
  <1> SUFFICES ASSUME Ownership, WorkerRestart(n) PROVE Ownership'
    OBVIOUS
  <1> USE DEF dbVars, apiVars, workerVars
  <1>1. /\ TypeOK /\ tracked \in [Nodes -> [Assignments -> TrackedContainer]]
        /\ assignH \in [Nodes -> AssignState] /\ unassignH \in [Nodes -> UnassignState]
        /\ pollH \in [Nodes -> PollState] /\ budget \in [Bounded -> Nat]
    BY DEF Ownership, TypeOK
  <1>2. /\ NoTracking \in [Assignments -> TrackedContainer] /\ AssignIdle \in AssignState
        /\ \A a \in Assignments : NoTracking[a] = NotTracked
    BY DEF NoTracking, NotTracked, TrackedContainer, AssignIdle, AssignState
  <1>3. PollIdle \in PollState /\ PollIdle.todo = NoTracking /\ PollIdle.pc = "idle"
    BY <1>2 DEF PollIdle, PollState
  <1>4. /\ tracked' = [tracked EXCEPT ![n] = NoTracking]
        /\ assignH' = [assignH EXCEPT ![n] = AssignIdle]
        /\ unassignH' = [unassignH EXCEPT ![n] = "idle"]
        /\ pollH' = [pollH EXCEPT ![n] = PollIdle]
        /\ UNCHANGED <<runtime, containers, assignQ, unassignQ>>
    BY DEF WorkerRestart
  <1>5. /\ tracked' \in [Nodes -> [Assignments -> TrackedContainer]]
        /\ assignH' \in [Nodes -> AssignState] /\ unassignH' \in [Nodes -> UnassignState]
        /\ pollH' \in [Nodes -> PollState]
    BY <1>1, <1>2, <1>3, <1>4 DEF UnassignState
  <1>6. budget' \in [Bounded -> Nat]
    BY <1>1, SpendType DEF WorkerRestart, Bounded
  <1>7. TypeOK'
    BY <1>1, <1>5, <1>6 DEF TypeOK, WorkerRestart
  <1>8. IdsKept /\ RowsKept
    BY <1>4, SameRuntime, SameRows
  <1>9. AssignHandlersHold' /\ UnassignHandlersHold'
    BY <1>1, <1>4 DEF Ownership, AssignHandlersHold, UnassignHandlersHold, AssignIdle, Owned, CreatedFor
  <1>10. TrackedOwned'
    BY <1>1, <1>2, <1>4 DEF Ownership, TrackedOwned, EntryOwned, CreatedFor
  <1>11. SnapshotsOwned'
    BY <1>1, <1>2, <1>3, <1>4 DEF Ownership, SnapshotsOwned, EntryOwned, CreatedFor
  <1>12. PollsHold'
    BY <1>1, <1>3, <1>4 DEF Ownership, PollsHold, NotTracked
  <1> QED
    BY <1>4, <1>7, <1>8, <1>9, <1>10, <1>11, <1>12, Frame DEF Ownership, WorkerRestart

\* A second delivery of the assignment being handled.
LEMMA RedeliverAssignKeeps ==
    ASSUME NEW n \in Nodes PROVE Ownership /\ RedeliverAssign(n) => Ownership'
  <1> SUFFICES ASSUME Ownership, RedeliverAssign(n) PROVE Ownership'
    OBVIOUS
  <1> USE DEF dbVars, apiVars, workerVars
  <1>1. /\ TypeOK /\ assignQ \in [Nodes -> Seq(Assignments)] /\ assignQ[n] # <<>>
        /\ assignQ' = [assignQ EXCEPT ![n] = Append(@, Head(@))]
    BY DEF Ownership, TypeOK, RedeliverAssign, AssignHandlersHold, Redelivered
  <1>2. PICK a \in Assignments : a = Head(assignQ[n]) /\ a = assignQ[n][1] /\ 1 \in 1..Len(assignQ[n])
    BY <1>1, TailFacts
  <1>3. assignQ' = [assignQ EXCEPT ![n] = Append(assignQ[n], a)]
    BY <1>1, <1>2
  <1>4. /\ assignQ' \in [Nodes -> Seq(Assignments)]
        /\ \A m \in Nodes : assignQ[m] # <<>> =>
              assignQ'[m] # <<>> /\ Head(assignQ'[m]) = Head(assignQ[m])
    BY <1>1, <1>2, <1>3, AppendFacts
  <1>5. budget' \in [Bounded -> Nat]
    BY SpendType DEF Ownership, TypeOK, RedeliverAssign, Bounded
  <1>6. TypeOK'
    BY <1>1, <1>4, <1>5 DEF TypeOK, RedeliverAssign
  <1>7. IdsKept /\ RowsKept /\ UNCHANGED <<runtime, containers, assignH>>
    BY SameRuntime, SameRows DEF RedeliverAssign
  <1>8. \A m \in Nodes : \A i \in 1..Len(assignQ'[m]) :
           \E j \in 1..Len(assignQ[m]) : assignQ'[m][i] = assignQ[m][j]
    BY <1>1, <1>2, <1>3
  <1>9. AssignmentsPlaced'
    BY <1>7, <1>8 DEF Ownership, AssignmentsPlaced, PlacedOn
  <1>10. AssignHandlersHold'
    BY <1>4, <1>7 DEF Ownership, AssignHandlersHold, Owned, CreatedFor
  <1> QED
    BY <1>6, <1>7, <1>9, <1>10, Frame DEF Ownership, RedeliverAssign

\* A second delivery of the unassign being handled.
LEMMA RedeliverUnassignKeeps ==
    ASSUME NEW n \in Nodes PROVE Ownership /\ RedeliverUnassign(n) => Ownership'
  <1> SUFFICES ASSUME Ownership, RedeliverUnassign(n) PROVE Ownership'
    OBVIOUS
  <1> USE DEF dbVars, apiVars, workerVars
  <1>1. /\ TypeOK /\ unassignQ \in [Nodes -> Seq(UnassignMsg)] /\ unassignQ[n] # <<>>
        /\ unassignQ' = [unassignQ EXCEPT ![n] = Append(@, Head(@))]
    BY DEF Ownership, TypeOK, RedeliverUnassign, UnassignHandlersHold, Redelivered
  <1>2. PICK m \in UnassignMsg :
          m = Head(unassignQ[n]) /\ m = unassignQ[n][1] /\ 1 \in 1..Len(unassignQ[n])
    BY <1>1, TailFacts
  <1>3. unassignQ' = [unassignQ EXCEPT ![n] = Append(unassignQ[n], m)]
    BY <1>1, <1>2
  <1>4. /\ unassignQ' \in [Nodes -> Seq(UnassignMsg)]
        /\ \A k \in Nodes : unassignQ[k] # <<>> => unassignQ'[k] # <<>>
    BY <1>1, <1>2, <1>3, AppendFacts
  <1>5. budget' \in [Bounded -> Nat]
    BY SpendType DEF Ownership, TypeOK, RedeliverUnassign, Bounded
  <1>6. TypeOK'
    BY <1>1, <1>4, <1>5 DEF TypeOK, RedeliverUnassign
  <1>7. IdsKept /\ RowsKept /\ UNCHANGED <<runtime, unassignH>>
    BY SameRuntime, SameRows DEF RedeliverUnassign
  <1>8. \A k \in Nodes : \A i \in 1..Len(unassignQ'[k]) :
           \E j \in 1..Len(unassignQ[k]) : unassignQ'[k][i] = unassignQ[k][j]
    BY <1>1, <1>2, <1>3
  <1>9. UnassignNamesOwnContainer'
    BY <1>7, <1>8 DEF Ownership, UnassignNamesOwnContainer, CreatedFor
  <1>10. UnassignHandlersHold'
    BY <1>4, <1>7 DEF Ownership, UnassignHandlersHold
  <1> QED
    BY <1>6, <1>7, <1>9, <1>10, Frame DEF Ownership, RedeliverUnassign

\* Every step of a worker node keeps Ownership.
LEMMA WorkerKeeps == Ownership /\ WorkerNext => Ownership'
  BY StartContainerKeeps, StartContainerErrorKeeps, AssignPublishStatusKeeps, AssignTrackKeeps,
     UnassignRuntimeKeeps, UnassignPublishStatusKeeps, UnassignUntrackKeeps,
     PollSnapshotKeeps, PollInspectKeeps, PollPublishStatusKeeps, PollUpdateKeeps,
     ContainerExitsKeeps, WorkerRestartKeeps, RedeliverAssignKeeps, RedeliverUnassignKeeps
     DEF WorkerNext, HandleAssignment, HandleUnassign, CheckTrackedContainers

=============================================================================
