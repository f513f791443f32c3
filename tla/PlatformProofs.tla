--------------------------- MODULE PlatformProofs ---------------------------
(***************************************************************************)
(* The safety theorems of Platform, for every number of applications,      *)
(* deployments, assignments, nodes and containers and every budget of      *)
(* requests and faults.  The two theorems on the agreement of rows and     *)
(* runtimes name the faults that must not happen.                          *)
(***************************************************************************)
EXTENDS OwnershipProofs

\* The empty database with idle services satisfies Ownership.
LEMMA InitOwnership == Init => Ownership
  <1> SUFFICES ASSUME Init PROVE Ownership
    OBVIOUS
  <1>1. /\ NoApp \in AppRow /\ NoDeployment \in DeploymentRow /\ NoContainer \in ContainerRow
        /\ NoRuntime \in RuntimeContainer /\ NotTracked \in TrackedContainer
        /\ SchedIdle \in SchedState /\ CtlIdle \in CtlState /\ DeleteIdle \in DeleteState
        /\ AssignIdle \in AssignState
    BY DEF NoApp, AppRow, NoDeployment, DeploymentRow, NoContainer, ContainerRow, NoRuntime,
           RuntimeContainer, RuntimeState, NotTracked, TrackedContainer, SchedIdle, SchedState,
           CtlIdle, CtlState, DeleteIdle, DeleteState, AssignIdle, AssignState
  <1>2. NoTracking \in [Assignments -> TrackedContainer]
    BY <1>1 DEF NoTracking
  <1>3. PollIdle \in PollState
    BY <1>2 DEF PollIdle, PollState
  <1>4. TypeOK
    BY <1>1, <1>2, <1>3, ClusterAssumption DEF Init, TypeOK, UnassignState
  <1>5. RowsWellFormed /\ RunningRowNamesContainer
    BY DEF Init, RowsWellFormed, RunningRowNamesContainer, NoContainer, NoDeployment,
           ExistingDeployment, LiveStatus, Owned
  <1>6. RuntimesPlaced /\ SchedulerHolds /\ ControllerHolds /\ DeletesHold
    BY DEF Init, RuntimesPlaced, SchedulerHolds, ControllerHolds, DeletesHold, SchedIdle, CtlIdle,
           DeleteIdle
  <1>7. AssignmentsPlaced /\ StatusesOwned /\ UnassignNamesOwnContainer
    BY DEF Init, AssignmentsPlaced, StatusesOwned, UnassignNamesOwnContainer
  <1>8. AssignHandlersHold /\ UnassignHandlersHold
    BY DEF Init, AssignHandlersHold, UnassignHandlersHold, AssignIdle
  <1>9. TrackedOwned /\ SnapshotsOwned /\ PollsHold
    BY DEF Init, TrackedOwned, SnapshotsOwned, PollsHold, EntryOwned, NoTracking, PollIdle
  <1> QED
    BY <1>4, <1>5, <1>6, <1>7, <1>8, <1>9 DEF Ownership

\* A stuttering step changes nothing that Ownership is about.
LEMMA StutterKeeps == Ownership /\ UNCHANGED vars => Ownership'
  <1> SUFFICES ASSUME Ownership, UNCHANGED vars PROVE Ownership'
    OBVIOUS
  <1>1. IdsKept /\ RowsKept
    BY SameRuntime, SameRows DEF vars
  <1>2. TypeOK'
    BY DEF Ownership, TypeOK, vars
  <1> QED
    BY <1>1, <1>2, Frame DEF Ownership, vars

\* Ownership is an invariant: no interleaving of the services, no redelivery, no
\* restart and no lost publish makes a message, a handler or a row name a
\* container of another assignment or of another node.
THEOREM OwnershipInvariant == Spec => []Ownership
  <1>1. Ownership /\ [Next]_vars => Ownership'
    BY ApiKeeps, SchedulerKeeps, ControllerKeeps, WorkerKeeps, StutterKeeps DEF Next
  <1> QED
    BY InitOwnership, <1>1, PTL DEF Spec

\* Every variable keeps its type: rows and messages carry only values of the
\* columns and enums they belong to.
THEOREM TypeCorrect == Spec => []TypeOK
  <1>1. Ownership => TypeOK
    BY DEF Ownership
  <1> QED
    BY OwnershipInvariant, <1>1, PTL

\* handleUnassign never stops a container of another assignment.
THEOREM UnassignStopsOnlyItsOwn == Spec => []UnassignNamesOwnContainer
  <1>1. Ownership => UnassignNamesOwnContainer
    BY DEF Ownership
  <1> QED
    BY OwnershipInvariant, <1>1, PTL

\* A row in status running names a container that its node created for it.
THEOREM RunningRowsAddressable == Spec => []RunningRowNamesContainer
  <1>1. Ownership => RunningRowNamesContainer
    BY DEF Ownership
  <1> QED
    BY OwnershipInvariant, <1>1, PTL

-----------------------------------------------------------------------------
(* The container quota *)

\* A terminal status leaves its stamp in the same UPDATE.
EndedStamped ==
    \A a \in Assignments : containers[a].status \in {"crashed", "stopped"} => containers[a].stoppedAt

\* The invariant: the rows that never ended fit the quota, with one to spare
\* between the trigger's count and the insert it let through.
QuotaKept ==
    /\ EndedStamped
    /\ FreshWithinQuota
    /\ sched.pc = "insert" => Cardinality(FreshContainers) + 1 <= MaxContainers

\* The fresh rows are finitely many, and no more than CurrentUsage counts.
LEMMA FreshCounted ==
    /\ IsFiniteSet(FreshContainers)
    /\ Cardinality(FreshContainers) \in Nat /\ CurrentUsage \in Nat
    /\ Cardinality(FreshContainers) <= CurrentUsage
  <1> DEFINE Used == {a \in Assignments : ActiveContainer(a)}
  <1>1. IsFiniteSet(Used) /\ FreshContainers \subseteq Used
    BY ClusterAssumption, FS_Subset DEF FreshContainers
  <1> QED
    BY <1>1, FS_Subset, FS_CardinalityType DEF CurrentUsage

\* handleStatus makes no row fresh: a stamp, once written, stays.
LEMMA StatusFreshens ==
    ASSUME Ownership, EndedStamped, HandleStatus
    PROVE  EndedStamped' /\ FreshContainers' \subseteq FreshContainers
  <1>1. containers \in [Assignments -> ContainerRow] /\ statusQ \in Seq(StatusMsg)
    BY DEF Ownership, TypeOK
  <1>2. Head(statusQ) \in StatusMsg
    BY <1>1 DEF HandleStatus
  <1>3. PICK b \in Assignments : b = Head(statusQ).assignment
    BY <1>2 DEF StatusMsg
  <1>4. CASE UNCHANGED containers
    BY <1>4 DEF EndedStamped, FreshContainers, ActiveContainer
  <1>5. ASSUME NEW st \in LiveStatus, NEW id, containers[b].status \in LiveStatus,
               UpdateStatus(b, st, id)
        PROVE  EndedStamped' /\ FreshContainers' \subseteq FreshContainers
    <2>1. /\ \A a \in Assignments : a # b => containers'[a] = containers[a]
          /\ containers'[b].status = st
          /\ containers'[b].stoppedAt = (containers[b].stoppedAt \/ st \in {"crashed", "stopped"})
      BY <1>1, <1>5 DEF UpdateStatus
    <2>2. containers[b].stoppedAt \in BOOLEAN
      BY <1>1 DEF ContainerRow
    <2>3. EndedStamped'
      BY <2>1, <2>2 DEF EndedStamped
    <2>4. ~containers'[b].stoppedAt => ActiveContainer(b) /\ ~containers[b].stoppedAt
      BY <1>5, <2>1, <2>2 DEF EndedStamped, ActiveContainer, LiveStatus
    <2> QED
      BY <2>1, <2>3, <2>4 DEF FreshContainers, ActiveContainer
  <1>6. Head(statusQ).status \in LiveStatus
    BY <1>2 DEF StatusMsg
  <1> QED
    BY <1>3, <1>4, <1>5, <1>6 DEF HandleStatus

\* Nothing but the insert makes a row fresh.
LEMMA OnlyInsertFreshens ==
    ASSUME Ownership, EndedStamped, [Next]_vars, ~CreateContainerRow
    PROVE  EndedStamped' /\ FreshContainers' \subseteq FreshContainers
  <1> USE DEF dbVars, apiVars, workerVars
  <1>1. containers \in [Assignments -> ContainerRow]
    BY DEF Ownership, TypeOK
  <1>2. ASSUME \A a \in Assignments : \/ containers'[a] = containers[a]
                                      \/ containers'[a] = DeletedContainer
        PROVE  EndedStamped' /\ FreshContainers' \subseteq FreshContainers
    BY <1>2 DEF EndedStamped, FreshContainers, ActiveContainer, DeletedContainer
  <1>3. CASE \E app \in Apps : DeleteTx(app)
    BY <1>2, <1>3 DEF DeleteTx
  <1>4. CASE ApiNext /\ ~\E app \in Apps : DeleteTx(app)
    <2>1. UNCHANGED containers
      BY <1>4 DEF ApiNext, CreateApplication, DeployTx, PublishPlacement, RecordDeployFailure,
                  ScaleApplication, DeleteList, DeletePublish, ApiRestart
    <2> QED
      BY <1>2, <2>1
  <1>5. CASE SchedulerNext /\ ~HandleStatus
    <2>1. UNCHANGED containers
      BY <1>5 DEF SchedulerNext, SelectNode, CheckQuota, EnforceContainerQuota, PublishAssignment,
                  SweepUnreachable, HandleHeartbeat, RedeliverPlacement, RedeliverStatus,
                  SchedulerRestart
    <2> QED
      BY <1>2, <2>1
  <1>6. CASE ControllerNext
    <2>1. UNCHANGED containers
      BY <1>6 DEF ControllerNext, Tick, TickList, Reconcile, ReconcileOne, ScaleUp, ScaleDownList,
                  ScaleDownPublish, ControllerRestart
    <2> QED
      BY <1>2, <2>1
  <1>7. CASE WorkerNext
    <2>1. UNCHANGED containers
      BY <1>7 DEF WorkerNext, HandleAssignment, StartContainer, StartContainerError,
                  AssignPublishStatus, AssignTrack, HandleUnassign, UnassignStop, UnassignRemove,
                  UnassignPublishStatus, UnassignUntrack, CheckTrackedContainers, PollSnapshot,
                  PollInspect, PollPublishStatus, PollUpdate, ContainerExits, WorkerRestart,
                  RedeliverAssign, RedeliverUnassign
    <2> QED
      BY <1>2, <2>1
  <1>8. CASE UNCHANGED vars
    BY <1>2, <1>8 DEF vars
  <1> QED
    BY <1>3, <1>4, <1>5, <1>6, <1>7, <1>8, StatusFreshens DEF Next

\* The handler reaches the insert only past the trigger.
LEMMA InsertPastTrigger ==
    ASSUME Ownership, [Next]_vars, sched'.pc = "insert"
    PROVE  sched.pc = "insert" \/ EnforceContainerQuota
  <1> USE DEF dbVars, apiVars, workerVars
  <1>1. sched \in SchedState
    BY DEF Ownership, TypeOK
  <1>2. CASE SchedulerNext
    <2>1. CASE CheckQuota
      BY <1>1, <2>1 DEF CheckQuota, AckPlacement, SchedIdle, SchedState
    <2>2. CASE ~CheckQuota
      BY <1>2, <2>2 DEF SchedulerNext, SelectNode, CreateContainerRow, PublishAssignment,
                        HandleStatus, SweepUnreachable, HandleHeartbeat, RedeliverPlacement,
                        RedeliverStatus, SchedulerRestart, AckPlacement, SchedIdle
    <2> QED
      BY <2>1, <2>2
  <1>3. CASE ApiNext
    BY <1>3 DEF ApiNext, CreateApplication, DeployTx, PublishPlacement, RecordDeployFailure,
                ScaleApplication, DeleteList, DeletePublish, DeleteTx, ApiRestart
  <1>4. CASE ControllerNext
    BY <1>4 DEF ControllerNext, Tick, TickList, Reconcile, ReconcileOne, ScaleUp, ScaleDownList,
                ScaleDownPublish, ControllerRestart
  <1>5. CASE WorkerNext
    BY <1>5 DEF WorkerNext, HandleAssignment, StartContainer, StartContainerError,
                AssignPublishStatus, AssignTrack, HandleUnassign, UnassignStop, UnassignRemove,
                UnassignPublishStatus, UnassignUntrack, CheckTrackedContainers, PollSnapshot,
                PollInspect, PollPublishStatus, PollUpdate, ContainerExits, WorkerRestart,
                RedeliverAssign, RedeliverUnassign
  <1> QED
    BY <1>2, <1>3, <1>4, <1>5 DEF Next, vars

\* The insert takes up the room that the trigger left.
LEMMA InsertTakesRoom ==
    ASSUME Ownership, QuotaKept, CreateContainerRow
    PROVE  QuotaKept'
  <1>1. containers \in [Assignments -> ContainerRow] /\ sched.pc = "insert"
    BY DEF Ownership, TypeOK, CreateContainerRow
  <1>2. sched'.pc # "insert"
    BY DEF CreateContainerRow, AckPlacement, SchedIdle
  <1>3. CASE UNCHANGED containers
    BY <1>2, <1>3 DEF QuotaKept, EndedStamped, FreshWithinQuota, FreshContainers, ActiveContainer
  <1>4. CASE ~UNCHANGED containers
    <2>1. PICK b \in Assignments :
            containers' = [containers EXCEPT ![b] =
                             [status |-> "pending", deployment |-> sched.deployment,
                              node |-> sched.node, runtimeID |-> NULL,
                              startedAt |-> 0, stoppedAt |-> FALSE]]
      BY <1>4 DEF CreateContainerRow, Mint, NewAssignments
    <2>2. \A a \in Assignments : a # b => containers'[a] = containers[a]
      BY <1>1, <2>1
    <2>3. containers'[b].status = "pending"
      BY <1>1, <2>1
    <2>4. EndedStamped'
      BY <2>2, <2>3 DEF QuotaKept, EndedStamped
    <2>5. FreshContainers' \subseteq FreshContainers \cup {b}
      BY <2>2 DEF FreshContainers, ActiveContainer
    <2>6. /\ IsFiniteSet(FreshContainers \cup {b})
          /\ Cardinality(FreshContainers \cup {b}) <= Cardinality(FreshContainers) + 1
          /\ Cardinality(FreshContainers \cup {b}) \in Nat
      <3>1. IsFiniteSet(FreshContainers) /\ Cardinality(FreshContainers) \in Nat
        BY FreshCounted
      <3>2. /\ IsFiniteSet(FreshContainers \cup {b})
            /\ \/ Cardinality(FreshContainers \cup {b}) = Cardinality(FreshContainers)
               \/ Cardinality(FreshContainers \cup {b}) = Cardinality(FreshContainers) + 1
        BY <3>1, FS_AddElement
      <3> QED
        BY <3>1, <3>2
    <2>7. Cardinality(FreshContainers') \in Nat /\ Cardinality(FreshContainers') <= Cardinality(FreshContainers \cup {b})
      BY <2>5, <2>6, FS_Subset, FS_CardinalityType
    <2>8. Cardinality(FreshContainers) + 1 <= MaxContainers
      BY <1>1 DEF QuotaKept
    <2>9. FreshWithinQuota'
      BY <2>6, <2>7, <2>8, FreshCounted, ClusterAssumption DEF FreshWithinQuota
    <2> QED
      BY <1>2, <2>4, <2>9 DEF QuotaKept
  <1> QED
    BY <1>3, <1>4

\* The active rows exceed max_containers only by rows that a status revived,
\* whatever happens between the scheduler's check, the trigger and the insert.
THEOREM QuotaRespected == Spec => []FreshWithinQuota
  <1>1. Init => QuotaKept
    <2> SUFFICES ASSUME Init PROVE QuotaKept
      OBVIOUS
    <2>1. FreshContainers = {} /\ EndedStamped /\ sched.pc = "idle"
      BY DEF Init, FreshContainers, ActiveContainer, EndedStamped, NoContainer, SchedIdle
    <2>2. Cardinality(FreshContainers) = 0
      BY <2>1, FS_EmptySet
    <2> QED
      BY <2>1, <2>2, ClusterAssumption DEF QuotaKept, FreshWithinQuota
  <1>2. Ownership /\ QuotaKept /\ [Next]_vars => QuotaKept'
    <2> SUFFICES ASSUME Ownership, QuotaKept, [Next]_vars PROVE QuotaKept'
      OBVIOUS
    <2>1. CASE CreateContainerRow
      BY <2>1, InsertTakesRoom
    <2>2. CASE ~CreateContainerRow
      <3>1. EndedStamped' /\ FreshContainers' \subseteq FreshContainers
        BY <2>2, OnlyInsertFreshens DEF QuotaKept
      <3>2. Cardinality(FreshContainers') \in Nat /\ Cardinality(FreshContainers') <= Cardinality(FreshContainers)
        BY <3>1, FreshCounted, FS_Subset, FS_CardinalityType
      <3>3. FreshWithinQuota'
        BY <3>2, FreshCounted, ClusterAssumption DEF QuotaKept, FreshWithinQuota
      <3>4. ASSUME sched'.pc = "insert" PROVE Cardinality(FreshContainers) + 1 <= MaxContainers
        <4>1. CASE sched.pc = "insert"
          BY <4>1 DEF QuotaKept
        <4>2. CASE EnforceContainerQuota
          <5>1. CurrentUsage + 1 <= MaxContainers
            BY <3>4, <4>2 DEF EnforceContainerQuota, AckPlacement, SchedIdle
          <5> QED
            BY <5>1, FreshCounted, ClusterAssumption
        <4> QED
          BY <3>4, <4>1, <4>2, InsertPastTrigger
      <3>5. sched'.pc = "insert" => Cardinality(FreshContainers') + 1 <= MaxContainers
        BY <3>2, <3>4, FreshCounted, ClusterAssumption
      <3> QED
        BY <3>1, <3>3, <3>5 DEF QuotaKept
    <2> QED
      BY <2>1, <2>2
  <1>3. QuotaKept => FreshWithinQuota
    BY DEF QuotaKept
  <1> QED
    BY OwnershipInvariant, <1>1, <1>2, <1>3, PTL DEF Spec

-----------------------------------------------------------------------------
(* Agreement of the rows with the runtimes.  Both directions hold as long as *)
(* certain faults do not happen; which ones is part of each theorem.  The    *)
(* argument has three layers: an assignment is started at most once, what    *)
(* is said to have ended has ended, and what ends is reported.               *)

\* Faults that do not happen in a behaviour with this Budget.
Never(events) == \A e \in events : Budget[e] = 0

\* No event happens more often than Budget allows.
Unspent == \A e \in Bounded : budget[e] <= Budget[e]

\* An event that never happens cannot be spent.
LEMMA NeverSpent ==
    ASSUME Ownership, Unspent, NEW e \in Bounded, Budget[e] = 0
    PROVE  ~Spend(e)
  <1>1. budget[e] \in Nat /\ budget[e] <= 0
    BY DEF Ownership, TypeOK, Unspent
  <1> QED
    BY <1>1 DEF Spend

\* Spending leaves every event within Budget.
LEMMA SpendUnspent ==
    ASSUME Ownership, Unspent, NEW e \in Bounded, Spend(e)
    PROVE  Unspent'
  <1>1. budget \in [Bounded -> Nat] /\ Budget \in [Bounded -> Nat]
    BY ClusterAssumption DEF Ownership, TypeOK
  <1>2. budget' = [budget EXCEPT ![e] = budget[e] - 1]
    BY DEF Spend
  <1> QED
    BY <1>1, <1>2 DEF Unspent

\* Every step leaves the budget alone or spends one bounded event.
LEMMA UnspentKept == ASSUME Ownership, Unspent, [Next]_vars PROVE Unspent'
  <1>1. UNCHANGED budget \/ \E e \in Bounded : Spend(e)
    <2>1. CASE ApiNext
      BY <2>1 DEF ApiNext, CreateApplication, DeployTx, PublishPlacement, RecordDeployFailure,
                  ScaleApplication, DeleteList, DeletePublish, DeleteTx, ApiRestart, Bounded
    <2>2. CASE SchedulerNext
      BY <2>2 DEF SchedulerNext, SelectNode, CheckQuota, EnforceContainerQuota, CreateContainerRow, PublishAssignment,
                  HandleStatus, SweepUnreachable, HandleHeartbeat, RedeliverPlacement,
                  RedeliverStatus, SchedulerRestart, Bounded
    <2>3. CASE ControllerNext
      BY <2>3 DEF ControllerNext, Tick, Reconcile, ReconcileOne, ScaleUp, ScaleDownList,
                  ScaleDownPublish, ControllerRestart, Bounded
    <2>4. CASE WorkerNext
      BY <2>4 DEF WorkerNext, HandleAssignment, StartContainer, StartContainerError,
                  AssignPublishStatus, AssignTrack, HandleUnassign, UnassignStop, UnassignRemove,
                  UnassignPublishStatus, UnassignUntrack, CheckTrackedContainers, PollSnapshot,
                  PollInspect, PollPublishStatus, PollUpdate, ContainerExits, WorkerRestart,
                  RedeliverAssign, RedeliverUnassign, PublishStatus, Bounded
    <2> QED
      BY <2>1, <2>2, <2>3, <2>4 DEF Next, vars
  <1> QED
    BY <1>1, SpendUnspent DEF Unspent

-----------------------------------------------------------------------------
(* First layer: an assignment is delivered and started at most once, and     *)
(* what the goroutines of a worker hold of a container was true of it.       *)

\* Container r ended, for good.
Ended(r) == runtime[r].state \in {"exited0", "exited1", "removed"}
Terminal == {"crashed", "stopped"}

\* What may be said of container r once it was started.
Truthful(status, r) == status = "running" \/ (status \in Terminal /\ Ended(r))

Unstarted(a) == \A r \in RuntimeIds : runtime[r].assignment # a

OneRuntime ==
    \A r, s \in RuntimeIds :
       runtime[r].assignment \in Assignments /\ runtime[s].assignment = runtime[r].assignment => r = s
AssignedOnce ==
    \A m, n \in Nodes : \A i \in 1..Len(assignQ[m]), j \in 1..Len(assignQ[n]) :
       assignQ[m][i] = assignQ[n][j] => m = n /\ i = j
AssignedUnstarted ==
    \A n \in Nodes : \A i \in 1..Len(assignQ[n]) :
       i > 1 \/ assignH[n].pc = "idle" => Unstarted(assignQ[n][i])
PlacedUnassigned ==
    sched.pc = "publish" =>
       /\ Unstarted(sched.assignment)
       /\ \A n \in Nodes : \A i \in 1..Len(assignQ[n]) : assignQ[n][i] # sched.assignment

NoneCreated == \A r \in RuntimeIds : runtime[r].state # "created"
HandlersTrue ==
    \A n \in Nodes : assignH[n].pc # "idle" =>
       assignH[n].containerID # NULL /\ Truthful(assignH[n].status, assignH[n].containerID)
EntryTrue(entry) == entry # NotTracked => Truthful(entry.lastStatus, entry.containerID)
EntriesTrue ==
    \A n \in Nodes, a \in Assignments : EntryTrue(tracked[n][a]) /\ EntryTrue(pollH[n].todo[a])
PollsTrue ==
    \A n \in Nodes : pollH[n].pc \in {"publish", "update"} =>
       pollH[n].status \in Terminal /\ Ended(pollH[n].todo[pollH[n].assignment].containerID)

Deliveries == OneRuntime /\ AssignedOnce /\ AssignedUnstarted /\ PlacedUnassigned
Held == NoneCreated /\ HandlersTrue /\ EntriesTrue /\ PollsTrue
StartedOnce == Deliveries /\ Held

\* The faults that start an assignment's container again, or leave one behind
\* that nobody knows of.
Repeats == {"startError", "assignRedelivery", "workerRestart"}

\* No container changes hands, comes back or is left created.
RuntimeMoves ==
    \A r \in RuntimeIds :
       /\ runtime'[r].assignment = runtime[r].assignment
       /\ Ended(r) => Ended(r)'
       /\ runtime'[r].state = "created" => runtime[r].state = "created"

\* A worker's ids are ids of containers.
LEMMA HeldIds ==
    ASSUME Ownership, NEW n \in Nodes
    PROVE  /\ assignH[n].pc # "idle" => assignH[n].containerID \in RuntimeIds \cup {NULL}
           /\ \A a \in Assignments :
                 /\ tracked[n][a] # NotTracked => /\ tracked[n][a].containerID \in RuntimeIds
                                                  /\ CreatedFor(tracked[n][a].containerID, a, n)
                 /\ pollH[n].todo[a] # NotTracked => /\ pollH[n].todo[a].containerID \in RuntimeIds
                                                     /\ CreatedFor(pollH[n].todo[a].containerID, a, n)
  <1>1. assignH[n].containerID \in RuntimeIds \cup {NULL}
    BY DEF Ownership, TypeOK, AssignState
  <1>2. \A a \in Assignments : tracked[n][a].containerID \in RuntimeIds \cup {NULL}
    BY DEF Ownership, TypeOK, TrackedContainer
  <1>3. pollH[n].todo \in [Assignments -> TrackedContainer]
    BY DEF Ownership, TypeOK, PollState
  <1>4. \A a \in Assignments : pollH[n].todo[a].containerID \in RuntimeIds \cup {NULL}
    BY <1>3 DEF TrackedContainer
  <1> QED
    BY <1>1, <1>2, <1>4 DEF Ownership, TrackedOwned, SnapshotsOwned, EntryOwned

\* Deliveries is kept when containers keep their assignments and nothing is
\* delivered, finished or placed.
LEMMA SameDeliveries ==
    ASSUME Deliveries, RuntimeMoves, UNCHANGED assignQ,
           \A n \in Nodes : assignH'[n].pc = "idle" => assignH[n].pc = "idle",
           sched'.pc = "publish" => sched' = sched
    PROVE  Deliveries'
  <1>1. \A a : Unstarted(a) <=> Unstarted(a)'
    BY DEF Unstarted, RuntimeMoves
  <1>2. OneRuntime'
    BY DEF Deliveries, OneRuntime, RuntimeMoves
  <1>3. AssignedOnce'
    BY DEF Deliveries, AssignedOnce
  <1>4. AssignedUnstarted'
    BY <1>1 DEF Deliveries, AssignedUnstarted
  <1>5. PlacedUnassigned'
    BY <1>1 DEF Deliveries, PlacedUnassigned
  <1> QED
    BY <1>2, <1>3, <1>4, <1>5 DEF Deliveries

\* What was true of a container stays true.
LEMMA StaysTruthful ==
    ASSUME RuntimeMoves, NEW r \in RuntimeIds, NEW status, Truthful(status, r)
    PROVE  Truthful(status, r)'
  BY DEF RuntimeMoves, Truthful, Ended

\* A step in which no goroutine of a worker takes part, other than through the
\* state of a container, keeps the first layer.
LEMMA QuietStep ==
    ASSUME Ownership, StartedOnce, RuntimeMoves, UNCHANGED <<assignQ, assignH, tracked, pollH>>,
           sched'.pc = "publish" => sched' = sched
    PROVE  StartedOnce'
  <1>1. Deliveries'
    BY SameDeliveries DEF StartedOnce
  <1>2. NoneCreated'
    BY DEF StartedOnce, Held, NoneCreated, RuntimeMoves
  <1>3. HandlersTrue'
    <2> SUFFICES ASSUME NEW n \in Nodes, assignH[n].pc # "idle"
                 PROVE  /\ assignH[n].containerID # NULL
                        /\ Truthful(assignH[n].status, assignH[n].containerID)'
      BY DEF HandlersTrue
    <2>1. assignH[n].containerID # NULL /\ Truthful(assignH[n].status, assignH[n].containerID)
      BY DEF StartedOnce, Held, HandlersTrue
    <2> QED
      BY <2>1, HeldIds, StaysTruthful
  <1>4. EntriesTrue'
    <2> SUFFICES ASSUME NEW n \in Nodes, NEW a \in Assignments
                 PROVE  EntryTrue(tracked[n][a])' /\ EntryTrue(pollH[n].todo[a])'
      BY DEF EntriesTrue
    <2>1. EntryTrue(tracked[n][a]) /\ EntryTrue(pollH[n].todo[a])
      BY DEF StartedOnce, Held, EntriesTrue
    <2> QED
      BY <2>1, HeldIds, StaysTruthful DEF EntryTrue, NotTracked
  <1>5. PollsTrue'
    <2> SUFFICES ASSUME NEW n \in Nodes, pollH[n].pc \in {"publish", "update"}
                 PROVE  /\ pollH[n].status \in Terminal
                        /\ Ended(pollH[n].todo[pollH[n].assignment].containerID)'
      BY DEF PollsTrue, Terminal
    <2>1. /\ pollH[n].status \in Terminal
          /\ Ended(pollH[n].todo[pollH[n].assignment].containerID)
      BY DEF StartedOnce, Held, PollsTrue
    <2>2. pollH[n].assignment \in Assignments /\ pollH[n].todo[pollH[n].assignment] # NotTracked
      BY DEF Ownership, PollsHold
    <2>3. pollH[n].todo[pollH[n].assignment].containerID \in RuntimeIds
      BY <2>2, HeldIds
    <2> QED
      BY <2>1, <2>3 DEF RuntimeMoves, Ended
  <1> QED
    BY <1>1, <1>2, <1>3, <1>4, <1>5 DEF StartedOnce, Held

\* A running container that exits, or any present one that is removed.
LEMMA StateMoves ==
    ASSUME Ownership, NEW r \in RuntimeIds,
           \/ runtime[r].state = "running" /\ \E s \in {"exited0", "exited1"} :
                                                 runtime' = [runtime EXCEPT ![r].state = s]
           \/ runtime' = [runtime EXCEPT ![r].state = "removed"]
    PROVE  RuntimeMoves /\ Ended(r)'
  <1>1. runtime \in [RuntimeIds -> RuntimeContainer]
    BY DEF Ownership, TypeOK
  <1> QED
    BY <1>1 DEF RuntimeMoves, Ended, RuntimeContainer

\* The apiserver and the controller take no part in the first layer.
LEMMA ControlPlaneStarts ==
    ASSUME Ownership, StartedOnce, ApiNext \/ ControllerNext \/ UNCHANGED vars
    PROVE  StartedOnce'
  <1> USE DEF dbVars, apiVars, workerVars
  <1>1. UNCHANGED <<runtime, assignQ, assignH, tracked, pollH, sched>>
    <2>1. CASE ApiNext
      BY <2>1 DEF ApiNext, CreateApplication, DeployTx, PublishPlacement, RecordDeployFailure,
                  ScaleApplication, DeleteList, DeletePublish, DeleteTx, ApiRestart
    <2>2. CASE ControllerNext
      BY <2>2 DEF ControllerNext, Tick, TickList, Reconcile, ReconcileOne, ScaleUp, ScaleDownList,
                  ScaleDownPublish, ControllerRestart
    <2> QED
      BY <2>1, <2>2 DEF vars
  <1>2. RuntimeMoves
    BY <1>1 DEF RuntimeMoves, Ended
  <1> QED
    BY <1>1, <1>2, QuietStep

\* A new row belongs to an assignment nobody has heard of.
LEMMA CreateContainerRowStarts ==
    ASSUME Ownership, StartedOnce, CreateContainerRow
    PROVE  StartedOnce'
  <1> USE DEF dbVars, apiVars, workerVars
  <1>1. UNCHANGED <<runtime, assignQ, assignH, tracked, pollH>>
    BY DEF CreateContainerRow
  <1>2. RuntimeMoves
    BY <1>1 DEF RuntimeMoves, Ended
  <1>3. CASE sched'.pc # "publish"
    BY <1>1, <1>2, <1>3, QuietStep
  <1>4. CASE sched'.pc = "publish"
    <2>1. PICK a \in Assignments :
            /\ containers[a].status = "none"
            /\ sched' = [pc |-> "publish", deployment |-> sched.deployment,
                         node |-> sched.node, assignment |-> a]
      BY <1>4 DEF CreateContainerRow, AckPlacement, SchedIdle, Mint, NewAssignments
    <2>2. Unstarted(a)
      BY <2>1, NullIsNoId DEF Ownership, RuntimesPlaced, PlacedOn, Unstarted, NoRuntime
    <2>3. \A n \in Nodes : \A i \in 1..Len(assignQ[n]) : assignQ[n][i] # a
      BY <2>1 DEF Ownership, AssignmentsPlaced, PlacedOn
    <2>4. PlacedUnassigned'
      BY <1>1, <2>1, <2>2, <2>3 DEF PlacedUnassigned, Unstarted
    <2>5. OneRuntime' /\ AssignedOnce' /\ AssignedUnstarted'
      BY <1>1 DEF StartedOnce, Deliveries, OneRuntime, AssignedOnce, AssignedUnstarted, Unstarted
    <2>6. Held'
      BY <1>1 DEF StartedOnce, Held, NoneCreated, HandlersTrue, EntriesTrue, PollsTrue, Truthful,
                  EntryTrue, Ended
    <2> QED
      BY <2>4, <2>5, <2>6 DEF StartedOnce, Deliveries
  <1> QED
    BY <1>3, <1>4

\* It is published once.
LEMMA PublishAssignmentStarts ==
    ASSUME Ownership, StartedOnce, PublishAssignment
    PROVE  StartedOnce'
  <1> USE DEF dbVars, apiVars, workerVars
  <1>1. UNCHANGED <<runtime, assignH, tracked, pollH>> /\ sched'.pc = "idle"
    BY DEF PublishAssignment, AckPlacement, SchedIdle
  <1>2. RuntimeMoves
    BY <1>1 DEF RuntimeMoves, Ended
  <1>3. CASE UNCHANGED assignQ
    BY <1>1, <1>2, <1>3, QuietStep
  <1>4. CASE assignQ' = [assignQ EXCEPT ![sched.node] = Append(@, sched.assignment)]
    <2>1. PICK a \in Assignments, n \in Nodes : a = sched.assignment /\ n = sched.node
      BY DEF Ownership, SchedulerHolds, PublishAssignment
    <2>2. /\ Unstarted(a)
          /\ \A m \in Nodes : \A i \in 1..Len(assignQ[m]) : assignQ[m][i] # a
      BY <2>1 DEF PublishAssignment, StartedOnce, Deliveries, PlacedUnassigned
    <2>3. assignQ \in [Nodes -> Seq(Assignments)]
      BY DEF Ownership, TypeOK
    <2>4. assignQ' = [assignQ EXCEPT ![n] = Append(assignQ[n], a)]
      BY <1>4, <2>1
    <2>5. \A m \in Nodes : m # n => assignQ'[m] = assignQ[m]
      BY <2>3, <2>4
    <2>6. /\ Len(assignQ[n]) \in Nat
          /\ Len(assignQ'[n]) = Len(assignQ[n]) + 1
          /\ \A i \in 1..Len(assignQ[n]) : assignQ'[n][i] = assignQ[n][i]
          /\ assignQ'[n][Len(assignQ[n]) + 1] = a
      BY <2>3, <2>4, AppendFacts
    <2>7. AssignedOnce'
      <3> SUFFICES ASSUME NEW m \in Nodes, NEW k \in Nodes, NEW i \in 1..Len(assignQ'[m]),
                          NEW j \in 1..Len(assignQ'[k]), assignQ'[m][i] = assignQ'[k][j]
                   PROVE  m = k /\ i = j
        BY DEF AssignedOnce
      <3>1. ASSUME NEW l \in Nodes, NEW h \in 1..Len(assignQ'[l])
            PROVE  \/ l = n /\ h = Len(assignQ[n]) + 1 /\ assignQ'[l][h] = a
                   \/ h \in 1..Len(assignQ[l]) /\ assignQ'[l][h] = assignQ[l][h]
        BY <2>5, <2>6, <3>1
      <3>2. \/ m = n /\ i = Len(assignQ[n]) + 1 /\ assignQ'[m][i] = a
            \/ i \in 1..Len(assignQ[m]) /\ assignQ'[m][i] = assignQ[m][i]
        BY <3>1
      <3>3. \/ k = n /\ j = Len(assignQ[n]) + 1 /\ assignQ'[k][j] = a
            \/ j \in 1..Len(assignQ[k]) /\ assignQ'[k][j] = assignQ[k][j]
        BY <3>1
      <3> QED
        BY <2>2, <3>2, <3>3 DEF StartedOnce, Deliveries, AssignedOnce
    <2>8. \A b : Unstarted(b) <=> Unstarted(b)'
      BY <1>1 DEF Unstarted
    <2>9. AssignedUnstarted'
      BY <1>1, <2>2, <2>5, <2>6, <2>8 DEF StartedOnce, Deliveries, AssignedUnstarted
    <2>10. OneRuntime' /\ PlacedUnassigned'
      BY <1>1 DEF StartedOnce, Deliveries, OneRuntime, PlacedUnassigned
    <2>11. Held'
      BY <1>1 DEF StartedOnce, Held, NoneCreated, HandlersTrue, EntriesTrue, PollsTrue, Truthful,
                  EntryTrue, Ended
    <2> QED
      BY <2>7, <2>9, <2>10, <2>11 DEF StartedOnce, Deliveries
  <1> QED
    BY <1>3, <1>4 DEF PublishAssignment

\* No step of the scheduler breaks the first layer.
LEMMA SchedulerStarts ==
    ASSUME Ownership, StartedOnce, SchedulerNext
    PROVE  StartedOnce'
  <1> USE DEF dbVars, apiVars, workerVars
  <1>1. ASSUME ~CreateContainerRow, ~PublishAssignment PROVE StartedOnce'
    <2>1. UNCHANGED <<runtime, assignQ, assignH, tracked, pollH>>
      BY <1>1 DEF SchedulerNext, SelectNode, CheckQuota, EnforceContainerQuota, HandleStatus, SweepUnreachable,
                  HandleHeartbeat, RedeliverPlacement, RedeliverStatus, SchedulerRestart
    <2>2. sched'.pc # "publish" \/ sched' = sched
      <3>1. CASE CheckQuota
        <4>1. sched \in SchedState
          BY DEF Ownership, TypeOK
        <4> QED
          BY <3>1, <4>1 DEF CheckQuota, AckPlacement, SchedIdle, SchedState
      <3>2. CASE EnforceContainerQuota
        <4>1. sched \in SchedState
          BY DEF Ownership, TypeOK
        <4> QED
          BY <3>2, <4>1 DEF EnforceContainerQuota, AckPlacement, SchedIdle, SchedState
      <3>3. CASE ~CheckQuota /\ ~EnforceContainerQuota
        BY <1>1, <3>3 DEF SchedulerNext, SelectNode, HandleStatus, SweepUnreachable,
                    HandleHeartbeat, RedeliverPlacement, RedeliverStatus, SchedulerRestart,
                    AckPlacement, SchedIdle
      <3> QED
        BY <3>1, <3>2, <3>3
    <2>3. RuntimeMoves
      BY <2>1 DEF RuntimeMoves, Ended
    <2> QED
      BY <2>1, <2>2, <2>3, QuietStep
  <1> QED
    BY <1>1, CreateContainerRowStarts, PublishAssignmentStarts

\* The worker starts the container of an assignment for which none was started.
LEMMA StartContainerStarts ==
    ASSUME Ownership, StartedOnce, NEW n \in Nodes, StartContainer(n)
    PROVE  StartedOnce'
  <1> USE DEF dbVars, apiVars, workerVars
  <1>1. /\ runtime \in [RuntimeIds -> RuntimeContainer] /\ assignH \in [Nodes -> AssignState]
        /\ assignQ \in [Nodes -> Seq(Assignments)] /\ assignQ[n] # <<>> /\ assignH[n].pc = "idle"
        /\ UNCHANGED <<assignQ, sched, tracked, pollH>>
    BY DEF Ownership, TypeOK, StartContainer
  <1>2. PICK r \in RuntimeIds, s \in {"running", "exited0", "exited1"} :
          /\ runtime[r].state = "none"
          /\ runtime' = [runtime EXCEPT ![r] =
                [state |-> s, node |-> n, assignment |-> Head(assignQ[n])]]
          /\ assignH' = [assignH EXCEPT ![n] =
                [pc |-> "publish", containerID |-> r, status |-> ContainerStatusOf(s)]]
    BY DEF StartContainer, Mint, NewRuntimeIds
  <1>3. PICK a \in Assignments : a = Head(assignQ[n]) /\ a = assignQ[n][1] /\ 1 \in 1..Len(assignQ[n])
    BY <1>1, TailFacts
  <1>4. PICK st : st = ContainerStatusOf(s)
    OBVIOUS
  <1>5. st = "running" \/ (st \in Terminal /\ s \in {"exited0", "exited1"})
    BY <1>4 DEF ContainerStatusOf, Terminal
  <1>6. /\ runtime'[r].state = s /\ runtime'[r].assignment = a
        /\ \A q \in RuntimeIds : q # r => runtime'[q] = runtime[q]
    BY <1>1, <1>2, <1>3
  <1>7. assignH' = [assignH EXCEPT ![n] = [pc |-> "publish", containerID |-> r, status |-> st]]
    BY <1>2, <1>4
  <1>8. /\ assignH'[n].pc = "publish" /\ assignH'[n].containerID = r /\ assignH'[n].status = st
        /\ \A m \in Nodes : m # n => assignH'[m] = assignH[m]
    BY <1>1, <1>7
  <1>9. Unstarted(a) /\ ~Ended(r) /\ runtime[r].assignment = NULL
    BY <1>1, <1>2, <1>3 DEF StartedOnce, Deliveries, AssignedUnstarted, Ended, Ownership,
                            RuntimesPlaced, NoRuntime
  <1>10. OneRuntime'
    BY <1>6, <1>9 DEF StartedOnce, Deliveries, OneRuntime, Unstarted
  <1>11. AssignedOnce'
    BY <1>1 DEF StartedOnce, Deliveries, AssignedOnce
  <1>12. \A b : b # a /\ Unstarted(b) => Unstarted(b)'
    BY <1>6 DEF Unstarted
  <1>13. AssignedUnstarted'
    <2> SUFFICES ASSUME NEW m \in Nodes, NEW i \in 1..Len(assignQ[m]),
                        i > 1 \/ assignH'[m].pc = "idle"
                 PROVE  Unstarted(assignQ[m][i])'
      BY <1>1 DEF AssignedUnstarted
    <2>1. assignQ[m][i] # a
      BY <1>3, <1>8 DEF StartedOnce, Deliveries, AssignedOnce
    <2>2. Unstarted(assignQ[m][i])
      BY <1>8 DEF StartedOnce, Deliveries, AssignedUnstarted
    <2>3. PICK b : b = assignQ[m][i]
      OBVIOUS
    <2>4. Unstarted(b)'
      BY <1>12, <2>1, <2>2, <2>3
    <2> QED
      BY <1>1, <2>3, <2>4 DEF Unstarted
  <1>14. PlacedUnassigned'
    <2> SUFFICES ASSUME sched.pc = "publish"
                 PROVE  /\ Unstarted(sched.assignment)'
                        /\ \A m \in Nodes : \A i \in 1..Len(assignQ[m]) : assignQ[m][i] # sched.assignment
      BY <1>1 DEF PlacedUnassigned
    <2>1. /\ Unstarted(sched.assignment)
          /\ \A m \in Nodes : \A i \in 1..Len(assignQ[m]) : assignQ[m][i] # sched.assignment
      BY DEF StartedOnce, Deliveries, PlacedUnassigned
    <2>2. sched.assignment # a
      BY <1>3, <2>1
    <2> QED
      BY <1>1, <1>6, <2>1, <2>2 DEF Unstarted
  <1>15. NoneCreated'
    BY <1>6 DEF StartedOnce, Held, NoneCreated
  <1>16. \A q \in RuntimeIds : \A x : Truthful(x, q) => Truthful(x, q)'
    BY <1>6, <1>9 DEF Truthful, Ended
  <1>17. HandlersTrue'
    <2> SUFFICES ASSUME NEW m \in Nodes, assignH'[m].pc # "idle"
                 PROVE  /\ assignH'[m].containerID # NULL
                        /\ Truthful(assignH[m].status, assignH[m].containerID)'
      BY DEF HandlersTrue
    <2>1. CASE m = n
      BY <1>5, <1>6, <1>8, <2>1, NullIsNoId DEF Truthful, Ended
    <2>2. CASE m # n
      <3>1. assignH[m].containerID \in RuntimeIds /\ Truthful(assignH[m].status, assignH[m].containerID)
        BY <1>8, <2>2, HeldIds DEF StartedOnce, Held, HandlersTrue
      <3>2. PICK q, x : q = assignH[m].containerID /\ x = assignH[m].status
        OBVIOUS
      <3>3. Truthful(x, q)'
        BY <1>16, <3>1, <3>2
      <3> QED
        BY <1>8, <2>2, <3>1, <3>2, <3>3, NullIsNoId DEF Truthful, Ended
    <2> QED
      BY <2>1, <2>2
  <1>18. EntriesTrue'
    <2> SUFFICES ASSUME NEW m \in Nodes, NEW b \in Assignments
                 PROVE  EntryTrue(tracked[m][b])' /\ EntryTrue(pollH[m].todo[b])'
      BY DEF EntriesTrue
    <2>1. EntryTrue(tracked[m][b]) /\ EntryTrue(pollH[m].todo[b])
      BY DEF StartedOnce, Held, EntriesTrue
    <2> QED
      BY <1>1, <1>6, <1>9, <2>1, HeldIds DEF EntryTrue, NotTracked, Truthful, Ended
  <1>19. PollsTrue'
    <2> SUFFICES ASSUME NEW m \in Nodes, pollH[m].pc \in {"publish", "update"}
                 PROVE  /\ pollH[m].status \in Terminal
                        /\ Ended(pollH[m].todo[pollH[m].assignment].containerID)'
      BY <1>1 DEF PollsTrue, Terminal
    <2>1. /\ pollH[m].status \in Terminal
          /\ Ended(pollH[m].todo[pollH[m].assignment].containerID)
      BY DEF StartedOnce, Held, PollsTrue
    <2>2. pollH[m].assignment \in Assignments /\ pollH[m].todo[pollH[m].assignment] # NotTracked
      BY DEF Ownership, PollsHold
    <2>3. pollH[m].todo[pollH[m].assignment].containerID \in RuntimeIds
      BY <2>2, HeldIds
    <2> QED
      BY <1>1, <1>6, <1>9, <2>1, <2>3 DEF Ended
  <1> QED
    BY <1>10, <1>11, <1>13, <1>14, <1>15, <1>17, <1>18, <1>19 DEF StartedOnce, Deliveries, Held

\* Publishing the outcome keeps the handler on its message: there is a container.
LEMMA AssignPublishStatusStarts ==
    ASSUME Ownership, StartedOnce, NEW n \in Nodes, AssignPublishStatus(n)
    PROVE  /\ StartedOnce'
           /\ UNCHANGED assignQ
           /\ assignH' = [assignH EXCEPT ![n].pc = "track"]
  <1> USE DEF dbVars, apiVars, workerVars
  <1>1. assignH[n].containerID # NULL
    BY DEF AssignPublishStatus, StartedOnce, Held, HandlersTrue
  <1>2. /\ assignH' = [assignH EXCEPT ![n].pc = "track"]
        /\ UNCHANGED <<assignQ, runtime, tracked, pollH, sched>>
    BY <1>1 DEF AssignPublishStatus
  <1>3. assignH \in [Nodes -> AssignState]
    BY DEF Ownership, TypeOK
  <1>4. \A m \in Nodes : /\ assignH'[m].containerID = assignH[m].containerID
                         /\ assignH'[m].status = assignH[m].status
                         /\ assignH'[m].pc = "idle" <=> assignH[m].pc = "idle"
    BY <1>2, <1>3 DEF AssignState, AssignPublishStatus
  <1>5. RuntimeMoves
    BY <1>2 DEF RuntimeMoves, Ended
  <1>6. Deliveries'
    BY <1>2, <1>4, <1>5, SameDeliveries DEF StartedOnce
  <1>7. NoneCreated' /\ EntriesTrue' /\ PollsTrue'
    BY <1>2 DEF StartedOnce, Held, NoneCreated, EntriesTrue, PollsTrue, EntryTrue, Truthful, Ended
  <1>8. HandlersTrue'
    BY <1>2, <1>4 DEF StartedOnce, Held, HandlersTrue, Truthful, Ended
  <1> QED
    BY <1>2, <1>6, <1>7, <1>8 DEF StartedOnce, Held

\* Tracking the container acks the assignment, which nobody has still to start.
LEMMA AssignTrackStarts ==
    ASSUME Ownership, StartedOnce, NEW n \in Nodes, AssignTrack(n)
    PROVE  StartedOnce'
  <1> USE DEF dbVars, apiVars, workerVars
  <1>1. /\ assignH \in [Nodes -> AssignState] /\ assignQ \in [Nodes -> Seq(Assignments)]
        /\ tracked \in [Nodes -> [Assignments -> TrackedContainer]]
        /\ assignQ[n] # <<>> /\ assignH[n].pc = "track"
        /\ UNCHANGED <<runtime, pollH, sched>>
        /\ assignH' = [assignH EXCEPT ![n] = AssignIdle]
        /\ assignQ' = [assignQ EXCEPT ![n] = Tail(assignQ[n])]
    BY DEF Ownership, TypeOK, AssignTrack, AssignHandlersHold, AckAssign
  <1>2. PICK a \in Assignments : a = Head(assignQ[n])
    BY <1>1
  <1>3. PICK entry : entry = TrackedEntry(n)
    OBVIOUS
  <1>4. tracked' = [tracked EXCEPT ![n][a] = entry]
    BY <1>2, <1>3 DEF AssignTrack
  <1>5. \A m \in Nodes, b \in Assignments :
           tracked'[m][b] = entry \/ tracked'[m][b] = tracked[m][b]
    BY <1>1, <1>2, <1>4
  <1>6. /\ \A m \in Nodes : m # n => assignH'[m] = assignH[m] /\ assignQ'[m] = assignQ[m]
        /\ assignH'[n].pc = "idle" /\ Len(assignQ[n]) \in Nat
        /\ Len(assignQ'[n]) = Len(assignQ[n]) - 1
        /\ \A i \in 1..Len(assignQ'[n]) :
              i + 1 \in 1..Len(assignQ[n]) /\ assignQ'[n][i] = assignQ[n][i + 1]
    BY <1>1, TailFacts DEF AssignIdle
  <1>7. \A b : Unstarted(b) <=> Unstarted(b)'
    BY <1>1 DEF Unstarted
  <1>8. OneRuntime'
    BY <1>1 DEF StartedOnce, Deliveries, OneRuntime
  <1>9. AssignedOnce'
    <2> SUFFICES ASSUME NEW m \in Nodes, NEW k \in Nodes, NEW i \in 1..Len(assignQ'[m]),
                        NEW j \in 1..Len(assignQ'[k]), assignQ'[m][i] = assignQ'[k][j]
                 PROVE  m = k /\ i = j
      BY DEF AssignedOnce
    <2> DEFINE Before(l, h) == IF l = n THEN h + 1 ELSE h
    <2>1. ASSUME NEW l \in Nodes, NEW h \in 1..Len(assignQ'[l])
          PROVE  Before(l, h) \in 1..Len(assignQ[l]) /\ assignQ'[l][h] = assignQ[l][Before(l, h)]
      BY <1>6, <2>1
    <2>2. m = k /\ Before(m, i) = Before(k, j)
      <3> HIDE DEF Before
      <3>1. Before(m, i) \in 1..Len(assignQ[m]) /\ Before(k, j) \in 1..Len(assignQ[k])
        BY <2>1
      <3>2. assignQ[m][Before(m, i)] = assignQ[k][Before(k, j)]
        BY <2>1
      <3> QED
        BY <3>1, <3>2 DEF StartedOnce, Deliveries, AssignedOnce
    <2> QED
      BY <2>2
  <1>10. AssignedUnstarted'
    <2> SUFFICES ASSUME NEW m \in Nodes, NEW i \in 1..Len(assignQ'[m]),
                        i > 1 \/ assignH'[m].pc = "idle"
                 PROVE  Unstarted(assignQ'[m][i])
      BY <1>1 DEF AssignedUnstarted, Unstarted
    <2>1. CASE m = n
      BY <1>6, <2>1 DEF StartedOnce, Deliveries, AssignedUnstarted
    <2>2. CASE m # n
      BY <1>6, <2>2 DEF StartedOnce, Deliveries, AssignedUnstarted
    <2> QED
      BY <2>1, <2>2
  <1>11. PlacedUnassigned'
    <2>1. \A m \in Nodes : \A i \in 1..Len(assignQ'[m]) :
             \E j \in 1..Len(assignQ[m]) : assignQ'[m][i] = assignQ[m][j]
      BY <1>6
    <2> QED
      BY <1>1, <2>1 DEF StartedOnce, Deliveries, PlacedUnassigned, Unstarted
  <1>12. NoneCreated' /\ PollsTrue'
    BY <1>1 DEF StartedOnce, Held, NoneCreated, PollsTrue, Ended
  <1>13. HandlersTrue'
    BY <1>1, <1>6 DEF StartedOnce, Held, HandlersTrue, Truthful, Ended
  <1>14. EntryTrue(entry)
    BY <1>1, <1>3 DEF EntryTrue, TrackedEntry, StartedOnce, Held, HandlersTrue
  <1>15. EntriesTrue'
    BY <1>1, <1>5, <1>14 DEF StartedOnce, Held, EntriesTrue, EntryTrue, Truthful, Ended, NotTracked
  <1> QED
    BY <1>8, <1>9, <1>10, <1>11, <1>12, <1>13, <1>15 DEF StartedOnce, Deliveries, Held

\* Stopping, removing and reporting an unassigned container.
LEMMA UnassignStarts ==
    ASSUME Ownership, StartedOnce, NEW n \in Nodes, HandleUnassign(n)
    PROVE  StartedOnce' /\ RuntimeMoves
  <1> USE DEF dbVars, apiVars, workerVars
  <1>1. UNCHANGED <<assignQ, assignH, pollH, sched>>
    BY DEF HandleUnassign, UnassignStop, UnassignRemove, UnassignPublishStatus, UnassignUntrack
  <1>2. unassignH[n] # "idle" \/ UnassignStop(n)
    BY DEF HandleUnassign, UnassignRemove, UnassignPublishStatus, UnassignUntrack
  <1>3. unassignQ \in [Nodes -> Seq(UnassignMsg)] /\ unassignQ[n] # <<>>
    BY <1>2 DEF Ownership, TypeOK, UnassignHandlersHold, UnassignStop
  <1>4. PICK msg \in UnassignMsg : msg = Head(unassignQ[n])
    BY <1>3
  <1>5. RuntimeMoves
    <2>1. msg.containerID \in RuntimeIds \cup {NULL}
      BY DEF UnassignMsg
    <2>2. \/ UNCHANGED runtime
          \/ /\ msg.containerID \in RuntimeIds
             /\ \/ /\ runtime[msg.containerID].state = "running"
                   /\ \E s \in {"exited0", "exited1"} :
                         runtime' = [runtime EXCEPT ![msg.containerID].state = s]
                \/ runtime' = [runtime EXCEPT ![msg.containerID].state = "removed"]
      BY <1>4, <2>1 DEF HandleUnassign, UnassignStop, UnassignRemove, UnassignPublishStatus,
                        UnassignUntrack, UnassignTarget, Runs, Present
    <2>3. UNCHANGED runtime => RuntimeMoves
      BY DEF RuntimeMoves, Ended
    <2> QED
      BY <2>2, <2>3, StateMoves
  <1>6. CASE UNCHANGED tracked
    BY <1>1, <1>5, <1>6, QuietStep
  <1>7. CASE UnassignUntrack(n)
    <2>1. PICK a \in Assignments : a = msg.assignment
      BY DEF UnassignMsg
    <2>2. tracked' = [tracked EXCEPT ![n][a] = NotTracked] /\ UNCHANGED runtime
      BY <1>4, <1>7, <2>1 DEF UnassignUntrack
    <2>3. tracked \in [Nodes -> [Assignments -> TrackedContainer]]
      BY DEF Ownership, TypeOK
    <2>4. \A m \in Nodes, b \in Assignments :
             tracked'[m][b] = NotTracked \/ tracked'[m][b] = tracked[m][b]
      BY <2>2, <2>3
    <2>5. Deliveries'
      BY <1>1, <1>5, SameDeliveries DEF StartedOnce
    <2>6. NoneCreated' /\ HandlersTrue' /\ PollsTrue'
      BY <1>1, <2>2 DEF StartedOnce, Held, NoneCreated, HandlersTrue, PollsTrue, Truthful, Ended
    <2>7. EntriesTrue'
      BY <1>1, <2>2, <2>4 DEF StartedOnce, Held, EntriesTrue, EntryTrue, Truthful, Ended, NotTracked
    <2> QED
      BY <1>5, <2>5, <2>6, <2>7 DEF StartedOnce, Held
  <1> QED
    BY <1>5, <1>6, <1>7 DEF HandleUnassign, UnassignStop, UnassignRemove, UnassignPublishStatus

\* What the loop of the poll does to its own state.
LEMMA AdvanceEffect ==
    ASSUME Ownership, NEW n \in Nodes, NEW a \in Assignments, PollAdvance(n, a)
    PROVE  /\ \A m \in Nodes : m # n => pollH'[m] = pollH[m]
           /\ pollH'[n].pc \notin {"publish", "update"}
           /\ \A b \in Assignments : \/ pollH'[n].todo[b] = NotTracked
                                     \/ pollH'[n].todo[b] = pollH[n].todo[b]
  <1> DEFINE todo == [pollH[n].todo EXCEPT ![a] = NotTracked]
  <1>1. pollH \in [Nodes -> PollState]
    BY DEF Ownership, TypeOK
  <1>2. pollH' = [pollH EXCEPT ![n] = IF todo = NoTracking THEN PollIdle ELSE Inspecting(todo)]
    BY DEF PollAdvance
  <1>3. pollH[n].todo \in [Assignments -> TrackedContainer]
    BY <1>1 DEF PollState
  <1>4. \A b \in Assignments : todo[b] = NotTracked \/ todo[b] = pollH[n].todo[b]
    BY <1>3
  <1> HIDE DEF todo
  <1>5. /\ \A m \in Nodes : m # n => pollH'[m] = pollH[m]
        /\ pollH'[n].pc \notin {"publish", "update"}
        /\ pollH'[n].todo = todo \/ pollH'[n].todo = NoTracking
    BY <1>1, <1>2 DEF PollIdle, Inspecting
  <1> QED
    BY <1>4, <1>5 DEF NoTracking

\* The snapshot, and moving on in it, add nothing that is not true.
LEMMA PollEntries ==
    ASSUME Ownership, StartedOnce, NEW n \in Nodes,
           UNCHANGED <<runtime, assignQ, assignH, sched>>,
           \A m \in Nodes : m # n => pollH'[m] = pollH[m],
           pollH'[n].pc \notin {"publish", "update"},
           \A b \in Assignments : pollH'[n].todo[b] \in {NotTracked, pollH[n].todo[b], tracked[n][b]},
           \A m \in Nodes, b \in Assignments : EntryTrue(tracked[m][b])'
    PROVE  StartedOnce'
  <1>1. RuntimeMoves
    BY DEF RuntimeMoves, Ended
  <1>2. Deliveries'
    BY <1>1, SameDeliveries DEF StartedOnce
  <1>3. NoneCreated' /\ HandlersTrue' /\ PollsTrue'
    BY DEF StartedOnce, Held, NoneCreated, HandlersTrue, PollsTrue, Truthful, Ended
  <1>4. \A m \in Nodes, b \in Assignments : EntryTrue(pollH[m].todo[b])'
    BY DEF StartedOnce, Held, EntriesTrue, EntryTrue, Truthful, Ended, NotTracked
  <1> QED
    BY <1>2, <1>3, <1>4 DEF StartedOnce, Held, EntriesTrue

\* A container that was seen to change has ended.
LEMMA PollInspectStarts ==
    ASSUME Ownership, StartedOnce, NEW n \in Nodes, PollInspect(n)
    PROVE  StartedOnce'
  <1> USE DEF dbVars, apiVars, workerVars
  <1>1. UNCHANGED <<runtime, assignQ, assignH, tracked, sched>> /\ pollH \in [Nodes -> PollState]
    BY DEF Ownership, TypeOK, PollInspect
  <1>2. PICK a \in Assignments, status \in LiveStatus :
          /\ pollH[n].todo[a] # NotTracked
          /\ status = ContainerStatusOf(runtime[pollH[n].todo[a].containerID].state)
          /\ \/ PollAdvance(n, a)
             \/ /\ runtime[pollH[n].todo[a].containerID].state # "removed"
                /\ status # pollH[n].todo[a].lastStatus
                /\ pollH' = [pollH EXCEPT ![n] =
                      [pc |-> "publish", todo |-> @.todo, assignment |-> a, status |-> status]]
    BY DEF PollInspect, ContainerStatusOf, LiveStatus
  <1>3. \A m \in Nodes, b \in Assignments : EntryTrue(tracked[m][b])'
    BY <1>1 DEF StartedOnce, Held, EntriesTrue, EntryTrue, Truthful, Ended, NotTracked
  <1>4. CASE PollAdvance(n, a)
    BY <1>1, <1>3, <1>4, AdvanceEffect, PollEntries
  <1>5. CASE /\ runtime[pollH[n].todo[a].containerID].state # "removed"
             /\ status # pollH[n].todo[a].lastStatus
             /\ pollH' = [pollH EXCEPT ![n] =
                   [pc |-> "publish", todo |-> @.todo, assignment |-> a, status |-> status]]
    <2>1. PICK r \in RuntimeIds : r = pollH[n].todo[a].containerID /\ runtime[r].assignment = a
      <3>1. pollH[n].todo[a] # NotTracked
        BY <1>2
      <3>2. pollH[n].todo[a].containerID \in RuntimeIds /\ CreatedFor(pollH[n].todo[a].containerID, a, n)
        BY <3>1, HeldIds
      <3> QED
        BY <3>2 DEF CreatedFor
    <2>2. runtime[r].state \in RuntimeState \ {"none", "created"}
      <3>1. runtime[r] \in RuntimeContainer /\ runtime[r].state # "created"
        BY DEF Ownership, TypeOK, StartedOnce, Held, NoneCreated
      <3>2. runtime[r].state # "none"
        BY <2>1, NullIsNoId DEF Ownership, RuntimesPlaced, NoRuntime
      <3> QED
        BY <3>1, <3>2 DEF RuntimeContainer
    <2>3. Truthful(pollH[n].todo[a].lastStatus, r)
      BY <1>2, <2>1 DEF StartedOnce, Held, EntriesTrue, EntryTrue
    <2>4. status \in Terminal /\ Ended(r)
      BY <1>2, <1>5, <2>1, <2>2, <2>3
         DEF ContainerStatusOf, Terminal, Ended, Truthful, RuntimeState
    <2>5. /\ \A m \in Nodes : pollH'[m].todo = pollH[m].todo /\ (m # n => pollH'[m] = pollH[m])
          /\ pollH'[n].assignment = a /\ pollH'[n].status = status
      BY <1>1, <1>5 DEF PollState
    <2>6. RuntimeMoves
      BY <1>1 DEF RuntimeMoves, Ended
    <2>7. Deliveries'
      BY <1>1, <2>6, SameDeliveries DEF StartedOnce
    <2>8. NoneCreated' /\ HandlersTrue'
      BY <1>1 DEF StartedOnce, Held, NoneCreated, HandlersTrue, Truthful, Ended
    <2>9. EntriesTrue'
      BY <1>1, <2>5 DEF StartedOnce, Held, EntriesTrue, EntryTrue, Truthful, Ended, NotTracked
    <2>10. PollsTrue'
      BY <1>1, <2>1, <2>4, <2>5 DEF StartedOnce, Held, PollsTrue, Ended
    <2> QED
      BY <2>7, <2>8, <2>9, <2>10 DEF StartedOnce, Held
  <1> QED
    BY <1>2, <1>4, <1>5

\* Remembering what was published: the entry still names the same container.
LEMMA PollUpdateStarts ==
    ASSUME Ownership, StartedOnce, NEW n \in Nodes, PollUpdate(n)
    PROVE  StartedOnce'
  <1> USE DEF dbVars, apiVars, workerVars
  <1>1. /\ UNCHANGED <<runtime, assignQ, assignH, sched>> /\ pollH[n].pc = "update"
        /\ tracked \in [Nodes -> [Assignments -> TrackedContainer]]
    BY DEF Ownership, TypeOK, PollUpdate
  <1>2. PICK a \in Assignments, status \in Terminal :
          /\ a = pollH[n].assignment /\ status = pollH[n].status
          /\ pollH[n].todo[a] # NotTracked /\ Ended(pollH[n].todo[a].containerID)
    BY <1>1 DEF Ownership, PollsHold, StartedOnce, Held, PollsTrue
  <1>3. \/ tracked' = tracked
        \/ tracked[n][a] # NotTracked /\ tracked' = [tracked EXCEPT ![n][a].lastStatus = status]
    BY <1>2 DEF PollUpdate
  <1>4. \A m \in Nodes, b \in Assignments : EntryTrue(tracked[m][b])'
    <2>1. \A m \in Nodes, b \in Assignments : EntryTrue(tracked[m][b])
      BY DEF StartedOnce, Held, EntriesTrue
    <2>2. CASE tracked' = tracked
      BY <1>1, <2>1, <2>2 DEF EntryTrue, Truthful, Ended, NotTracked
    <2>3. CASE tracked[n][a] # NotTracked /\ tracked' = [tracked EXCEPT ![n][a].lastStatus = status]
      <3>1. tracked[n][a].containerID = pollH[n].todo[a].containerID
        <4>1. /\ tracked[n][a].containerID \in RuntimeIds /\ pollH[n].todo[a].containerID \in RuntimeIds
              /\ CreatedFor(tracked[n][a].containerID, a, n)
              /\ CreatedFor(pollH[n].todo[a].containerID, a, n)
          BY <1>2, <2>3, HeldIds
        <4> QED
          BY <4>1 DEF CreatedFor, StartedOnce, Deliveries, OneRuntime
      <3>2. PICK entry : entry = [tracked[n][a] EXCEPT !.lastStatus = status]
        OBVIOUS
      <3>3. tracked[n][a] \in TrackedContainer
        BY <1>1
      <3>4. entry.containerID = tracked[n][a].containerID /\ entry.lastStatus = status
        BY <3>2, <3>3 DEF TrackedContainer
      <3>5. tracked' = [tracked EXCEPT ![n] = [tracked[n] EXCEPT ![a] = entry]]
        BY <1>1, <2>3, <3>2
      <3>6. \A m \in Nodes, b \in Assignments :
               tracked'[m][b] = IF m = n /\ b = a THEN entry ELSE tracked[m][b]
        BY <1>1, <3>5
      <3>7. Truthful(entry.lastStatus, entry.containerID)
        BY <1>2, <3>1, <3>4 DEF Truthful
      <3> QED
        BY <1>1, <2>1, <3>6, <3>7 DEF EntryTrue, Truthful, Ended, NotTracked
    <2> QED
      BY <1>3, <2>2, <2>3
  <1>5. PollAdvance(n, a)
    BY <1>2 DEF PollUpdate
  <1> QED
    BY <1>1, <1>4, <1>5, AdvanceEffect, PollEntries

\* The health poll keeps the first layer.
LEMMA PollStarts ==
    ASSUME Ownership, StartedOnce, NEW n \in Nodes, CheckTrackedContainers(n)
    PROVE  StartedOnce'
  <1> USE DEF dbVars, apiVars, workerVars
  <1>1. CASE PollSnapshot(n)
    <2>1. /\ UNCHANGED <<runtime, assignQ, assignH, tracked, sched>> /\ pollH \in [Nodes -> PollState]
          /\ pollH' = [pollH EXCEPT ![n] = Inspecting(tracked[n])]
      BY <1>1 DEF Ownership, TypeOK, PollSnapshot
    <2>2. /\ \A m \in Nodes : m # n => pollH'[m] = pollH[m]
          /\ pollH'[n].pc = "inspect" /\ pollH'[n].todo = tracked[n]
      BY <2>1 DEF Inspecting
    <2>3. \A m \in Nodes, b \in Assignments : EntryTrue(tracked[m][b])'
      BY <2>1 DEF StartedOnce, Held, EntriesTrue, EntryTrue, Truthful, Ended, NotTracked
    <2> QED
      BY <2>1, <2>2, <2>3, PollEntries
  <1>2. CASE PollPublishStatus(n)
    <2>1. /\ UNCHANGED <<runtime, assignQ, assignH, tracked, sched>> /\ pollH \in [Nodes -> PollState]
          /\ pollH' = [pollH EXCEPT ![n].pc = "update"] /\ pollH[n].pc = "publish"
      BY <1>2 DEF Ownership, TypeOK, PollPublishStatus
    <2>2. \A m \in Nodes : /\ pollH'[m].todo = pollH[m].todo /\ pollH'[m].status = pollH[m].status
                           /\ pollH'[m].assignment = pollH[m].assignment
                           /\ m # n => pollH'[m].pc = pollH[m].pc
      BY <2>1 DEF PollState
    <2>3. RuntimeMoves
      BY <2>1 DEF RuntimeMoves, Ended
    <2>4. Deliveries'
      BY <2>1, <2>3, SameDeliveries DEF StartedOnce
    <2>5. NoneCreated' /\ HandlersTrue'
      BY <2>1 DEF StartedOnce, Held, NoneCreated, HandlersTrue, Truthful, Ended
    <2>6. EntriesTrue'
      BY <2>1, <2>2 DEF StartedOnce, Held, EntriesTrue, EntryTrue, Truthful, Ended, NotTracked
    <2>7. PollsTrue'
      BY <2>1, <2>2 DEF StartedOnce, Held, PollsTrue, Ended
    <2> QED
      BY <2>4, <2>5, <2>6, <2>7 DEF StartedOnce, Held
  <1> QED
    BY <1>1, <1>2, PollInspectStarts, PollUpdateStarts DEF CheckTrackedContainers

\* Without the faults of Repeats every step of a worker keeps the first layer.
LEMMA WorkerStarts ==
    ASSUME Never(Repeats), Ownership, Unspent, StartedOnce, WorkerNext
    PROVE  StartedOnce'
  <1> USE DEF dbVars, apiVars, workerVars
  <1>1. ~Spend("startError") /\ ~Spend("assignRedelivery") /\ ~Spend("workerRestart")
    BY NeverSpent DEF Never, Repeats, Bounded
  <1>2. ASSUME NEW r \in RuntimeIds, ContainerExits(r) PROVE StartedOnce'
    <2>1. RuntimeMoves /\ UNCHANGED <<assignQ, assignH, tracked, pollH, sched>>
      BY <1>2, StateMoves DEF ContainerExits
    <2> QED
      BY <2>1, QuietStep
  <1>3. ASSUME NEW n \in Nodes, RedeliverUnassign(n) PROVE StartedOnce'
    <2>1. UNCHANGED <<runtime, assignQ, assignH, tracked, pollH, sched>>
      BY <1>3 DEF RedeliverUnassign
    <2>2. RuntimeMoves
      BY <2>1 DEF RuntimeMoves, Ended
    <2> QED
      BY <2>1, <2>2, QuietStep
  <1>4. \A n \in Nodes : ~StartContainerError(n) /\ ~WorkerRestart(n) /\ ~RedeliverAssign(n)
    BY <1>1 DEF StartContainerError, WorkerRestart, RedeliverAssign
  <1> QED
    BY <1>2, <1>3, <1>4, StartContainerStarts, AssignPublishStatusStarts, AssignTrackStarts,
       UnassignStarts, PollStarts DEF WorkerNext, HandleAssignment

\* The inductive invariant of the first layer.
Started == Ownership /\ Unspent /\ StartedOnce

\* It holds in the empty database.
LEMMA InitStarted == Init => Started
  <1> SUFFICES ASSUME Init PROVE Started
    OBVIOUS
  <1>1. Ownership
    BY InitOwnership
  <1>2. Unspent
    BY ClusterAssumption DEF Init, Unspent
  <1>3. Deliveries
    BY NullIsNoId DEF Init, Deliveries, OneRuntime, AssignedOnce, AssignedUnstarted,
       PlacedUnassigned, NoRuntime, SchedIdle
  <1>4. NoneCreated /\ HandlersTrue /\ PollsTrue
    BY DEF Init, NoneCreated, HandlersTrue, PollsTrue, NoRuntime, AssignIdle, PollIdle
  <1>5. EntriesTrue
    BY DEF Init, EntriesTrue, EntryTrue, PollIdle, NoTracking
  <1> QED
    BY <1>1, <1>2, <1>3, <1>4, <1>5 DEF Started, StartedOnce, Held

\* Every step keeps it.
LEMMA StartedKept == ASSUME Never(Repeats), Started, [Next]_vars PROVE Started'
  <1>1. Ownership'
    BY ApiKeeps, SchedulerKeeps, ControllerKeeps, WorkerKeeps, StutterKeeps DEF Started, Next
  <1>2. Unspent'
    BY UnspentKept DEF Started
  <1>3. StartedOnce'
    BY ControlPlaneStarts, SchedulerStarts, WorkerStarts DEF Started, Next
  <1> QED
    BY <1>1, <1>2, <1>3 DEF Started

-----------------------------------------------------------------------------
(* Second layer: what a row, a message or a handler says has ended did end.  *)

\* The container of assignment a was started and ended.
Gone(a) == \E r \in RuntimeIds : runtime[r].assignment = a /\ Ended(r)

\* Only an unassign of an assignment in blind leaves the container id out.
BlindNamed ==
    \A n \in Nodes : \A i \in 1..Len(unassignQ[n]) :
       unassignQ[n][i].containerID = NULL => unassignQ[n][i].assignment \in blind

RowsGone == \A a \in Assignments \ blind : containers[a].status \in Terminal => Gone(a)
StatusesGone ==
    \A i \in 1..Len(statusQ) :
       statusQ[i].status \in Terminal /\ statusQ[i].assignment \notin blind => Gone(statusQ[i].assignment)
StopsGone ==
    \A n \in Nodes :
       unassignH[n] \in {"remove", "publish"} /\ Head(unassignQ[n]).assignment \notin blind
          => Gone(Head(unassignQ[n]).assignment)
TerminalGone == RowsGone /\ StatusesGone /\ StopsGone

\* Every container keeps its node and assignment, and stays ended once it ended.
RuntimesStay ==
    \A r \in RuntimeIds : runtime[r].assignment \in Assignments =>
       /\ runtime'[r].assignment = runtime[r].assignment
       /\ runtime'[r].node = runtime[r].node
       /\ Ended(r) => Ended(r)'

\* A container with a state belongs to an assignment.
LEMMA EndedAssigned ==
    ASSUME Ownership, NEW r \in RuntimeIds, runtime[r].state # "none"
    PROVE  runtime[r].assignment \in Assignments /\ runtime[r].node \in Nodes
  BY DEF Ownership, RuntimesPlaced, NoRuntime

\* A step starts a container, ends one or leaves them alone.
LEMMA RuntimeSteps ==
    ASSUME Never(Repeats), Started, [Next]_vars
    PROVE  \/ UNCHANGED runtime
           \/ \E n \in Nodes : StartContainer(n)
           \/ \E r \in RuntimeIds, s \in {"exited0", "exited1", "removed"} :
                 runtime' = [runtime EXCEPT ![r].state = s]
  <1> USE DEF dbVars, apiVars, workerVars
  <1>1. Ownership
    BY DEF Started
  <1>2. ASSUME NEW n \in Nodes, UnassignStop(n) \/ UnassignRemove(n)
        PROVE  \/ UNCHANGED runtime
               \/ \E r \in RuntimeIds, s \in {"exited0", "exited1", "removed"} :
                     runtime' = [runtime EXCEPT ![r].state = s]
    <2>1. unassignQ \in [Nodes -> Seq(UnassignMsg)] /\ unassignQ[n] # <<>>
      BY <1>1, <1>2 DEF Ownership, TypeOK, UnassignStop, UnassignRemove, UnassignHandlersHold
    <2>2. Head(unassignQ[n]) \in UnassignMsg
      BY <2>1
    <2>3. UnassignTarget(n) \in RuntimeIds \cup {NULL}
      BY <2>2 DEF UnassignTarget, UnassignMsg
    <2>4. PICK r \in RuntimeIds \cup {NULL} : r = UnassignTarget(n)
      BY <2>3
    <2> QED
      BY <1>2, <2>4 DEF UnassignStop, UnassignRemove, Runs, Present
  <1>3. \A n \in Nodes : ~StartContainerError(n)
    BY NeverSpent DEF StartContainerError, Never, Repeats, Bounded, Started
  <1>4. ASSUME NEW n \in Nodes,
               \/ AssignPublishStatus(n) \/ AssignTrack(n)
               \/ UnassignPublishStatus(n) \/ UnassignUntrack(n)
               \/ CheckTrackedContainers(n) \/ WorkerRestart(n)
               \/ RedeliverAssign(n) \/ RedeliverUnassign(n)
        PROVE  UNCHANGED runtime
    BY <1>4 DEF AssignPublishStatus, AssignTrack, UnassignPublishStatus, UnassignUntrack,
                CheckTrackedContainers, PollSnapshot, PollInspect, PollPublishStatus, PollUpdate,
                WorkerRestart, RedeliverAssign, RedeliverUnassign
  <1>5. CASE WorkerNext
    BY <1>2, <1>3, <1>4, <1>5 DEF WorkerNext, HandleAssignment, HandleUnassign, ContainerExits
  <1>6. CASE ApiNext
    BY <1>6 DEF ApiNext, CreateApplication, DeployTx, PublishPlacement, RecordDeployFailure,
                ScaleApplication, DeleteList, DeletePublish, DeleteTx, ApiRestart
  <1>7. CASE ControllerNext
    BY <1>7 DEF ControllerNext, Tick, TickList, Reconcile, ReconcileOne, ScaleUp, ScaleDownList,
                ScaleDownPublish, ControllerRestart
  <1>8. CASE SchedulerNext
    BY <1>8 DEF SchedulerNext, SelectNode, CheckQuota, EnforceContainerQuota, CreateContainerRow, PublishAssignment,
                HandleStatus, SweepUnreachable, HandleHeartbeat, RedeliverPlacement,
                RedeliverStatus, SchedulerRestart
  <1> QED
    BY <1>5, <1>6, <1>7, <1>8 DEF Next, vars

\* So the containers keep their assignments and ended ones stay ended.
LEMMA RuntimesKept ==
    ASSUME Never(Repeats), Started, [Next]_vars
    PROVE  /\ RuntimesStay
           /\ \/ \E n \in Nodes : StartContainer(n)
              \/ \A r \in RuntimeIds : runtime'[r].assignment = runtime[r].assignment
  <1>1. runtime \in [RuntimeIds -> RuntimeContainer] /\ Ownership
    BY DEF Started, Ownership, TypeOK
  <1>2. CASE UNCHANGED runtime
    BY <1>2 DEF RuntimesStay, Ended
  <1>3. ASSUME NEW r \in RuntimeIds, NEW s \in {"exited0", "exited1", "removed"},
               runtime' = [runtime EXCEPT ![r].state = s]
        PROVE  RuntimesStay /\ \A q \in RuntimeIds : runtime'[q].assignment = runtime[q].assignment
    BY <1>1, <1>3 DEF RuntimesStay, Ended, RuntimeContainer
  <1>4. ASSUME NEW n \in Nodes, StartContainer(n) PROVE RuntimesStay
    <2>1. PICK r \in RuntimeIds : /\ runtime[r].state = "none"
                                  /\ \E new : runtime' = [runtime EXCEPT ![r] = new]
      BY <1>4 DEF StartContainer, Mint, NewRuntimeIds
    <2>2. runtime[r].assignment = NULL
      BY <1>1, <2>1 DEF Ownership, RuntimesPlaced, NoRuntime
    <2> QED
      BY <1>1, <2>1, <2>2, NullIsNoId DEF RuntimesStay, Ended
  <1> QED
    BY <1>2, <1>3, <1>4, RuntimeSteps

\* What is gone stays gone.
LEMMA GoneStays ==
    ASSUME Ownership, RuntimesStay, NEW a \in Assignments, Gone(a)
    PROVE  Gone(a)'
  <1>1. PICK r \in RuntimeIds : runtime[r].assignment = a /\ Ended(r)
    BY DEF Gone
  <1> QED
    BY <1>1 DEF RuntimesStay, Gone

-----------------------------------------------------------------------------
(* What a step does to the unassign messages *)

\* Messages are only added behind the ones being handled, with the pair of a
\* victim that the controller or a delete request listed.
Victims == ctl.victims \cup UNION {deletes[app].victims : app \in Apps}

UnassignsGrow ==
    /\ blind \subseteq blind'
    /\ \A n \in Nodes : unassignQ[n] # <<>> =>
          unassignQ'[n] # <<>> /\ Head(unassignQ'[n]) = Head(unassignQ[n])
    /\ \A n \in Nodes : \A i \in 1..Len(unassignQ'[n]) :
          \/ \E j \in 1..Len(unassignQ[n]) : unassignQ'[n][i] = unassignQ[n][j]
          \/ /\ unassignQ'[n][i].containerID = NULL => unassignQ'[n][i].assignment \in blind'
             /\ \E v \in Victims : unassignQ'[n][i].containerID = v.containerID

\* Publishing an unassign adds it behind the one being handled.
LEMMA PublishUnassignGrows ==
    ASSUME Ownership, NEW v \in Victims, v \in Victim, PublishUnassign(v)
    PROVE  UnassignsGrow
  <1> DEFINE msg == [assignment |-> v.assignment, containerID |-> v.containerID]
  <1>1. PICK k \in Nodes : k = v.node
    BY DEF Victim
  <1>2. msg \in UnassignMsg /\ unassignQ \in [Nodes -> Seq(UnassignMsg)]
    BY DEF Victim, UnassignMsg, Ownership, TypeOK
  <1>3. /\ unassignQ' = [unassignQ EXCEPT ![k] = Append(unassignQ[k], msg)]
        /\ blind' = IF v.containerID = NULL THEN blind \cup {v.assignment} ELSE blind
    BY <1>1 DEF PublishUnassign
  <1>4. msg.containerID = v.containerID /\ msg.assignment = v.assignment
    OBVIOUS
  <1> HIDE DEF msg
  <1>5. /\ \A n \in Nodes : n # k => unassignQ'[n] = unassignQ[n]
        /\ unassignQ'[k] = Append(unassignQ[k], msg)
    BY <1>2, <1>3
  <1>6. /\ Len(unassignQ'[k]) = Len(unassignQ[k]) + 1 /\ Len(unassignQ[k]) \in Nat
        /\ \A i \in 1..Len(unassignQ[k]) : unassignQ'[k][i] = unassignQ[k][i]
        /\ unassignQ'[k][Len(unassignQ[k]) + 1] = msg
        /\ unassignQ'[k] # <<>>
        /\ unassignQ[k] # <<>> => Head(unassignQ'[k]) = Head(unassignQ[k])
    BY <1>2, <1>5, AppendFacts
  <1>7. \A n \in Nodes : \A i \in 1..Len(unassignQ'[n]) :
           \/ \E j \in 1..Len(unassignQ[n]) : unassignQ'[n][i] = unassignQ[n][j]
           \/ unassignQ'[n][i] = msg
    BY <1>5, <1>6
  <1>8. msg.containerID = NULL => msg.assignment \in blind'
    BY <1>3, <1>4
  <1> QED
    BY <1>3, <1>4, <1>5, <1>6, <1>7, <1>8 DEF UnassignsGrow

\* So does every step of the control plane.
LEMMA ControlPlaneGrows ==
    ASSUME Ownership, ApiNext \/ ControllerNext \/ SchedulerNext \/ UNCHANGED vars
    PROVE  UnassignsGrow
  <1> USE DEF dbVars, apiVars, workerVars
  <1>1. CASE UNCHANGED <<unassignQ, blind>>
    BY <1>1 DEF UnassignsGrow
  <1>2. CASE ScaleDownPublish
    <2>1. ctl.victims \subseteq Victim
      BY DEF Ownership, TypeOK, CtlState
    <2> QED
      BY <1>1, <1>2, <2>1, PublishUnassignGrows DEF ScaleDownPublish, Victims
  <1>3. ASSUME NEW app \in Apps, DeletePublish(app) PROVE UnassignsGrow
    <2>1. deletes[app].victims \subseteq Victim
      BY DEF Ownership, TypeOK, DeleteState
    <2> QED
      BY <1>1, <1>3, <2>1, PublishUnassignGrows DEF DeletePublish, Victims
  <1>4. CASE ApiNext
    <2>1. UNCHANGED <<unassignQ, blind>> \/ \E app \in Apps : DeletePublish(app)
      BY <1>4 DEF ApiNext, CreateApplication, DeployTx, PublishPlacement, RecordDeployFailure,
                  ScaleApplication, DeleteList, DeleteTx, ApiRestart
    <2> QED
      BY <1>1, <1>3, <2>1
  <1>5. CASE ControllerNext
    <2>1. UNCHANGED <<unassignQ, blind>> \/ ScaleDownPublish
      BY <1>5 DEF ControllerNext, Tick, TickList, Reconcile, ReconcileOne, ScaleUp, ScaleDownList,
                  ControllerRestart
    <2> QED
      BY <1>1, <1>2, <2>1
  <1>6. CASE SchedulerNext
    <2>1. UNCHANGED <<unassignQ, blind>>
      BY <1>6 DEF SchedulerNext, SelectNode, CheckQuota, EnforceContainerQuota, CreateContainerRow, PublishAssignment,
                  HandleStatus, SweepUnreachable, HandleHeartbeat, RedeliverPlacement,
                  RedeliverStatus, SchedulerRestart
    <2> QED
      BY <1>1, <2>1
  <1> QED
    BY <1>1, <1>4, <1>5, <1>6 DEF vars

\* A second delivery adds the message being handled again.
LEMMA RedeliverUnassignGrows ==
    ASSUME Ownership, NEW n \in Nodes, RedeliverUnassign(n)
    PROVE  UnassignsGrow
  <1> USE DEF dbVars, apiVars, workerVars
  <1>1. /\ unassignQ \in [Nodes -> Seq(UnassignMsg)] /\ unassignQ[n] # <<>> /\ UNCHANGED blind
        /\ unassignQ' = [unassignQ EXCEPT ![n] = Append(@, Head(@))]
    BY DEF Ownership, TypeOK, RedeliverUnassign, UnassignHandlersHold, Redelivered
  <1>2. PICK m \in UnassignMsg :
          m = Head(unassignQ[n]) /\ m = unassignQ[n][1] /\ 1 \in 1..Len(unassignQ[n])
    BY <1>1, TailFacts
  <1>3. unassignQ' = [unassignQ EXCEPT ![n] = Append(unassignQ[n], m)]
    BY <1>1, <1>2
  <1>4. \A k \in Nodes : unassignQ[k] # <<>> =>
           unassignQ'[k] # <<>> /\ Head(unassignQ'[k]) = Head(unassignQ[k])
    BY <1>1, <1>2, <1>3, AppendFacts
  <1>5. \A k \in Nodes : \A i \in 1..Len(unassignQ'[k]) :
           \E j \in 1..Len(unassignQ[k]) : unassignQ'[k][i] = unassignQ[k][j]
    BY <1>1, <1>2, <1>3
  <1> QED
    BY <1>1, <1>4, <1>5 DEF UnassignsGrow

\* Acking an unassign leaves the others.
LEMMA UntrackShrinks ==
    ASSUME Ownership, NEW n \in Nodes, UnassignUntrack(n)
    PROVE  \A k \in Nodes : \A i \in 1..Len(unassignQ'[k]) :
              \E j \in 1..Len(unassignQ[k]) : unassignQ'[k][i] = unassignQ[k][j]
  <1>1. /\ unassignQ \in [Nodes -> Seq(UnassignMsg)] /\ unassignQ[n] # <<>>
        /\ unassignQ' = [unassignQ EXCEPT ![n] = Tail(@)]
    BY DEF Ownership, TypeOK, UnassignUntrack, UnassignHandlersHold, AckUnassign
  <1> QED
    BY <1>1, TailFacts

\* No step leaves an id out of an unassign without recording it in blind.
LEMMA BlindKept == ASSUME Ownership, BlindNamed, [Next]_vars PROVE BlindNamed'
  <1> USE DEF dbVars, apiVars, workerVars
  <1>1. UnassignsGrow => BlindNamed'
    BY DEF UnassignsGrow, BlindNamed
  <1>2. ASSUME NEW n \in Nodes, UnassignUntrack(n) PROVE BlindNamed'
    <2>1. UNCHANGED blind
      BY <1>2 DEF UnassignUntrack
    <2> QED
      BY <1>2, <2>1, UntrackShrinks DEF BlindNamed
  <1>3. CASE UNCHANGED <<unassignQ, blind>>
    BY <1>3 DEF BlindNamed
  <1>4. CASE WorkerNext
    <2>1. \/ UNCHANGED <<unassignQ, blind>>
          \/ \E n \in Nodes : UnassignUntrack(n) \/ RedeliverUnassign(n)
      BY <1>4 DEF WorkerNext, HandleAssignment, StartContainer, StartContainerError,
                  AssignPublishStatus, AssignTrack, HandleUnassign, UnassignStop, UnassignRemove,
                  UnassignPublishStatus, CheckTrackedContainers, PollSnapshot,
                  PollInspect, PollPublishStatus, PollUpdate, ContainerExits, WorkerRestart,
                  RedeliverAssign
    <2> QED
      BY <1>1, <1>2, <1>3, <2>1, RedeliverUnassignGrows
  <1> QED
    BY <1>1, <1>4, ControlPlaneGrows DEF Next

-----------------------------------------------------------------------------
(* What a step does to the statuses, and the second layer *)

\* The status of assignment a was added behind the others.
Published(a, r, status) ==
    /\ Len(statusQ) \in Nat /\ Len(statusQ') = Len(statusQ) + 1
    /\ \A i \in 1..Len(statusQ) : statusQ'[i] = statusQ[i]
    /\ statusQ'[Len(statusQ) + 1].assignment = a
    /\ statusQ'[Len(statusQ) + 1].containerID = r
    /\ statusQ'[Len(statusQ) + 1].status = status

\* publishStatus adds the message, or loses it to a publish error.
LEMMA PublishEffect ==
    ASSUME Ownership, NEW a \in Assignments, NEW r \in RuntimeIds \cup {NULL},
           NEW status \in LiveStatus, PublishStatus(a, r, status)
    PROVE  Published(a, r, status) \/ (Spend("publishError") /\ UNCHANGED statusQ)
  <1> DEFINE m == [assignment |-> a, containerID |-> r, status |-> status]
  <1>1. statusQ \in Seq(StatusMsg) /\ m \in StatusMsg
    BY DEF Ownership, TypeOK, StatusMsg
  <1>2. CASE statusQ' = Append(statusQ, m)
    <2> HIDE DEF m
    <2>1. /\ Len(statusQ') = Len(statusQ) + 1 /\ Len(statusQ) \in Nat
          /\ \A i \in 1..Len(statusQ) : statusQ'[i] = statusQ[i]
          /\ statusQ'[Len(statusQ) + 1] = m
      BY <1>1, <1>2, AppendFacts
    <2> USE DEF m
    <2> QED
      BY <2>1 DEF Published
  <1> QED
    BY <1>2 DEF PublishStatus

\* What the three goroutines publish: the outcome of the assignment, ...
LEMMA AssignPublishes ==
    ASSUME Started, NEW n \in Nodes, AssignPublishStatus(n)
    PROVE  \E a \in Assignments, r \in RuntimeIds, status \in LiveStatus :
              /\ a = Head(assignQ[n]) /\ r = assignH[n].containerID /\ status = assignH[n].status
              /\ CreatedFor(r, a, n) /\ Truthful(status, r)
              /\ Published(a, r, status) \/ (Spend("publishError") /\ UNCHANGED statusQ)
  <1>1. /\ Ownership /\ assignQ[n] # <<>> /\ assignQ \in [Nodes -> Seq(Assignments)]
        /\ assignH[n].pc = "publish" /\ assignH[n].status \in LiveStatus
        /\ assignH[n].containerID # NULL /\ assignH[n].containerID \in RuntimeIds \cup {NULL}
        /\ Owned(assignH[n].containerID, Head(assignQ[n]), n)
        /\ Truthful(assignH[n].status, assignH[n].containerID)
    BY HeldIds DEF Started, AssignPublishStatus, Ownership, TypeOK, AssignHandlersHold, StartedOnce,
                   Held, HandlersTrue
  <1>2. PICK a \in Assignments, r \in RuntimeIds, status \in LiveStatus :
          a = Head(assignQ[n]) /\ r = assignH[n].containerID /\ status = assignH[n].status
    BY <1>1
  <1>3. PublishStatus(a, r, status)
    BY <1>2 DEF AssignPublishStatus
  <1>4. Published(a, r, status) \/ (Spend("publishError") /\ UNCHANGED statusQ)
    BY <1>1, <1>3, PublishEffect
  <1> QED
    BY <1>1, <1>2, <1>4 DEF Owned

\* ... the end of a container the poll saw, ...
LEMMA PollPublishes ==
    ASSUME Started, NEW n \in Nodes, PollPublishStatus(n)
    PROVE  \E a \in Assignments, r \in RuntimeIds, status \in Terminal :
              /\ a = pollH[n].assignment /\ r = pollH[n].todo[a].containerID
              /\ pollH[n].todo[a] # NotTracked
              /\ CreatedFor(r, a, n) /\ Ended(r)
              /\ Published(a, r, status) \/ (Spend("publishError") /\ UNCHANGED statusQ)
  <1>1. /\ Ownership /\ pollH[n].pc = "publish" /\ pollH[n].assignment \in Assignments
        /\ pollH[n].todo[pollH[n].assignment] # NotTracked
        /\ pollH[n].status \in LiveStatus /\ pollH[n].status \in Terminal
        /\ Ended(pollH[n].todo[pollH[n].assignment].containerID)
    BY DEF Started, PollPublishStatus, Ownership, PollsHold, StartedOnce, Held, PollsTrue
  <1>2. PICK a \in Assignments : a = pollH[n].assignment
    BY <1>1
  <1>3. pollH[n].todo[a].containerID \in RuntimeIds /\ CreatedFor(pollH[n].todo[a].containerID, a, n)
    BY <1>1, <1>2, HeldIds
  <1>4. PICK r \in RuntimeIds, status \in LiveStatus :
          r = pollH[n].todo[a].containerID /\ status = pollH[n].status
    BY <1>1, <1>3
  <1>5. PublishStatus(a, r, status)
    BY <1>2, <1>4 DEF PollPublishStatus
  <1>6. Published(a, r, status) \/ (Spend("publishError") /\ UNCHANGED statusQ)
    BY <1>1, <1>5, PublishEffect
  <1> QED
    BY <1>1, <1>2, <1>3, <1>4, <1>6

\* ... and the end of an unassigned one.
LEMMA UnassignPublishes ==
    ASSUME Ownership, NEW n \in Nodes, UnassignPublishStatus(n)
    PROVE  \E a \in Assignments, r \in RuntimeIds \cup {NULL} :
              /\ a = Head(unassignQ[n]).assignment /\ r = Head(unassignQ[n]).containerID
              /\ Published(a, r, "stopped") \/ (Spend("publishError") /\ UNCHANGED statusQ)
  <1>1. unassignQ \in [Nodes -> Seq(UnassignMsg)] /\ unassignQ[n] # <<>>
    BY DEF Ownership, TypeOK, UnassignPublishStatus, UnassignHandlersHold
  <1>2. Head(unassignQ[n]) \in UnassignMsg
    BY <1>1
  <1>3. PICK a \in Assignments, r \in RuntimeIds \cup {NULL} :
          a = Head(unassignQ[n]).assignment /\ r = Head(unassignQ[n]).containerID
    BY <1>2 DEF UnassignMsg
  <1>4. PublishStatus(a, r, "stopped")
    BY <1>3 DEF UnassignPublishStatus
  <1>5. Published(a, r, "stopped") \/ (Spend("publishError") /\ UNCHANGED statusQ)
    BY <1>4, PublishEffect DEF LiveStatus
  <1> QED
    BY <1>3, <1>5

\* The message an unassign handler works on.
LEMMA UnassignHead ==
    ASSUME Ownership, BlindNamed, NEW n \in Nodes, unassignQ[n] # <<>>
    PROVE  /\ Head(unassignQ[n]).assignment \in Assignments
           /\ Head(unassignQ[n]).containerID \in RuntimeIds \cup {NULL}
           /\ Head(unassignQ[n]).containerID = NULL => Head(unassignQ[n]).assignment \in blind
           /\ Head(unassignQ[n]).containerID # NULL =>
                 CreatedFor(Head(unassignQ[n]).containerID, Head(unassignQ[n]).assignment, n)
  <1>1. unassignQ \in [Nodes -> Seq(UnassignMsg)]
    BY DEF Ownership, TypeOK
  <1>2. PICK msg \in UnassignMsg :
          msg = Head(unassignQ[n]) /\ msg = unassignQ[n][1] /\ 1 \in 1..Len(unassignQ[n])
    BY <1>1, TailFacts
  <1> QED
    BY <1>2 DEF UnassignMsg, Ownership, UnassignNamesOwnContainer, BlindNamed

\* Every message of the status stream has the fields of one.
LEMMA StatusTypes ==
    ASSUME Ownership, NEW i \in 1..Len(statusQ)
    PROVE  /\ statusQ[i].assignment \in Assignments
           /\ statusQ[i].containerID \in RuntimeIds \cup {NULL}
           /\ statusQ[i].status \in LiveStatus
  <1>1. statusQ \in Seq(StatusMsg)
    BY DEF Ownership, TypeOK
  <1>2. statusQ[i] \in StatusMsg
    BY <1>1
  <1> QED
    BY <1>2 DEF StatusMsg

\* Likewise for the unassign messages.
LEMMA UnassignTypes ==
    ASSUME Ownership, NEW n \in Nodes, NEW i \in 1..Len(unassignQ[n])
    PROVE  /\ unassignQ[n][i].assignment \in Assignments
           /\ unassignQ[n][i].containerID \in RuntimeIds \cup {NULL}
  <1>1. unassignQ[n] \in Seq(UnassignMsg)
    BY DEF Ownership, TypeOK
  <1>2. unassignQ[n][i] \in UnassignMsg
    BY <1>1
  <1> QED
    BY <1>2 DEF UnassignMsg

\* A status added for a container that ended, or that says running, is true.
LEMMA StatusesGoneAppend ==
    ASSUME Ownership, StatusesGone, RuntimesStay, blind \subseteq blind',
           NEW a \in Assignments, NEW r, NEW status,
           status \in Terminal /\ a \notin blind => Gone(a), Published(a, r, status)
    PROVE  StatusesGone'
  <1>1. \A i \in 1..Len(statusQ) : statusQ[i].assignment \in Assignments
    BY StatusTypes
  <1> SUFFICES ASSUME NEW i \in 1..Len(statusQ'), statusQ'[i].status \in Terminal,
                      statusQ'[i].assignment \notin blind
               PROVE  Gone(statusQ[i].assignment)'
    BY DEF StatusesGone, Terminal
  <1>2. CASE i = Len(statusQ) + 1
    <2>1. statusQ'[i].assignment = a /\ Gone(a)
      BY <1>2 DEF Published
    <2>2. Gone(a)'
      BY <2>1, GoneStays
    <2> QED
      BY <2>1, <2>2 DEF Gone
  <1>3. CASE i \in 1..Len(statusQ)
    <2>1. PICK b \in Assignments : b = statusQ[i].assignment /\ b = statusQ'[i].assignment /\ Gone(b)
      BY <1>1, <1>3 DEF Published, StatusesGone
    <2>2. Gone(b)'
      BY <2>1, GoneStays
    <2> QED
      BY <2>1, <2>2 DEF Gone
  <1> QED
    BY <1>2, <1>3 DEF Published

\* Statuses that were there before are as true as before.
LEMMA StatusesGoneKept ==
    ASSUME Ownership, StatusesGone, RuntimesStay, blind \subseteq blind',
           \A i \in 1..Len(statusQ') : \E j \in 1..Len(statusQ) : statusQ'[i] = statusQ[j]
    PROVE  StatusesGone'
  <1>1. \A i \in 1..Len(statusQ) : statusQ[i].assignment \in Assignments
    BY StatusTypes
  <1> SUFFICES ASSUME NEW i \in 1..Len(statusQ'), statusQ'[i].status \in Terminal,
                      statusQ'[i].assignment \notin blind
               PROVE  Gone(statusQ[i].assignment)'
    BY DEF StatusesGone, Terminal
  <1>2. PICK b \in Assignments : b = statusQ'[i].assignment /\ Gone(b)
    BY <1>1 DEF StatusesGone
  <1>3. Gone(b)'
    BY <1>2, GoneStays
  <1> QED
    BY <1>2, <1>3 DEF Gone

\* Rows that do not become terminal are as true as before.
LEMMA RowsGoneKept ==
    ASSUME Ownership, RowsGone, RuntimesStay, blind \subseteq blind',
           \A a \in Assignments : containers'[a].status \in Terminal => containers[a].status \in Terminal
    PROVE  RowsGone'
  <1>1. \A a \in Assignments \ blind' : containers'[a].status \in Terminal => Gone(a)'
    BY GoneStays DEF RowsGone
  <1> QED
    BY <1>1 DEF RowsGone, Terminal

\* Handlers that keep their message and do not stop anything are as true as before.
LEMMA StopsGoneKept ==
    ASSUME Ownership, BlindNamed, StopsGone, RuntimesStay, blind \subseteq blind',
           \A n \in Nodes : unassignH'[n] \in {"remove", "publish"} =>
              /\ unassignH[n] \in {"remove", "publish"}
              /\ Head(unassignQ'[n]) = Head(unassignQ[n])
    PROVE  StopsGone'
  <1> SUFFICES ASSUME NEW n \in Nodes, unassignH'[n] \in {"remove", "publish"},
                      Head(unassignQ'[n]).assignment \notin blind'
               PROVE  Gone(Head(unassignQ[n]).assignment)'
    BY DEF StopsGone
  <1>1. unassignH[n] \in {"remove", "publish"} /\ Head(unassignQ'[n]) = Head(unassignQ[n])
    OBVIOUS
  <1>2. unassignQ[n] # <<>>
    BY <1>1 DEF Ownership, UnassignHandlersHold
  <1>3. PICK a \in Assignments : a = Head(unassignQ[n]).assignment
    BY <1>2, UnassignHead
  <1>4. Gone(a)
    BY <1>1, <1>3 DEF StopsGone
  <1>5. Gone(a)'
    BY <1>4, GoneStays
  <1> QED
    BY <1>1, <1>3, <1>5 DEF Gone

\* handleStatus: the message at the head is recorded in its row, if there is one.
LEMMA HandleStatusEffect ==
    ASSUME Ownership, HandleStatus
    PROVE  \E b \in Assignments :
              /\ 1 \in 1..Len(statusQ) /\ b = statusQ[1].assignment
              /\ Len(statusQ) \in Nat /\ Len(statusQ') = Len(statusQ) - 1
              /\ \A i \in 1..Len(statusQ') : i + 1 \in 1..Len(statusQ) /\ statusQ'[i] = statusQ[i + 1]
              /\ \A a \in Assignments : a # b => containers'[a] = containers[a]
              /\ containers[b].status \notin LiveStatus => containers'[b] = containers[b]
              /\ containers[b].status \in LiveStatus =>
                    /\ containers'[b].status = statusQ[1].status
                    /\ containers'[b].runtimeID = IF statusQ[1].containerID = NULL
                                                  THEN containers[b].runtimeID
                                                  ELSE statusQ[1].containerID
  <1>1. /\ containers \in [Assignments -> ContainerRow] /\ statusQ \in Seq(StatusMsg)
        /\ statusQ # <<>> /\ statusQ' = Tail(statusQ)
    BY DEF Ownership, TypeOK, HandleStatus
  <1>2. PICK msg \in StatusMsg : msg = Head(statusQ) /\ msg = statusQ[1] /\ 1 \in 1..Len(statusQ)
    BY <1>1, TailFacts
  <1>3. PICK b \in Assignments : b = msg.assignment
    BY DEF StatusMsg
  <1>4. /\ Len(statusQ) \in Nat /\ Len(statusQ') = Len(statusQ) - 1
        /\ \A i \in 1..Len(statusQ') : i + 1 \in 1..Len(statusQ) /\ statusQ'[i] = statusQ[i + 1]
    BY <1>1, TailFacts
  <1>5. CASE containers[b].status \notin LiveStatus
    BY <1>2, <1>3, <1>4, <1>5 DEF HandleStatus
  <1>6. CASE containers[b].status \in LiveStatus
    <2>1. UpdateStatus(b, msg.status, msg.containerID)
      BY <1>2, <1>3, <1>6 DEF HandleStatus
    <2>2. PICK row : /\ containers' = [containers EXCEPT ![b] = row] /\ row.status = msg.status
                     /\ row.runtimeID = IF msg.containerID = NULL THEN containers[b].runtimeID
                                        ELSE msg.containerID
      <3> DEFINE st  == IF msg.status = "running" /\ containers[b].startedAt = 0
                        THEN clock + 1 ELSE containers[b].startedAt
                 rid == IF msg.containerID = NULL THEN containers[b].runtimeID ELSE msg.containerID
                 new == [status |-> msg.status, deployment |-> containers[b].deployment,
                         node |-> containers[b].node, runtimeID |-> rid, startedAt |-> st,
                         stoppedAt |-> containers[b].stoppedAt \/ msg.status \in {"crashed", "stopped"}]
      <3>1. containers' = [containers EXCEPT ![b] = new]
        BY <2>1 DEF UpdateStatus
      <3>2. new.status = msg.status /\ new.runtimeID = rid
        OBVIOUS
      <3> HIDE DEF new
      <3> QED
        BY <3>1, <3>2
    <2>3. containers'[b] = row /\ \A a \in Assignments : a # b => containers'[a] = containers[a]
      BY <1>1, <2>2
    <2> QED
      BY <1>2, <1>3, <1>4, <1>6, <2>2, <2>3
  <1> QED
    BY <1>5, <1>6

\* The scheduler's other steps leave the rows alone but for a new one.
LEMMA SchedulerRows ==
    ASSUME Ownership, SchedulerNext, ~HandleStatus
    PROVE  /\ \A a \in Assignments :
                 \/ containers'[a] = containers[a]
                 \/ /\ containers[a].status = "none"
                    /\ containers'[a].status = "pending" /\ containers'[a].runtimeID = NULL
           /\ UNCHANGED <<unassignQ, blind, ctl, deletes, workerVars>>
           /\ UNCHANGED statusQ \/ RedeliverStatus
  <1> USE DEF dbVars, apiVars, workerVars
  <1>1. CASE CreateContainerRow
    <2>1. containers \in [Assignments -> ContainerRow]
      BY DEF Ownership, TypeOK
    <2>2. \/ UNCHANGED containers
          \/ \E b \in Assignments : \E row :
                /\ containers[b].status = "none" /\ row.status = "pending" /\ row.runtimeID = NULL
                /\ containers' = [containers EXCEPT ![b] = row]
      <3>1. CASE UNCHANGED containers
        BY <3>1
      <3>2. CASE ~UNCHANGED containers
        <4> DEFINE row == [status |-> "pending", deployment |-> sched.deployment,
                           node |-> sched.node, runtimeID |-> NULL,
                           startedAt |-> 0, stoppedAt |-> FALSE]
        <4>1. PICK b \in Assignments : /\ containers[b].status = "none"
                                       /\ containers' = [containers EXCEPT ![b] = row]
          BY <1>1, <3>2 DEF CreateContainerRow, Mint, NewAssignments
        <4>2. row.status = "pending" /\ row.runtimeID = NULL
          OBVIOUS
        <4> HIDE DEF row
        <4> QED
          BY <4>1, <4>2
      <3> QED
        BY <3>1, <3>2
    <2> QED
      BY <1>1, <2>1, <2>2 DEF CreateContainerRow
  <1>2. CASE ~CreateContainerRow
    BY <1>2 DEF SchedulerNext, SelectNode, CheckQuota, EnforceContainerQuota, PublishAssignment, SweepUnreachable,
                HandleHeartbeat, RedeliverPlacement, RedeliverStatus, SchedulerRestart
  <1> QED
    BY <1>1, <1>2

\* The apiserver and the controller change a row only by deleting it.
LEMMA ControlPlaneRows ==
    ASSUME Ownership, ApiNext \/ ControllerNext \/ UNCHANGED vars
    PROVE  /\ \A a \in Assignments : \/ containers'[a] = containers[a]
                                     \/ containers'[a] = DeletedContainer
           /\ UNCHANGED <<statusQ, workerVars, assignQ>>
  <1> USE DEF dbVars, apiVars, workerVars
  <1>1. CASE \E app \in Apps : DeleteTx(app)
    BY <1>1 DEF DeleteTx
  <1>2. CASE ApiNext /\ ~\E app \in Apps : DeleteTx(app)
    BY <1>2 DEF ApiNext, CreateApplication, DeployTx, PublishPlacement, RecordDeployFailure,
                ScaleApplication, DeleteList, DeletePublish, ApiRestart
  <1>3. CASE ControllerNext
    BY <1>3 DEF ControllerNext, Tick, TickList, Reconcile, ReconcileOne, ScaleUp, ScaleDownList,
                ScaleDownPublish, ControllerRestart
  <1> QED
    BY <1>1, <1>2, <1>3 DEF vars

\* A worker changes no row.
LEMMA WorkerRows ==
    ASSUME WorkerNext
    PROVE  UNCHANGED <<containers, blind, ctl, deletes, sched>>
  BY DEF WorkerNext, HandleAssignment, StartContainer, StartContainerError,
         AssignPublishStatus, AssignTrack, HandleUnassign, UnassignStop, UnassignRemove,
         UnassignPublishStatus, UnassignUntrack, CheckTrackedContainers, PollSnapshot,
         PollInspect, PollPublishStatus, PollUpdate, ContainerExits, WorkerRestart,
         RedeliverAssign, RedeliverUnassign, dbVars, apiVars, workerVars

\* The invariant of the second layer.
Ending == Started /\ BlindNamed /\ TerminalGone

\* Neither the apiserver nor the controller nor the scheduler calls a container
\* ended that a worker has not reported ended.
LEMMA ControlPlaneEnds ==
    ASSUME Ending, RuntimesStay, ApiNext \/ ControllerNext \/ SchedulerNext \/ UNCHANGED vars
    PROVE  TerminalGone'
  <1> USE DEF workerVars
  <1>1. Ownership /\ BlindNamed /\ RowsGone /\ StatusesGone /\ StopsGone
    BY DEF Ending, Started, TerminalGone
  <1>2. UnassignsGrow
    BY <1>1, ControlPlaneGrows
  <1>3. blind \subseteq blind'
    BY <1>2 DEF UnassignsGrow
  <1>4. UNCHANGED unassignH
    BY ControlPlaneRows, SchedulerRows, <1>1 DEF HandleStatus
  <1>5. StopsGone'
    <2>1. \A n \in Nodes : unassignH[n] # "idle" => unassignQ[n] # <<>>
      BY <1>1 DEF Ownership, UnassignHandlersHold
    <2>2. \A n \in Nodes : unassignH'[n] \in {"remove", "publish"} =>
             /\ unassignH[n] \in {"remove", "publish"}
             /\ Head(unassignQ'[n]) = Head(unassignQ[n])
      BY <1>2, <1>4, <2>1 DEF UnassignsGrow
    <2> QED
      BY <1>1, <1>3, <2>2, StopsGoneKept
  <1>6. CASE HandleStatus
    <2>1. PICK b \in Assignments :
              /\ 1 \in 1..Len(statusQ) /\ b = statusQ[1].assignment
              /\ \A i \in 1..Len(statusQ') : i + 1 \in 1..Len(statusQ) /\ statusQ'[i] = statusQ[i + 1]
              /\ \A a \in Assignments : a # b => containers'[a] = containers[a]
              /\ containers'[b] = containers[b] \/ containers'[b].status = statusQ[1].status
      BY <1>1, <1>6, HandleStatusEffect
    <2>2. StatusesGone'
      BY <1>1, <1>3, <2>1, StatusesGoneKept
    <2>3. RowsGone'
      <3> SUFFICES ASSUME NEW a \in Assignments, a \notin blind', containers'[a].status \in Terminal
                   PROVE  Gone(a)'
        BY DEF RowsGone, Terminal
      <3>1. Gone(a)
        BY <1>1, <1>3, <2>1 DEF RowsGone, StatusesGone
      <3> QED
        BY <1>1, <3>1, GoneStays
    <2> QED
      BY <1>5, <2>2, <2>3 DEF TerminalGone
  <1>7. CASE ~HandleStatus
    <2>1. \A a \in Assignments : containers'[a].status \in Terminal => containers[a].status \in Terminal
      BY <1>1, <1>7, ControlPlaneRows, SchedulerRows DEF Terminal, DeletedContainer
    <2>2. UNCHANGED statusQ \/ RedeliverStatus
      BY <1>1, <1>7, ControlPlaneRows, SchedulerRows
    <2>3. \A i \in 1..Len(statusQ') : \E j \in 1..Len(statusQ) : statusQ'[i] = statusQ[j]
      <3>1. CASE UNCHANGED statusQ
        BY <3>1
      <3>2. CASE RedeliverStatus
        <4>1. statusQ \in Seq(StatusMsg) /\ statusQ # <<>> /\ statusQ' = Append(statusQ, Head(statusQ))
          BY <1>1, <3>2 DEF Ownership, TypeOK, RedeliverStatus, Redelivered
        <4> QED
          BY <4>1
      <3> QED
        BY <2>2, <3>1, <3>2
    <2>4. StatusesGone' /\ RowsGone'
      BY <1>1, <1>3, <2>1, <2>3, StatusesGoneKept, RowsGoneKept
    <2> QED
      BY <1>5, <2>4 DEF TerminalGone
  <1> QED
    BY <1>6, <1>7

\* StopContainer and RemoveContainer, when they do not fail, leave the named
\* container ended.
LEMMA UnassignRuntimeEnds ==
    ASSUME Never({"stopError"}), Ending, RuntimesStay, NEW n \in Nodes,
           UnassignStop(n) \/ UnassignRemove(n)
    PROVE  StopsGone'
  <1> USE DEF dbVars, apiVars, workerVars
  <1>1. Ownership /\ BlindNamed /\ StopsGone /\ Unspent /\ NoneCreated
    BY DEF Ending, Started, TerminalGone, StartedOnce, Held
  <1>2. /\ unassignH \in [Nodes -> UnassignState] /\ unassignQ[n] # <<>>
        /\ UNCHANGED <<unassignQ, blind>>
    BY <1>1 DEF Ownership, TypeOK, UnassignStop, UnassignRemove, UnassignHandlersHold
  <1>3. \A m \in Nodes : m # n => unassignH'[m] = unassignH[m]
    BY <1>2 DEF UnassignStop, UnassignRemove
  <1>4. PICK a \in Assignments, r \in RuntimeIds \cup {NULL} :
          /\ a = Head(unassignQ[n]).assignment /\ r = Head(unassignQ[n]).containerID
          /\ r = NULL => a \in blind
          /\ r # NULL => CreatedFor(r, a, n)
    BY <1>1, <1>2, UnassignHead
  <1>5. ASSUME a \notin blind PROVE Gone(a)'
    <2>1. r \in RuntimeIds /\ runtime[r].assignment = a /\ runtime[r].node = n
      BY <1>4, <1>5 DEF CreatedFor
    <2>2. runtime[r].state \in RuntimeState \ {"none", "created"}
      <3>1. runtime[r] \in RuntimeContainer /\ runtime[r].state # "created"
        BY <1>1, <2>1 DEF Ownership, TypeOK, NoneCreated
      <3>2. runtime[r].state # "none"
        BY <1>1, <2>1, NullIsNoId DEF Ownership, RuntimesPlaced, NoRuntime
      <3> QED
        BY <3>1, <3>2 DEF RuntimeContainer
    <2>3. CASE UnassignRemove(n)
      <3>1. Gone(a)
        BY <1>1, <1>4, <1>5, <2>3 DEF StopsGone, UnassignRemove
      <3> QED
        BY <1>1, <3>1, GoneStays
    <2>4. CASE UnassignStop(n)
      <3>1. ~Spend("stopError")
        BY <1>1, NeverSpent DEF Never, Bounded
      <3>2. \/ Runs(r, n) /\ \E s \in {"exited0", "exited1"} : runtime' = [runtime EXCEPT ![r].state = s]
            \/ ~Runs(r, n) /\ UNCHANGED runtime
        BY <1>4, <2>4, <3>1 DEF UnassignStop, UnassignTarget
      <3>3. CASE Runs(r, n) /\ \E s \in {"exited0", "exited1"} : runtime' = [runtime EXCEPT ![r].state = s]
        <4>1. Ended(r)'
          BY <1>1, <2>1, <3>3, StateMoves DEF Runs
        <4>2. runtime'[r].assignment = a
          BY <2>1 DEF RuntimesStay
        <4> QED
          BY <2>1, <4>1, <4>2 DEF Gone
      <3>4. CASE ~Runs(r, n) /\ UNCHANGED runtime
        <4>1. Ended(r)
          BY <2>1, <2>2, <3>4, NullIsNoId DEF Runs, Ended, RuntimeState
        <4>2. Gone(a)
          BY <2>1, <4>1 DEF Gone
        <4> QED
          BY <1>1, <4>2, GoneStays
      <3> QED
        BY <3>2, <3>3, <3>4
    <2> QED
      BY <2>3, <2>4
  <1>6. ASSUME NEW m \in Nodes, unassignH'[m] \in {"remove", "publish"},
               Head(unassignQ'[m]).assignment \notin blind'
        PROVE  Gone(Head(unassignQ[m]).assignment)'
    <2>1. CASE m = n
      BY <1>2, <1>4, <1>5, <1>6, <2>1 DEF Gone
    <2>2. CASE m # n
      <3>1. unassignH[m] \in {"remove", "publish"} /\ unassignQ[m] # <<>>
        BY <1>1, <1>3, <1>6, <2>2 DEF Ownership, UnassignHandlersHold
      <3>2. PICK b \in Assignments : b = Head(unassignQ[m]).assignment
        BY <1>1, <3>1, UnassignHead
      <3>3. Gone(b)
        BY <1>1, <1>2, <1>6, <3>1, <3>2 DEF StopsGone
      <3>4. Gone(b)'
        BY <1>1, <3>3, GoneStays
      <3> QED
        BY <1>2, <3>2, <3>4 DEF Gone
    <2> QED
      BY <2>1, <2>2
  <1> QED
    BY <1>6 DEF StopsGone

\* No worker reports an end that did not happen.
LEMMA WorkerEnds ==
    ASSUME Never(Repeats \cup {"stopError"}), Ending, RuntimesStay, WorkerNext
    PROVE  TerminalGone'
  <1> USE DEF dbVars, apiVars, workerVars
  <1>1. Started /\ Ownership /\ BlindNamed /\ RowsGone /\ StatusesGone /\ StopsGone
    BY DEF Ending, Started, TerminalGone
  <1>2. UNCHANGED <<containers, blind>>
    BY WorkerRows
  <1>3. RowsGone'
    BY <1>1, <1>2, RowsGoneKept
  <1>4. /\ ~Spend("startError") /\ ~Spend("assignRedelivery") /\ ~Spend("workerRestart")
    BY <1>1, NeverSpent DEF Never, Repeats, Bounded, Started
  <1>5. ASSUME UNCHANGED <<statusQ, unassignQ, unassignH>> PROVE TerminalGone'
    BY <1>1, <1>2, <1>3, <1>5, StatusesGoneKept, StopsGoneKept DEF TerminalGone
  <1>6. ASSUME NEW n \in Nodes, AssignPublishStatus(n) PROVE TerminalGone'
    <2>1. StopsGone'
      BY <1>1, <1>2, <1>6, StopsGoneKept DEF AssignPublishStatus
    <2>2. PICK a \in Assignments, r \in RuntimeIds, status \in LiveStatus :
              /\ CreatedFor(r, a, n) /\ Truthful(status, r)
              /\ Published(a, r, status) \/ UNCHANGED statusQ
      BY <1>1, <1>6, AssignPublishes
    <2>3. status \in Terminal => Gone(a)
      BY <2>2 DEF Truthful, CreatedFor, Gone, Terminal
    <2>4. StatusesGone'
      BY <1>1, <1>2, <2>2, <2>3, StatusesGoneAppend, StatusesGoneKept
    <2> QED
      BY <1>3, <2>1, <2>4 DEF TerminalGone
  <1>7. ASSUME NEW n \in Nodes, PollPublishStatus(n) PROVE TerminalGone'
    <2>1. StopsGone'
      BY <1>1, <1>2, <1>7, StopsGoneKept DEF PollPublishStatus
    <2>2. PICK a \in Assignments, r \in RuntimeIds, status \in Terminal :
              /\ CreatedFor(r, a, n) /\ Ended(r)
              /\ Published(a, r, status) \/ UNCHANGED statusQ
      BY <1>1, <1>7, PollPublishes
    <2>3. Gone(a)
      BY <2>2 DEF CreatedFor, Gone
    <2>4. StatusesGone'
      BY <1>1, <1>2, <2>2, <2>3, StatusesGoneAppend, StatusesGoneKept
    <2> QED
      BY <1>3, <2>1, <2>4 DEF TerminalGone
  <1>8. ASSUME NEW n \in Nodes, UnassignPublishStatus(n) PROVE TerminalGone'
    <2>1. /\ unassignH \in [Nodes -> UnassignState] /\ UNCHANGED unassignQ
          /\ unassignH' = [unassignH EXCEPT ![n] = "untrack"] /\ unassignH[n] = "publish"
      BY <1>1, <1>8 DEF Ownership, TypeOK, UnassignPublishStatus
    <2>2. StopsGone'
      BY <1>1, <1>2, <2>1, StopsGoneKept
    <2>3. PICK a \in Assignments, r \in RuntimeIds \cup {NULL} :
              /\ a = Head(unassignQ[n]).assignment
              /\ Published(a, r, "stopped") \/ UNCHANGED statusQ
      BY <1>1, <1>8, UnassignPublishes
    <2>4. a \notin blind => Gone(a)
      BY <1>1, <2>1, <2>3 DEF StopsGone
    <2>5. StatusesGone'
      BY <1>1, <1>2, <2>3, <2>4, StatusesGoneAppend, StatusesGoneKept
    <2> QED
      BY <1>3, <2>2, <2>5 DEF TerminalGone
  <1>9. ASSUME NEW n \in Nodes, UnassignStop(n) \/ UnassignRemove(n) PROVE TerminalGone'
    <2>1. StopsGone'
      BY <1>9, UnassignRuntimeEnds DEF Never
    <2>2. StatusesGone'
      BY <1>1, <1>2, <1>9, StatusesGoneKept DEF UnassignStop, UnassignRemove
    <2> QED
      BY <1>3, <2>1, <2>2 DEF TerminalGone
  <1>10. ASSUME NEW n \in Nodes, UnassignUntrack(n) PROVE TerminalGone'
    <2>1. /\ unassignH \in [Nodes -> UnassignState] /\ unassignQ \in [Nodes -> Seq(UnassignMsg)]
          /\ unassignH' = [unassignH EXCEPT ![n] = "idle"] /\ UNCHANGED statusQ
          /\ unassignQ' = [unassignQ EXCEPT ![n] = Tail(@)]
      BY <1>1, <1>10 DEF Ownership, TypeOK, UnassignUntrack, AckUnassign
    <2>2. \A m \in Nodes : unassignH'[m] \in {"remove", "publish"} =>
             unassignH[m] \in {"remove", "publish"} /\ Head(unassignQ'[m]) = Head(unassignQ[m])
      BY <2>1
    <2> QED
      BY <1>1, <1>2, <1>3, <2>1, <2>2, StatusesGoneKept, StopsGoneKept DEF TerminalGone
  <1>11. ASSUME NEW n \in Nodes, RedeliverUnassign(n) PROVE TerminalGone'
    <2>1. UnassignsGrow /\ UNCHANGED <<statusQ, unassignH>>
      BY <1>1, <1>11, RedeliverUnassignGrows DEF RedeliverUnassign
    <2>2. \A m \in Nodes : unassignH'[m] \in {"remove", "publish"} =>
             unassignH[m] \in {"remove", "publish"} /\ Head(unassignQ'[m]) = Head(unassignQ[m])
      BY <1>1, <2>1 DEF UnassignsGrow, Ownership, UnassignHandlersHold
    <2> QED
      BY <1>1, <1>2, <1>3, <2>1, <2>2, StatusesGoneKept, StopsGoneKept DEF TerminalGone
  <1>12. \/ UNCHANGED <<statusQ, unassignQ, unassignH>>
         \/ \E n \in Nodes : \/ AssignPublishStatus(n) \/ PollPublishStatus(n)
                             \/ UnassignPublishStatus(n) \/ UnassignStop(n) \/ UnassignRemove(n)
                             \/ UnassignUntrack(n) \/ RedeliverUnassign(n)
    BY <1>4 DEF WorkerNext, HandleAssignment, StartContainer, StartContainerError, AssignTrack,
                HandleUnassign, CheckTrackedContainers, PollSnapshot, PollInspect, PollUpdate,
                ContainerExits, WorkerRestart, RedeliverAssign
  <1> QED
    BY <1>5, <1>6, <1>7, <1>8, <1>9, <1>10, <1>11, <1>12

\* The second layer is an invariant.
LEMMA EndingInvariant ==
    ASSUME Never(Repeats \cup {"stopError"})
    PROVE  Spec => []Ending
  <1>1. Never(Repeats)
    BY DEF Never
  <1>2. Init => Ending
    <2> SUFFICES ASSUME Init PROVE Ending
      OBVIOUS
    <2>1. Started
      BY InitStarted
    <2>2. BlindNamed /\ TerminalGone
      BY DEF Init, BlindNamed, TerminalGone, RowsGone, StatusesGone, StopsGone, NoContainer, Terminal
    <2> QED
      BY <2>1, <2>2 DEF Ending
  <1>3. Ending /\ [Next]_vars => Ending'
    <2> SUFFICES ASSUME Ending, [Next]_vars PROVE Ending'
      OBVIOUS
    <2>1. Started' /\ RuntimesStay /\ BlindNamed'
      BY <1>1, StartedKept, RuntimesKept, BlindKept DEF Ending, Started
    <2>2. TerminalGone'
      BY <2>1, ControlPlaneEnds, WorkerEnds DEF Next
    <2> QED
      BY <2>1, <2>2 DEF Ending
  <1> QED
    BY <1>2, <1>3, PTL DEF Spec

\* What the control plane counts as gone does not run: while no start fails
\* halfway, no agent restarts, no assignment is delivered twice and the runtime
\* obeys a stop, a row that says crashed or stopped has no running container,
\* whatever else is lost, redelivered or restarted.
THEOREM GoneRowsDoNotRun ==
    ASSUME Never(Repeats \cup {"stopError"})
    PROVE  Spec => []TerminalRowIsStopped
  <1>1. Ending => TerminalRowIsStopped
    <2> SUFFICES ASSUME Ending, NEW a \in Assignments \ blind,
                        containers[a].status \in {"crashed", "stopped"},
                        NEW r \in RuntimeIds, runtime[r].state = "running", runtime[r].assignment = a
                 PROVE  FALSE
      BY DEF TerminalRowIsStopped
    <2>1. PICK s \in RuntimeIds : runtime[s].assignment = a /\ Ended(s)
      BY DEF Ending, TerminalGone, RowsGone, Terminal, Gone
    <2>2. r = s
      BY <2>1 DEF Ending, Started, StartedOnce, Deliveries, OneRuntime
    <2> QED
      BY <2>1, <2>2 DEF Ended
  <1> QED
    BY <1>1, EndingInvariant, PTL

-----------------------------------------------------------------------------
(* Third layer: the end of a container whose start was reported is reported. *)

\* The first status of container r was published.
Announced(r) ==
    /\ runtime[r].assignment \in Assignments
    /\ \A n \in Nodes : ~(assignH[n].pc = "publish" /\ assignH[n].containerID = r)
Known(r) == r # NULL => Announced(r)

\* Ids leave a worker only with its first status.
RowIds      == \A a \in Assignments : Known(containers[a].runtimeID)
StatusIds   == \A i \in 1..Len(statusQ) : Known(statusQ[i].containerID)
UnassignIds == \A n \in Nodes : \A i \in 1..Len(unassignQ[n]) : Known(unassignQ[n][i].containerID)
EntryIds    == \A n \in Nodes, a \in Assignments :
                  Known(tracked[n][a].containerID) /\ Known(pollH[n].todo[a].containerID)
VictimIds   == \A v \in Victims : Known(v.containerID)
IdsAnnounced == RowIds /\ StatusIds /\ UnassignIds /\ EntryIds /\ VictimIds

IdsGiven ==
    /\ \A i \in 1..Len(statusQ) : statusQ[i].containerID = NULL => statusQ[i].assignment \in blind
    /\ \A a \in Assignments \ blind : containers[a].status \in Terminal => containers[a].runtimeID # NULL

\* No container is reported running after it was reported ended.
NoRunning(a) == \A i \in 1..Len(statusQ) : statusQ[i].assignment = a => statusQ[i].status # "running"
InOrder ==
    /\ \A i, j \in 1..Len(statusQ) :
          (i < j /\ statusQ[i].assignment = statusQ[j].assignment /\ statusQ[i].assignment \notin blind
             /\ statusQ[i].status \in Terminal) => statusQ[j].status # "running"
    /\ \A a \in Assignments \ blind : containers[a].status \in Terminal => NoRunning(a)

\* The end of assignment a's container was reported.
EndQueued(a) == \E i \in 1..Len(statusQ) : statusQ[i].assignment = a /\ statusQ[i].status \in Terminal
Reported(a)  == EndQueued(a) \/ (containers[a].status # "running" /\ NoRunning(a))

\* Whoever is past publishing an end has reported it.
PollsReported ==
    \A n \in Nodes : pollH[n].pc = "update" /\ pollH[n].assignment \notin blind
                        => Reported(pollH[n].assignment)
StartsReported ==
    \A n \in Nodes : assignH[n].pc = "track" /\ assignH[n].status # "running"
                        /\ Head(assignQ[n]) \notin blind => Reported(Head(assignQ[n]))
StopsReported ==
    \A n \in Nodes : unassignH[n] = "untrack" /\ Head(unassignQ[n]).assignment \notin blind
                        => Reported(Head(unassignQ[n]).assignment)
ReportsMade == PollsReported /\ StartsReported /\ StopsReported

\* A container whose start was reported is watched until its end is reported.
Stopping(a) == \E n \in Nodes : unassignH[n] \in {"remove", "publish"} /\ Head(unassignQ[n]).assignment = a
Watched(r, a) ==
    \E n \in Nodes : \/ assignH[n].pc = "track" /\ assignH[n].containerID = r /\ assignH[n].status = "running"
                     \/ tracked[n][a] = [containerID |-> r, lastStatus |-> "running"]
Followed ==
    \A r \in RuntimeIds : \A a \in Assignments \ blind :
       runtime[r].assignment = a /\ Announced(r) => Reported(a) \/ Stopping(a) \/ Watched(r, a)

Reporting == IdsAnnounced /\ IdsGiven /\ InOrder /\ ReportsMade /\ Followed
Watching  == Started /\ BlindNamed /\ Reporting

\* The faults that lose or repeat a report.
Lost == {"publishError", "statusRedelivery"}

\* What stays true of announcements and reports in a step.
AnnouncedStay == \A r \in RuntimeIds : Announced(r) => Announced(r)'
ReportsStay ==
    \A a \in Assignments \ blind, r \in RuntimeIds :
       runtime[r].assignment = a /\ Announced(r) /\ Reported(a) => Reported(a)'

-----------------------------------------------------------------------------
\* A known id stays known.
LEMMA KnownStays ==
    ASSUME AnnouncedStay, NEW r \in RuntimeIds \cup {NULL}, Known(r)
    PROVE  Known(r)'
  BY DEF AnnouncedStay, Known

\* Which handlers may turn to publishing, and which stop.
LEMMA AssignHandlerSteps ==
    ASSUME Never(Repeats), Started, [Next]_vars
    PROVE  \/ UNCHANGED assignH
           \/ \E n \in Nodes : StartContainer(n) \/ AssignPublishStatus(n) \/ AssignTrack(n)
  <1> USE DEF dbVars, apiVars, workerVars
  <1>1. ~Spend("startError") /\ ~Spend("workerRestart")
    BY NeverSpent DEF Never, Repeats, Bounded, Started
  <1>2. CASE WorkerNext
    BY <1>1, <1>2 DEF WorkerNext, HandleAssignment, StartContainerError, HandleUnassign,
                UnassignStop, UnassignRemove, UnassignPublishStatus, UnassignUntrack,
                CheckTrackedContainers, PollSnapshot, PollInspect, PollPublishStatus, PollUpdate,
                ContainerExits, WorkerRestart, RedeliverAssign, RedeliverUnassign
  <1>3. CASE ApiNext \/ ControllerNext \/ UNCHANGED vars
    BY <1>3, ControlPlaneRows DEF Started
  <1>4. CASE SchedulerNext
    BY <1>4, SchedulerRows DEF Started, HandleStatus
  <1> QED
    BY <1>2, <1>3, <1>4 DEF Next

\* The start of a container, in terms of single containers and handlers.
LEMMA StartEffect ==
    ASSUME Ownership, NEW n \in Nodes, StartContainer(n)
    PROVE  \E r \in RuntimeIds :
              /\ runtime[r].assignment = NULL
              /\ assignH[n].pc = "idle" /\ assignH'[n].pc = "publish" /\ assignH'[n].containerID = r
              /\ \A q \in RuntimeIds : q # r => runtime'[q] = runtime[q]
              /\ \A m \in Nodes : m # n => assignH'[m] = assignH[m]
  <1>1. /\ runtime \in [RuntimeIds -> RuntimeContainer] /\ assignH \in [Nodes -> AssignState]
        /\ assignH[n].pc = "idle"
    BY DEF Ownership, TypeOK, StartContainer
  <1>2. PICK r \in RuntimeIds : \E new, st :
          /\ runtime[r].state = "none"
          /\ runtime' = [runtime EXCEPT ![r] = new]
          /\ assignH' = [assignH EXCEPT ![n] = [pc |-> "publish", containerID |-> r, status |-> st]]
    <2>1. PICK r \in RuntimeIds, s \in {"running", "exited0", "exited1"} :
            /\ runtime[r].state = "none"
            /\ runtime' = [runtime EXCEPT ![r] =
                  [state |-> s, node |-> n, assignment |-> Head(assignQ[n])]]
            /\ assignH' = [assignH EXCEPT ![n] =
                  [pc |-> "publish", containerID |-> r, status |-> ContainerStatusOf(s)]]
      BY DEF StartContainer, Mint, NewRuntimeIds
    <2> QED
      BY <2>1
  <1>3. runtime[r].assignment = NULL
    BY <1>2 DEF Ownership, RuntimesPlaced, NoRuntime
  <1> QED
    BY <1>1, <1>2, <1>3

\* The end of a handler's publish and the end of a handler, likewise.
LEMMA AssignEffect ==
    ASSUME Started, NEW n \in Nodes, AssignPublishStatus(n) \/ AssignTrack(n)
    PROVE  /\ \A m \in Nodes : m # n => assignH'[m] = assignH[m]
           /\ UNCHANGED runtime
           /\ AssignPublishStatus(n) => /\ assignH[n].pc = "publish" /\ assignH'[n].pc = "track"
                                        /\ assignH'[n].containerID = assignH[n].containerID
                                        /\ assignH'[n].status = assignH[n].status
                                        /\ UNCHANGED assignQ
           /\ AssignTrack(n) => /\ assignH[n].pc = "track" /\ assignH'[n].pc = "idle"
                                /\ \A m \in Nodes : m # n => assignQ'[m] = assignQ[m]
  <1>1. /\ assignH \in [Nodes -> AssignState] /\ assignQ \in [Nodes -> Seq(Assignments)]
        /\ Ownership /\ StartedOnce
    BY DEF Started, Ownership, TypeOK
  <1>2. CASE AssignPublishStatus(n)
    <2>1. assignH' = [assignH EXCEPT ![n].pc = "track"] /\ UNCHANGED <<assignQ, runtime>>
      BY <1>1, <1>2, AssignPublishStatusStarts DEF AssignPublishStatus
    <2>2. assignH[n].pc = "publish" /\ ~AssignTrack(n)
      BY <1>2 DEF AssignPublishStatus, AssignTrack
    <2> QED
      BY <1>1, <2>1, <2>2 DEF AssignState
  <1>3. CASE AssignTrack(n)
    <2>1. /\ assignH' = [assignH EXCEPT ![n] = AssignIdle] /\ UNCHANGED runtime
          /\ assignQ' = [assignQ EXCEPT ![n] = Tail(@)]
      BY <1>3 DEF AssignTrack, AckAssign
    <2>2. assignH[n].pc = "track" /\ ~AssignPublishStatus(n)
      BY <1>3 DEF AssignPublishStatus, AssignTrack
    <2> QED
      BY <1>1, <2>1, <2>2 DEF AssignIdle
  <1> QED
    BY <1>2, <1>3

\* No step takes an announcement back: a runtime never hands out an id twice.
LEMMA AnnouncedKept ==
    ASSUME Never(Repeats), Started, [Next]_vars
    PROVE  AnnouncedStay
  <1> SUFFICES ASSUME NEW r \in RuntimeIds, Announced(r) PROVE Announced(r)'
    BY DEF AnnouncedStay
  <1>1. runtime'[r].assignment \in Assignments
    BY RuntimesKept DEF RuntimesStay, Announced
  <1>2. CASE UNCHANGED assignH
    BY <1>1, <1>2 DEF Announced
  <1>3. ASSUME NEW n \in Nodes, StartContainer(n) PROVE Announced(r)'
    <2>1. PICK q \in RuntimeIds :
            /\ runtime[q].assignment = NULL
            /\ assignH'[n].containerID = q
            /\ \A m \in Nodes : m # n => assignH'[m] = assignH[m]
      BY <1>3, StartEffect DEF Started
    <2>2. q # r
      BY <2>1, NullIsNoId DEF Announced
    <2> QED
      BY <1>1, <2>1, <2>2 DEF Announced
  <1>4. ASSUME NEW n \in Nodes, AssignPublishStatus(n) \/ AssignTrack(n) PROVE Announced(r)'
    <2>1. /\ \A m \in Nodes : m # n => assignH'[m] = assignH[m]
          /\ assignH'[n].pc # "publish"
      BY <1>4, AssignEffect
    <2> QED
      BY <1>1, <2>1 DEF Announced
  <1> QED
    BY <1>2, <1>3, <1>4, AssignHandlerSteps

\* Only the publish of the first status announces a container.
LEMMA AnnouncedBefore ==
    ASSUME Never(Repeats), Started, [Next]_vars, NEW r \in RuntimeIds, Announced(r)',
           \A n \in Nodes : AssignPublishStatus(n) => assignH[n].containerID # r
    PROVE  Announced(r) /\ runtime'[r].assignment = runtime[r].assignment
  <1>1. Ownership /\ RuntimesStay
    BY RuntimesKept DEF Started
  <1>2. CASE runtime[r].assignment \in Assignments
    <2>1. runtime'[r].assignment = runtime[r].assignment
      BY <1>1, <1>2 DEF RuntimesStay
    <2>2. ASSUME NEW m \in Nodes, assignH[m].pc = "publish", assignH[m].containerID = r
          PROVE  FALSE
      <3>1. CASE UNCHANGED assignH
        BY <2>2, <3>1 DEF Announced
      <3>2. ASSUME NEW n \in Nodes, StartContainer(n) PROVE FALSE
        <4>1. assignH[n].pc = "idle" /\ \A k \in Nodes : k # n => assignH'[k] = assignH[k]
          BY <1>1, <3>2, StartEffect
        <4> QED
          BY <2>2, <4>1 DEF Announced
      <3>3. ASSUME NEW n \in Nodes, AssignPublishStatus(n) \/ AssignTrack(n) PROVE FALSE
        <4>1. /\ \A k \in Nodes : k # n => assignH'[k] = assignH[k]
              /\ AssignTrack(n) => assignH[n].pc = "track"
          BY <3>3, AssignEffect
        <4> QED
          BY <2>2, <3>3, <4>1 DEF Announced
      <3> QED
        BY <3>1, <3>2, <3>3, AssignHandlerSteps
    <2> QED
      BY <1>2, <2>1, <2>2 DEF Announced
  <1>3. CASE runtime[r].assignment \notin Assignments
    <2>1. \E n \in Nodes : StartContainer(n)
      BY <1>3, RuntimesKept DEF Announced
    <2>2. PICK n \in Nodes : StartContainer(n)
      BY <2>1
    <2>3. PICK q \in RuntimeIds :
            /\ assignH'[n].pc = "publish" /\ assignH'[n].containerID = q
            /\ \A p \in RuntimeIds : p # q => runtime'[p] = runtime[p]
      BY <1>1, <2>2, StartEffect
    <2> QED
      BY <1>3, <2>3 DEF Announced
  <1> QED
    BY <1>2, <1>3

-----------------------------------------------------------------------------
(* Reports are not taken back *)

\* Nothing is published or handled.
LEMMA ReportedSame ==
    ASSUME NEW a, Reported(a), UNCHANGED statusQ,
           containers'[a].status = "running" => containers[a].status = "running"
    PROVE  Reported(a)'
  BY DEF Reported, EndQueued, NoRunning

\* An end that was added is reported.
LEMMA EndPublished ==
    ASSUME NEW a, NEW r, NEW status \in Terminal, Published(a, r, status)
    PROVE  Reported(a)'
  <1>1. Len(statusQ) + 1 \in 1..Len(statusQ')
    BY DEF Published
  <1> QED
    BY <1>1 DEF Published, Reported, EndQueued, Terminal

\* Adding a status that does not contradict the report.
LEMMA ReportedPublished ==
    ASSUME NEW a, NEW b, NEW r, NEW status, Reported(a), Published(b, r, status),
           b = a => status # "running", containers'[a] = containers[a]
    PROVE  Reported(a)'
  <1>1. CASE EndQueued(a)
    <2>1. PICK i \in 1..Len(statusQ) : statusQ[i].assignment = a /\ statusQ[i].status \in Terminal
      BY <1>1 DEF EndQueued
    <2>2. i \in 1..Len(statusQ') /\ statusQ'[i] = statusQ[i]
      BY DEF Published
    <2> QED
      BY <2>1, <2>2 DEF Reported, EndQueued, Terminal
  <1>2. CASE containers[a].status # "running" /\ NoRunning(a)
    <2>1. ASSUME NEW i \in 1..Len(statusQ'), statusQ'[i].assignment = a
          PROVE  statusQ'[i].status # "running"
      <3>1. i \in 1..Len(statusQ) \/ i = Len(statusQ) + 1
        BY DEF Published
      <3> QED
        BY <1>2, <2>1, <3>1 DEF Published, NoRunning
    <2> QED
      BY <1>2, <2>1 DEF Reported, NoRunning
  <1> QED
    BY <1>1, <1>2 DEF Reported

\* Recording the report, or a status before it, in the row.
LEMMA ReportedHandled ==
    ASSUME Ownership, InOrder, HandleStatus, NEW a \in Assignments \ blind, Reported(a)
    PROVE  Reported(a)'
  <1>1. PICK b \in Assignments :
              /\ 1 \in 1..Len(statusQ) /\ b = statusQ[1].assignment
              /\ Len(statusQ) \in Nat /\ Len(statusQ') = Len(statusQ) - 1
              /\ \A i \in 1..Len(statusQ') : i + 1 \in 1..Len(statusQ) /\ statusQ'[i] = statusQ[i + 1]
              /\ a # b => containers'[a] = containers[a]
              /\ containers[b].status \notin LiveStatus => containers'[b] = containers[b]
              /\ containers[b].status \in LiveStatus => containers'[b].status = statusQ[1].status
    BY HandleStatusEffect
  <1>2. ASSUME NEW i \in 1..Len(statusQ), i # 1,
               statusQ[i].assignment = a /\ statusQ[i].status \in Terminal
        PROVE  Reported(a)'
    <2>1. i - 1 \in 1..Len(statusQ') /\ statusQ'[i - 1] = statusQ[i]
      BY <1>1, <1>2
    <2> QED
      BY <1>2, <2>1 DEF Reported, EndQueued, Terminal
  <1>3. CASE statusQ[1].assignment = a /\ statusQ[1].status \in Terminal
    <2>1. containers'[a].status # "running"
      BY <1>1, <1>3 DEF LiveStatus, Terminal
    <2>2. NoRunning(a)'
      BY <1>1, <1>3 DEF InOrder, NoRunning
    <2> QED
      BY <2>1, <2>2 DEF Reported
  <1>4. CASE containers[a].status # "running" /\ NoRunning(a)
    <2>1. containers'[a].status # "running"
      BY <1>1, <1>4 DEF NoRunning
    <2>2. NoRunning(a)'
      BY <1>1, <1>4 DEF NoRunning
    <2> QED
      BY <2>1, <2>2 DEF Reported
  <1> QED
    BY <1>2, <1>3, <1>4 DEF Reported, EndQueued

\* What a worker publishes when no publish fails.
LEMMA WorkerPublishes ==
    ASSUME Never(Repeats \cup Lost), Watching, WorkerNext
    PROVE  \/ UNCHANGED statusQ
           \/ \E n \in Nodes, b \in Assignments, r \in RuntimeIds, status \in LiveStatus :
                 /\ AssignPublishStatus(n) /\ Published(b, r, status) /\ CreatedFor(r, b, n)
                 /\ b = Head(assignQ[n]) /\ r = assignH[n].containerID /\ status = assignH[n].status
                 /\ Truthful(status, r)
           \/ \E n \in Nodes, b \in Assignments, r \in RuntimeIds, status \in Terminal :
                 /\ PollPublishStatus(n) /\ Published(b, r, status) /\ CreatedFor(r, b, n)
                 /\ b = pollH[n].assignment /\ r = pollH[n].todo[b].containerID
           \/ \E n \in Nodes, b \in Assignments, r \in RuntimeIds \cup {NULL} :
                 /\ UnassignPublishStatus(n) /\ Published(b, r, "stopped")
                 /\ b = Head(unassignQ[n]).assignment /\ r = Head(unassignQ[n]).containerID
  <1> USE DEF dbVars, apiVars, workerVars
  <1>1. Started /\ Ownership /\ Unspent
    BY DEF Watching, Started
  <1>2. ~Spend("publishError")
    BY <1>1, NeverSpent DEF Never, Lost, Bounded
  <1>3. \/ UNCHANGED statusQ
        \/ \E n \in Nodes : AssignPublishStatus(n) \/ PollPublishStatus(n) \/ UnassignPublishStatus(n)
    BY DEF WorkerNext, HandleAssignment, StartContainer, StartContainerError, AssignTrack,
           HandleUnassign, UnassignStop, UnassignRemove, UnassignUntrack, CheckTrackedContainers,
           PollSnapshot, PollInspect, PollUpdate, ContainerExits, WorkerRestart, RedeliverAssign,
           RedeliverUnassign
  <1> QED
    BY <1>1, <1>2, <1>3, AssignPublishes, PollPublishes, UnassignPublishes

\* A container that is about to be announced is the only one of its assignment.
LEMMA AnnouncesOnce ==
    ASSUME Started, NEW n \in Nodes, AssignPublishStatus(n), NEW b \in Assignments,
           NEW q \in RuntimeIds, CreatedFor(q, b, n), q = assignH[n].containerID,
           NEW r \in RuntimeIds, Announced(r)
    PROVE  runtime[r].assignment # b
  <1>1. assignH[n].pc = "publish"
    BY DEF AssignPublishStatus
  <1>2. q # r
    BY <1>1 DEF Announced
  <1> QED
    BY <1>2 DEF Started, StartedOnce, Deliveries, OneRuntime, CreatedFor

\* No step takes the report of an announced container back.
LEMMA ReportsKept ==
    ASSUME Never(Repeats \cup Lost), Watching, [Next]_vars
    PROVE  ReportsStay
  <1> USE DEF dbVars, apiVars, workerVars
  <1> SUFFICES ASSUME NEW a \in Assignments \ blind, NEW r \in RuntimeIds,
                      runtime[r].assignment = a, Announced(r), Reported(a)
               PROVE  Reported(a)'
    BY DEF ReportsStay
  <1>1. Started /\ Ownership /\ Unspent /\ InOrder
    BY DEF Watching, Started, Reporting
  <1>2. CASE ApiNext \/ ControllerNext \/ UNCHANGED vars
    <2>1. /\ UNCHANGED statusQ
          /\ containers'[a] = containers[a] \/ containers'[a] = DeletedContainer
      BY <1>1, <1>2, ControlPlaneRows
    <2> QED
      BY <2>1, ReportedSame DEF DeletedContainer
  <1>3. CASE HandleStatus
    BY <1>1, <1>3, ReportedHandled
  <1>4. CASE SchedulerNext /\ ~HandleStatus
    <2>1. ~RedeliverStatus
      BY <1>1, NeverSpent DEF RedeliverStatus, Never, Lost, Bounded
    <2>2. /\ UNCHANGED statusQ
          /\ containers'[a] = containers[a] \/ containers'[a].status = "pending"
      BY <1>1, <1>4, <2>1, SchedulerRows
    <2> QED
      BY <2>2, ReportedSame
  <1>5. CASE WorkerNext
    <2>1. UNCHANGED containers
      BY <1>5, WorkerRows
    <2>2. CASE UNCHANGED statusQ
      BY <2>1, <2>2, ReportedSame
    <2>3. ASSUME NEW n \in Nodes, NEW b \in Assignments, NEW q \in RuntimeIds, NEW status \in LiveStatus,
                 AssignPublishStatus(n), Published(b, q, status), CreatedFor(q, b, n),
                 q = assignH[n].containerID
          PROVE  Reported(a)'
      BY <1>1, <2>1, <2>3, AnnouncesOnce, ReportedPublished
    <2>4. ASSUME NEW b \in Assignments, NEW q, NEW status \in Terminal, Published(b, q, status)
          PROVE  Reported(a)'
      BY <2>1, <2>4, ReportedPublished DEF Terminal
    <2> QED
      BY <1>5, <2>2, <2>3, <2>4, WorkerPublishes DEF Terminal
  <1> QED
    BY <1>2, <1>3, <1>4, <1>5 DEF Next

-----------------------------------------------------------------------------
(* Ids travel only after they were announced *)

\* NextTarget starts on the next deployment without victims.
LEMMA NextTargetVictims == \A T : NextTarget(T).victims = {}
  BY DEF NextTarget, CtlIdle

\* Victims are listed from the rows.
LEMMA ControllerVictims ==
    ASSUME Ownership, ControllerNext, NEW v \in ctl'.victims
    PROVE  v \in ctl.victims \/ \E a \in Assignments : v.containerID = containers[a].runtimeID
  <1>1. ctl \in CtlState
    BY DEF Ownership, TypeOK
  <1>2. CASE Tick
    BY <1>2, NextTargetVictims DEF Tick, TickList
  <1>3. CASE ReconcileOne
    BY <1>3, NextTargetVictims DEF ReconcileOne
  <1>4. CASE ScaleUp
    <2>1. CASE ctl' = [ctl EXCEPT !.count = @ - 1]
      BY <1>1, <2>1 DEF CtlState
    <2> QED
      BY <1>4, <2>1, NextTargetVictims DEF ScaleUp
  <1>5. CASE ScaleDownList
    <2>1. PICK V \in SUBSET ActiveByDeployment(ctl.deployment) :
            \/ ctl' = NextTarget(ctl.targets)
            \/ ctl'.victims = {VictimOf(a) : a \in V}
      BY <1>5 DEF ScaleDownList
    <2>2. V \subseteq Assignments
      BY DEF ActiveByDeployment
    <2> QED
      BY <2>1, <2>2, NextTargetVictims DEF VictimOf
  <1>6. CASE ScaleDownPublish
    <2>1. PICK w \in ctl.victims : \/ ctl' = NextTarget(ctl.targets)
                                   \/ ctl' = [ctl EXCEPT !.victims = @ \ {w}]
      BY <1>6 DEF ScaleDownPublish
    <2>2. CASE ctl' = [ctl EXCEPT !.victims = @ \ {w}]
      <3>1. ctl'.victims = ctl.victims \ {w}
        BY <1>1, <2>2 DEF CtlState
      <3> QED
        BY <3>1
    <2> QED
      BY <2>1, <2>2, NextTargetVictims
  <1>7. CASE ControllerRestart
    BY <1>7 DEF ControllerRestart, CtlIdle
  <1> QED
    BY <1>2, <1>3, <1>4, <1>5, <1>6, <1>7 DEF ControllerNext, Reconcile

\* So are those of a delete request.
LEMMA DeleteVictims ==
    ASSUME Ownership, ApiNext, NEW app \in Apps, NEW v \in deletes'[app].victims
    PROVE  v \in deletes[app].victims \/ \E a \in Assignments : v.containerID = containers[a].runtimeID
  <1> USE DEF apiVars
  <1>1. deletes \in [Apps -> DeleteState]
    BY DEF Ownership, TypeOK
  <1>2. ASSUME NEW p \in Apps, DeleteList(p)
        PROVE  v \in deletes[app].victims \/ \E a \in Assignments : v.containerID = containers[a].runtimeID
    <2>1. PICK V \in SUBSET Assignments :
            deletes' = [deletes EXCEPT ![p] = [pc |-> "publish", victims |-> {VictimOf(a) : a \in V}]]
      BY <1>2 DEF DeleteList
    <2> QED
      BY <1>1, <2>1 DEF VictimOf
  <1>3. ASSUME NEW p \in Apps, DeletePublish(p) PROVE v \in deletes[app].victims
    <2>1. PICK w \in deletes[p].victims :
            \/ deletes' = [deletes EXCEPT ![p].victims = @ \ {w}]
            \/ deletes' = [deletes EXCEPT ![p] = DeleteIdle]
      BY <1>3 DEF DeletePublish
    <2>2. CASE deletes' = [deletes EXCEPT ![p] = DeleteIdle]
      BY <1>1, <2>2 DEF DeleteIdle
    <2>3. CASE deletes' = [deletes EXCEPT ![p].victims = @ \ {w}]
      <3>1. \A q \in Apps : deletes[q] \in DeleteState
        BY <1>1
      <3>2. \A q \in Apps : deletes'[q].victims \subseteq deletes[q].victims
        BY <1>1, <2>3, <3>1 DEF DeleteState
      <3> QED
        BY <3>2
    <2> QED
      BY <2>1, <2>2, <2>3
  <1>4. ASSUME NEW p \in Apps, DeleteTx(p) PROVE v \in deletes[app].victims
    BY <1>1, <1>4 DEF DeleteTx, DeleteIdle
  <1>5. CASE ApiRestart
    BY <1>5 DEF ApiRestart, DeleteIdle
  <1>6. CASE UNCHANGED deletes
    BY <1>6
  <1> QED
    BY <1>2, <1>3, <1>4, <1>5, <1>6 DEF ApiNext, CreateApplication, DeployTx, PublishPlacement,
       RecordDeployFailure, ScaleApplication

\* The controller leaves the requests alone and the apiserver the controller.
LEMMA VictimsListed ==
    ASSUME Ownership, [Next]_vars, NEW v \in Victims'
    PROVE  v \in Victims \/ \E a \in Assignments : v.containerID = containers[a].runtimeID
  <1> USE DEF dbVars, apiVars, workerVars
  <1>1. v \in ctl'.victims \/ \E app \in Apps : v \in deletes'[app].victims
    BY DEF Victims
  <1>2. \A w : w \in ctl.victims \/ (\E app \in Apps : w \in deletes[app].victims) => w \in Victims
    BY DEF Victims
  <1>3. CASE ApiNext
    <2>1. UNCHANGED ctl
      BY <1>3 DEF ApiNext, CreateApplication, DeployTx, PublishPlacement, RecordDeployFailure,
                  ScaleApplication, DeleteList, DeletePublish, DeleteTx, ApiRestart
    <2> QED
      BY <1>1, <1>2, <1>3, <2>1, DeleteVictims
  <1>4. CASE ControllerNext
    <2>1. UNCHANGED deletes
      BY <1>4 DEF ControllerNext, Tick, TickList, Reconcile, ReconcileOne, ScaleUp, ScaleDownList,
                  ScaleDownPublish, ControllerRestart
    <2> QED
      BY <1>1, <1>2, <1>4, <2>1, ControllerVictims
  <1>5. CASE UNCHANGED <<ctl, deletes>>
    BY <1>1, <1>2, <1>5
  <1>6. CASE SchedulerNext
    BY <1>5, <1>6, SchedulerRows DEF HandleStatus
  <1>7. CASE WorkerNext
    BY <1>5, <1>7, WorkerRows
  <1> QED
    BY <1>3, <1>4, <1>5, <1>6, <1>7 DEF Next, vars

\* Ids that were not announced before come only from the worker announcing them.
LEMMA ControlPlaneIds ==
    ASSUME Never(Repeats \cup Lost), Watching, AnnouncedStay,
           ApiNext \/ ControllerNext \/ SchedulerNext \/ UNCHANGED vars
    PROVE  IdsAnnounced'
  <1> USE DEF dbVars, apiVars, workerVars
  <1>1. /\ Started /\ Ownership /\ Unspent
        /\ RowIds /\ StatusIds /\ UnassignIds /\ EntryIds /\ VictimIds
    BY DEF Watching, Started, Reporting, IdsAnnounced
  <1>2. \A a \in Assignments : containers[a].runtimeID \in RuntimeIds \cup {NULL}
    BY <1>1 DEF Ownership, TypeOK, ContainerRow
  <1>3. \A a \in Assignments : Known(containers[a].runtimeID) /\ \A x : x = containers[a].runtimeID => Known(x)'
    BY <1>1, <1>2, KnownStays DEF RowIds
  <1>4. \A i \in 1..Len(statusQ) : \A x : x = statusQ[i].containerID => Known(x)'
    BY <1>1, StatusTypes, KnownStays DEF StatusIds
  <1>5. Victims \subseteq Victim
    <2>1. ctl.victims \subseteq Victim
      BY <1>1 DEF Ownership, TypeOK, CtlState
    <2>2. \A app \in Apps : deletes[app].victims \subseteq Victim
      BY <1>1 DEF Ownership, TypeOK, DeleteState
    <2> QED
      BY <2>1, <2>2 DEF Victims
  <1>6. \A v \in Victims : v.containerID \in RuntimeIds \cup {NULL}
    BY <1>5 DEF Victim
  <1>7. \A v \in Victims : \A x : x = v.containerID => Known(x)'
    BY <1>1, <1>6, KnownStays DEF VictimIds
  <1>8. VictimIds'
    <2>1. [Next]_vars
      BY DEF Next
    <2>2. \A v \in Victims' : v \in Victims \/ \E a \in Assignments : v.containerID = containers[a].runtimeID
      BY <1>1, <2>1, VictimsListed
    <2>3. ASSUME NEW v \in Victims', NEW x, x = v.containerID PROVE Known(x)'
      BY <1>3, <1>7, <2>2, <2>3
    <2> QED
      BY <2>3 DEF VictimIds, Known, Announced
  <1>9. UnassignIds'
    <2>1. UnassignsGrow
      BY <1>1, ControlPlaneGrows
    <2>2. \A n \in Nodes : \A i \in 1..Len(unassignQ[n]) : unassignQ[n][i].containerID \in RuntimeIds \cup {NULL}
      BY <1>1, UnassignTypes
    <2>3. \A n \in Nodes : \A i \in 1..Len(unassignQ[n]) : \A x : x = unassignQ[n][i].containerID => Known(x)'
      BY <1>1, <2>2, KnownStays DEF UnassignIds
    <2>4. ASSUME NEW n \in Nodes, NEW i \in 1..Len(unassignQ'[n]), NEW x, x = unassignQ'[n][i].containerID
          PROVE  Known(x)'
      BY <1>7, <2>1, <2>3, <2>4 DEF UnassignsGrow
    <2> QED
      BY <2>4 DEF UnassignIds, Known, Announced
  <1>10. UNCHANGED <<runtime, assignH, tracked, pollH>>
    BY <1>1, ControlPlaneRows, SchedulerRows DEF HandleStatus
  <1>11. EntryIds'
    BY <1>1, <1>10 DEF EntryIds, Known, Announced
  <1>12. CASE HandleStatus
    <2>1. PICK b \in Assignments :
              /\ 1 \in 1..Len(statusQ)
              /\ \A i \in 1..Len(statusQ') : i + 1 \in 1..Len(statusQ) /\ statusQ'[i] = statusQ[i + 1]
              /\ \A a \in Assignments : a # b => containers'[a] = containers[a]
              /\ containers'[b] = containers[b] \/ containers'[b].runtimeID = containers[b].runtimeID
                    \/ containers'[b].runtimeID = statusQ[1].containerID
      BY <1>1, <1>12, HandleStatusEffect
    <2>2. ASSUME NEW a \in Assignments, NEW x, x = containers'[a].runtimeID PROVE Known(x)'
      BY <1>3, <1>4, <2>1, <2>2
    <2>3. ASSUME NEW i \in 1..Len(statusQ'), NEW x, x = statusQ'[i].containerID PROVE Known(x)'
      BY <1>4, <2>1, <2>3
    <2>4. RowIds' /\ StatusIds'
      BY <2>2, <2>3 DEF RowIds, StatusIds, Known, Announced
    <2> QED
      BY <1>8, <1>9, <1>11, <2>4 DEF IdsAnnounced
  <1>13. CASE ~HandleStatus
    <2>1. ~RedeliverStatus
      BY <1>1, NeverSpent DEF RedeliverStatus, Never, Lost, Bounded
    <2>2. /\ UNCHANGED statusQ
          /\ \A a \in Assignments : containers'[a] = containers[a] \/ containers'[a].runtimeID = NULL
      BY <1>1, <1>13, <2>1, ControlPlaneRows, SchedulerRows DEF DeletedContainer
    <2>3. ASSUME NEW a \in Assignments, NEW x, x = containers'[a].runtimeID PROVE Known(x)'
      <3>1. CASE containers'[a] = containers[a]
        BY <1>3, <2>3, <3>1
      <3>2. CASE containers'[a].runtimeID = NULL
        BY <2>3, <3>2 DEF Known
      <3> QED
        BY <2>2, <3>1, <3>2
    <2>4. RowIds' /\ StatusIds'
      BY <1>4, <2>2, <2>3 DEF RowIds, StatusIds, Known, Announced
    <2> QED
      BY <1>8, <1>9, <1>11, <2>4 DEF IdsAnnounced
  <1> QED
    BY <1>12, <1>13

\* The container a handler has published is announced.
LEMMA TrackAnnounced ==
    ASSUME Ownership, NEW n \in Nodes, assignH[n].pc = "track"
    PROVE  /\ assignH[n].containerID \in RuntimeIds /\ Announced(assignH[n].containerID)
           /\ assignQ[n] # <<>> /\ Head(assignQ[n]) \in Assignments
           /\ CreatedFor(assignH[n].containerID, Head(assignQ[n]), n)
  <1>1. /\ assignH[n].containerID \in RuntimeIds \cup {NULL} /\ assignH[n].containerID # NULL
        /\ assignQ[n] # <<>> /\ assignQ \in [Nodes -> Seq(Assignments)]
        /\ CreatedFor(assignH[n].containerID, Head(assignQ[n]), n)
    BY HeldIds DEF Ownership, TypeOK, AssignHandlersHold, Owned
  <1>2. Head(assignQ[n]) \in Assignments
    BY <1>1
  <1>3. ASSUME NEW m \in Nodes, assignH[m].pc = "publish", assignH[m].containerID = assignH[n].containerID
        PROVE  FALSE
    <2>1. CreatedFor(assignH[m].containerID, Head(assignQ[m]), m)
      BY <1>1, <1>3 DEF Ownership, AssignHandlersHold, Owned
    <2>2. m = n
      BY <1>1, <1>3, <2>1 DEF CreatedFor
    <2> QED
      BY <1>3, <2>2
  <1> QED
    BY <1>1, <1>2, <1>3 DEF Announced, CreatedFor

\* Where the entries of the tracking map and of the snapshot come from.
LEMMA EntriesFrom ==
    ASSUME Never(Repeats), Started, WorkerNext
    PROVE  \A n \in Nodes, a \in Assignments :
              /\ \/ tracked'[n][a].containerID \in {NULL, tracked[n][a].containerID}
                 \/ assignH[n].pc = "track" /\ tracked'[n][a].containerID = assignH[n].containerID
              /\ pollH'[n].todo[a].containerID \in
                    {NULL, pollH[n].todo[a].containerID, tracked[n][a].containerID}
  <1> USE DEF dbVars, apiVars, workerVars
  <1>1. /\ Ownership /\ tracked \in [Nodes -> [Assignments -> TrackedContainer]]
        /\ pollH \in [Nodes -> PollState] /\ NotTracked.containerID = NULL
    BY DEF Started, Ownership, TypeOK, NotTracked
  <1>2. ~Spend("startError") /\ ~Spend("workerRestart")
    BY NeverSpent DEF Never, Repeats, Bounded, Started
  <1>3. CASE UNCHANGED <<tracked, pollH>>
    BY <1>3
  <1>4. ASSUME NEW n \in Nodes, AssignTrack(n), NEW k \in Nodes, NEW b \in Assignments
        PROVE  \/ tracked'[k][b].containerID = tracked[k][b].containerID
               \/ assignH[k].pc = "track" /\ tracked'[k][b].containerID = assignH[k].containerID
    <2>1. PICK a \in Assignments : a = Head(assignQ[n])
      BY <1>1, <1>4, TrackAnnounced DEF AssignTrack
    <2>2. PICK entry : entry = TrackedEntry(n)
      OBVIOUS
    <2>3. tracked' = [tracked EXCEPT ![n][a] = entry] /\ assignH[n].pc = "track"
      BY <1>4, <2>1, <2>2 DEF AssignTrack
    <2>4. entry.containerID = assignH[n].containerID
      BY <2>2 DEF TrackedEntry
    <2> QED
      BY <1>1, <2>1, <2>3, <2>4
  <1>5. ASSUME NEW n \in Nodes, UnassignUntrack(n), NEW k \in Nodes, NEW b \in Assignments
        PROVE  tracked'[k][b].containerID \in {NULL, tracked[k][b].containerID}
    <2>1. PICK a : tracked' = [tracked EXCEPT ![n][a] = NotTracked]
      BY <1>5 DEF UnassignUntrack
    <2> QED
      BY <1>1, <2>1
  <1>6. ASSUME NEW n \in Nodes, PollSnapshot(n), NEW k \in Nodes, NEW b \in Assignments
        PROVE  pollH'[k].todo[b].containerID \in {pollH[k].todo[b].containerID, tracked[k][b].containerID}
    <2>1. pollH' = [pollH EXCEPT ![n] = Inspecting(tracked[n])]
      BY <1>6 DEF PollSnapshot
    <2>2. pollH'[n].todo = tracked[n] /\ (k # n => pollH'[k] = pollH[k])
      BY <1>1, <2>1 DEF Inspecting
    <2> QED
      BY <2>2
  <1>7. ASSUME NEW n \in Nodes, NEW a \in Assignments, PollAdvance(n, a), NEW k \in Nodes,
               NEW b \in Assignments
        PROVE  pollH'[k].todo[b].containerID \in {NULL, pollH[k].todo[b].containerID}
    BY <1>1, <1>7, AdvanceEffect
  <1>8. ASSUME NEW n \in Nodes, PollInspect(n), NEW k \in Nodes, NEW b \in Assignments
        PROVE  pollH'[k].todo[b].containerID \in {NULL, pollH[k].todo[b].containerID}
    <2>1. PICK a \in Assignments, status \in LiveStatus :
            \/ PollAdvance(n, a)
            \/ pollH' = [pollH EXCEPT ![n] =
                   [pc |-> "publish", todo |-> @.todo, assignment |-> a, status |-> status]]
      BY <1>8 DEF PollInspect, ContainerStatusOf, LiveStatus
    <2>2. CASE pollH' = [pollH EXCEPT ![n] =
                   [pc |-> "publish", todo |-> @.todo, assignment |-> a, status |-> status]]
      <3>1. pollH'[k].todo = pollH[k].todo
        BY <1>1, <2>2
      <3> QED
        BY <3>1
    <2> QED
      BY <1>7, <2>1, <2>2
  <1>9. ASSUME NEW n \in Nodes, PollPublishStatus(n), NEW k \in Nodes
        PROVE  pollH'[k].todo = pollH[k].todo
    <2>1. pollH' = [pollH EXCEPT ![n].pc = "update"]
      BY <1>9 DEF PollPublishStatus
    <2> QED
      BY <1>1, <2>1 DEF PollState
  <1>10. ASSUME NEW n \in Nodes, PollUpdate(n), NEW k \in Nodes, NEW b \in Assignments
         PROVE  /\ tracked'[k][b].containerID = tracked[k][b].containerID
                /\ pollH'[k].todo[b].containerID \in {NULL, pollH[k].todo[b].containerID}
    <2>1. PICK a \in Assignments : a = pollH[n].assignment
      BY <1>1, <1>10 DEF PollUpdate, Ownership, PollsHold
    <2>2. PollAdvance(n, a)
      BY <1>10, <2>1 DEF PollUpdate
    <2>3. tracked' = tracked \/ tracked' = [tracked EXCEPT ![n][a].lastStatus = pollH[n].status]
      BY <1>10, <2>1 DEF PollUpdate
    <2>4. CASE tracked' = [tracked EXCEPT ![n][a].lastStatus = pollH[n].status]
      <3>1. tracked[n][a] \in TrackedContainer
        BY <1>1
      <3>2. PICK entry : entry = [tracked[n][a] EXCEPT !.lastStatus = pollH[n].status]
        OBVIOUS
      <3>3. entry.containerID = tracked[n][a].containerID
        BY <3>1, <3>2 DEF TrackedContainer
      <3>4. tracked' = [tracked EXCEPT ![n] = [tracked[n] EXCEPT ![a] = entry]]
        BY <1>1, <2>4, <3>2
      <3>5. tracked'[k][b] = IF k = n /\ b = a THEN entry ELSE tracked[k][b]
        BY <1>1, <3>4
      <3> QED
        BY <1>7, <2>2, <3>3, <3>5
    <2> QED
      BY <1>7, <2>2, <2>3, <2>4
  <1>11. ASSUME NEW n \in Nodes, AssignTrack(n) \/ UnassignUntrack(n) PROVE UNCHANGED pollH
    BY <1>11 DEF AssignTrack, UnassignUntrack
  <1>12. ASSUME NEW n \in Nodes, PollSnapshot(n) \/ PollInspect(n) \/ PollPublishStatus(n)
         PROVE  UNCHANGED tracked
    BY <1>12 DEF PollSnapshot, PollInspect, PollPublishStatus
  <1>13. \/ UNCHANGED <<tracked, pollH>>
         \/ \E n \in Nodes : \/ AssignTrack(n) \/ UnassignUntrack(n) \/ PollSnapshot(n)
                             \/ PollInspect(n) \/ PollPublishStatus(n) \/ PollUpdate(n)
    BY <1>2 DEF WorkerNext, HandleAssignment, StartContainer, StartContainerError,
                AssignPublishStatus, HandleUnassign, UnassignStop, UnassignRemove,
                UnassignPublishStatus, CheckTrackedContainers, ContainerExits, WorkerRestart,
                RedeliverAssign, RedeliverUnassign
  <1> QED
    BY <1>3, <1>4, <1>5, <1>6, <1>8, <1>9, <1>10, <1>11, <1>12, <1>13

\* A worker leaves the unassign messages, but may ack one or get one again.
LEMMA WorkerUnassigns ==
    ASSUME Ownership, WorkerNext
    PROVE  \A n \in Nodes : \A i \in 1..Len(unassignQ'[n]) :
              \E j \in 1..Len(unassignQ[n]) : unassignQ'[n][i] = unassignQ[n][j]
  <1> USE DEF dbVars, apiVars, workerVars
  <1>1. ASSUME NEW n \in Nodes, RedeliverUnassign(n), NEW k \in Nodes, NEW i \in 1..Len(unassignQ'[k])
        PROVE  \E j \in 1..Len(unassignQ[k]) : unassignQ'[k][i] = unassignQ[k][j]
    <2>1. /\ unassignQ \in [Nodes -> Seq(UnassignMsg)] /\ unassignQ[n] # <<>>
          /\ unassignQ' = [unassignQ EXCEPT ![n] = Append(@, Head(@))]
      BY <1>1 DEF Ownership, TypeOK, RedeliverUnassign, UnassignHandlersHold, Redelivered
    <2>2. PICK m \in UnassignMsg :
            m = Head(unassignQ[n]) /\ m = unassignQ[n][1] /\ 1 \in 1..Len(unassignQ[n])
      BY <2>1, TailFacts
    <2>3. unassignQ' = [unassignQ EXCEPT ![n] = Append(unassignQ[n], m)]
      BY <2>1, <2>2
    <2> QED
      BY <2>1, <2>2, <2>3
  <1>2. \/ UNCHANGED unassignQ
        \/ \E n \in Nodes : UnassignUntrack(n) \/ RedeliverUnassign(n)
    BY DEF WorkerNext, HandleAssignment, StartContainer, StartContainerError,
           AssignPublishStatus, AssignTrack, HandleUnassign, UnassignStop, UnassignRemove,
           UnassignPublishStatus, CheckTrackedContainers, PollSnapshot,
           PollInspect, PollPublishStatus, PollUpdate, ContainerExits, WorkerRestart,
           RedeliverAssign
  <1> QED
    BY <1>1, <1>2, UntrackShrinks

\* A worker hands out an id no sooner than with its first status.
LEMMA WorkerIds ==
    ASSUME Never(Repeats \cup Lost), Watching, AnnouncedStay, WorkerNext, Ownership'
    PROVE  IdsAnnounced'
  <1>1. /\ Started /\ Ownership /\ BlindNamed
        /\ RowIds /\ StatusIds /\ UnassignIds /\ EntryIds /\ VictimIds
    BY DEF Watching, Started, Reporting, IdsAnnounced
  <1>2. UNCHANGED <<containers, ctl, deletes>>
    BY WorkerRows
  <1>3. RowIds'
    <2>1. \A a \in Assignments : containers[a].runtimeID \in RuntimeIds \cup {NULL}
      BY <1>1 DEF Ownership, TypeOK, ContainerRow
    <2> QED
      BY <1>1, <1>2, <2>1 DEF RowIds, AnnouncedStay, Known
  <1>4. VictimIds'
    <2>1. ctl.victims \subseteq Victim
      BY <1>1 DEF Ownership, TypeOK, CtlState
    <2>2. \A app \in Apps : deletes[app].victims \subseteq Victim
      BY <1>1 DEF Ownership, TypeOK, DeleteState
    <2>3. \A v \in Victims : v \in Victim /\ v.containerID \in RuntimeIds \cup {NULL}
      BY <2>1, <2>2 DEF Victims, Victim
    <2>4. Victims' = Victims
      BY <1>2 DEF Victims
    <2> QED
      BY <1>1, <2>3, <2>4 DEF VictimIds, AnnouncedStay, Known
  <1>5. \A n \in Nodes : \A i \in 1..Len(unassignQ[n]) :
           \A x : x = unassignQ[n][i].containerID => Known(x) /\ Known(x)'
    BY <1>1, UnassignTypes, KnownStays DEF UnassignIds
  <1>6. UnassignIds'
    <2>1. ASSUME NEW n \in Nodes, NEW i \in 1..Len(unassignQ'[n]), NEW x, x = unassignQ'[n][i].containerID
          PROVE  Known(x)'
      BY <1>1, <1>5, <2>1, WorkerUnassigns
    <2> QED
      BY <2>1 DEF UnassignIds, Known, Announced
  <1>7. \A n \in Nodes, a \in Assignments :
           /\ tracked[n][a].containerID \in RuntimeIds \cup {NULL}
           /\ pollH[n].todo[a].containerID \in RuntimeIds \cup {NULL}
    BY <1>1, HeldIds DEF NotTracked
  <1>8. \A n \in Nodes, a \in Assignments :
           \A x : x \in {NULL, tracked[n][a].containerID, pollH[n].todo[a].containerID} => Known(x)'
    BY <1>1, <1>7, KnownStays DEF EntryIds, Known
  <1>9. EntryIds'
    <2>1. ASSUME NEW n \in Nodes, NEW a \in Assignments, NEW x,
                 x = tracked'[n][a].containerID \/ x = pollH'[n].todo[a].containerID
          PROVE  Known(x)'
      <3>1. Never(Repeats)
        BY DEF Never
      <3>2. \/ x \in {NULL, tracked[n][a].containerID, pollH[n].todo[a].containerID}
            \/ assignH[n].pc = "track" /\ x = assignH[n].containerID
        BY <1>1, <2>1, <3>1, EntriesFrom
      <3>3. CASE assignH[n].pc = "track" /\ x = assignH[n].containerID
        BY <1>1, <3>3, TrackAnnounced DEF AnnouncedStay, Known
      <3> QED
        BY <1>8, <3>2, <3>3
    <2> QED
      BY <2>1 DEF EntryIds, Known, Announced
  <1>10. StatusIds'
    <2>1. \A i \in 1..Len(statusQ) : \A x : x = statusQ[i].containerID => Known(x)'
      BY <1>1, StatusTypes, KnownStays DEF StatusIds
    <2>2. CASE UNCHANGED statusQ
      BY <2>1, <2>2 DEF StatusIds, Known, Announced
    <2>3. ASSUME NEW b, NEW r, NEW status, Published(b, r, status), Known(r)'
          PROVE  StatusIds'
      <3>1. ASSUME NEW i \in 1..Len(statusQ'), NEW x, x = statusQ'[i].containerID PROVE Known(x)'
        <4>1. i \in 1..Len(statusQ) \/ i = Len(statusQ) + 1
          BY <2>3 DEF Published
        <4> QED
          BY <2>1, <2>3, <3>1, <4>1 DEF Published
      <3> QED
        BY <3>1 DEF StatusIds, Known, Announced
    <2>4. ASSUME NEW n \in Nodes, AssignPublishStatus(n), NEW r \in RuntimeIds, r = assignH[n].containerID
          PROVE  Known(r)'
      <3>1. assignH'[n].pc = "track" /\ assignH'[n].containerID = r
        BY <1>1, <2>4, AssignEffect
      <3>2. runtime'[r].assignment \in Assignments /\ runtime'[r].node = n
        <4>1. /\ assignQ'[n] # <<>> /\ runtime'[r].assignment = Head(assignQ'[n]) /\ runtime'[r].node = n
          BY <3>1, NullIsNoId DEF Ownership, AssignHandlersHold, Owned, CreatedFor
        <4>2. assignQ' \in [Nodes -> Seq(Assignments)]
          BY DEF Ownership, TypeOK
        <4>3. Head(assignQ'[n]) \in Assignments
          BY <4>1, <4>2
        <4> QED
          BY <4>1, <4>3
      <3>3. ASSUME NEW m \in Nodes, assignH'[m].pc = "publish", assignH'[m].containerID = r
            PROVE  FALSE
        <4>1. runtime'[r].node = m
          BY <3>3, NullIsNoId DEF Ownership, AssignHandlersHold, Owned, CreatedFor
        <4> QED
          BY <3>1, <3>2, <3>3, <4>1
      <3> QED
        BY <3>2, <3>3 DEF Known, Announced
    <2>5. ASSUME NEW n \in Nodes, PollPublishStatus(n), NEW b \in Assignments, NEW r,
                 r = pollH[n].todo[b].containerID
          PROVE  Known(r)'
      BY <1>8, <2>5
    <2>6. ASSUME NEW n \in Nodes, UnassignPublishStatus(n), NEW r, r = Head(unassignQ[n]).containerID
          PROVE  Known(r)'
      <3>1. unassignQ \in [Nodes -> Seq(UnassignMsg)] /\ unassignQ[n] # <<>>
        BY <1>1, <2>6 DEF Ownership, TypeOK, UnassignPublishStatus, UnassignHandlersHold
      <3>2. Head(unassignQ[n]) = unassignQ[n][1] /\ 1 \in 1..Len(unassignQ[n])
        BY <3>1, TailFacts
      <3> QED
        BY <1>5, <2>6, <3>2
    <2> QED
      BY <2>2, <2>3, <2>4, <2>5, <2>6, WorkerPublishes
  <1> QED
    BY <1>3, <1>4, <1>6, <1>9, <1>10 DEF IdsAnnounced

-----------------------------------------------------------------------------
(* Ids are given and ends come last *)

\* A recorded end is one that came with an id.
LEMMA ControlPlaneGiven ==
    ASSUME Never(Repeats \cup Lost), Watching,
           ApiNext \/ ControllerNext \/ SchedulerNext \/ UNCHANGED vars
    PROVE  IdsGiven' /\ InOrder'
  <1>1. Started /\ Ownership /\ Unspent /\ IdsGiven /\ InOrder
    BY DEF Watching, Started, Reporting
  <1>2. blind \subseteq blind'
    BY <1>1, ControlPlaneGrows DEF UnassignsGrow
  <1>3. CASE HandleStatus
    <2>1. PICK b \in Assignments :
              /\ 1 \in 1..Len(statusQ) /\ b = statusQ[1].assignment
              /\ Len(statusQ) \in Nat /\ Len(statusQ') = Len(statusQ) - 1
              /\ \A i \in 1..Len(statusQ') : i + 1 \in 1..Len(statusQ) /\ statusQ'[i] = statusQ[i + 1]
              /\ \A a \in Assignments : a # b => containers'[a] = containers[a]
              /\ containers[b].status \notin LiveStatus => containers'[b] = containers[b]
              /\ containers[b].status \in LiveStatus =>
                    /\ containers'[b].status = statusQ[1].status
                    /\ containers'[b].runtimeID = IF statusQ[1].containerID = NULL
                                                  THEN containers[b].runtimeID
                                                  ELSE statusQ[1].containerID
      BY <1>1, <1>3, HandleStatusEffect
    <2>2. IdsGiven'
      <3>1. \A i \in 1..Len(statusQ') : statusQ'[i].containerID = NULL => statusQ'[i].assignment \in blind'
        BY <1>1, <1>2, <2>1 DEF IdsGiven
      <3>2. \A a \in Assignments \ blind' : containers'[a].status \in Terminal => containers'[a].runtimeID # NULL
        BY <1>1, <1>2, <2>1 DEF IdsGiven
      <3> QED
        BY <3>1, <3>2 DEF IdsGiven, Terminal
    <2>3. ASSUME NEW i \in 1..Len(statusQ'), NEW j \in 1..Len(statusQ'), i < j,
                 statusQ'[i].assignment = statusQ'[j].assignment,
                 statusQ'[i].assignment \notin blind', statusQ'[i].status \in Terminal
          PROVE  statusQ'[j].status # "running"
      <3>1. i + 1 < j + 1
        BY <2>3
      <3> QED
        BY <1>1, <1>2, <2>1, <2>3, <3>1 DEF InOrder
    <2>4. ASSUME NEW a \in Assignments \ blind', containers'[a].status \in Terminal,
                 NEW i \in 1..Len(statusQ'), statusQ'[i].assignment = a
          PROVE  statusQ'[i].status # "running"
      <3>1. i + 1 \in 1..Len(statusQ) /\ statusQ'[i] = statusQ[i + 1] /\ 1 < i + 1
        BY <2>1
      <3>2. CASE containers'[a] = containers[a]
        BY <1>1, <1>2, <2>4, <3>1, <3>2 DEF InOrder, NoRunning
      <3>3. CASE a = b /\ containers'[b].status = statusQ[1].status
        BY <1>1, <1>2, <2>1, <2>4, <3>1, <3>3 DEF InOrder
      <3> QED
        BY <2>1, <3>2, <3>3
    <2>5. InOrder'
      BY <2>3, <2>4 DEF InOrder, NoRunning, Terminal
    <2> QED
      BY <2>2, <2>5
  <1>4. CASE ~HandleStatus
    <2>1. ~RedeliverStatus
      BY <1>1, NeverSpent DEF RedeliverStatus, Never, Lost, Bounded
    <2>2. /\ UNCHANGED statusQ
          /\ \A a \in Assignments : \/ containers'[a] = containers[a]
                                    \/ containers'[a].status \in {"pending", "deleted"}
      BY <1>1, <1>4, <2>1, ControlPlaneRows, SchedulerRows DEF DeletedContainer
    <2>3. IdsGiven'
      BY <1>1, <1>2, <2>2 DEF IdsGiven, Terminal
    <2>4. InOrder'
      BY <1>1, <1>2, <2>2 DEF InOrder, NoRunning, Terminal
    <2> QED
      BY <2>3, <2>4
  <1> QED
    BY <1>3, <1>4

\* A published end comes with the id of its container, and a container that is
\* reported running was not reported before.
LEMMA WorkerGiven ==
    ASSUME Never(Repeats \cup Lost), Watching, WorkerNext
    PROVE  IdsGiven' /\ InOrder'
  <1>1. /\ Started /\ Ownership /\ BlindNamed /\ IdsGiven /\ InOrder /\ StatusIds /\ RowIds
    BY DEF Watching, Started, Reporting, IdsAnnounced
  <1>2. UNCHANGED <<containers, blind>>
    BY WorkerRows
  <1>3. ASSUME UNCHANGED statusQ PROVE IdsGiven' /\ InOrder'
    BY <1>1, <1>2, <1>3 DEF IdsGiven, InOrder, NoRunning
  <1>4. ASSUME NEW b \in Assignments, NEW r, NEW status, Published(b, r, status),
               r = NULL => b \in blind,
               status = "running" => /\ b \notin blind => ~EndQueued(b)
                                     /\ b \notin blind => containers[b].status \notin Terminal
        PROVE  IdsGiven' /\ InOrder'
    <2>1. /\ \A i \in 1..Len(statusQ') : i \in 1..Len(statusQ) \/ i = Len(statusQ) + 1
          /\ \A i \in 1..Len(statusQ) : statusQ'[i] = statusQ[i]
          /\ Len(statusQ) \in Nat
          /\ statusQ'[Len(statusQ) + 1].assignment = b
          /\ statusQ'[Len(statusQ) + 1].containerID = r
          /\ statusQ'[Len(statusQ) + 1].status = status
      BY <1>4 DEF Published
    <2>2. IdsGiven'
      BY <1>1, <1>2, <1>4, <2>1 DEF IdsGiven
    <2>3. ASSUME NEW i \in 1..Len(statusQ'), NEW j \in 1..Len(statusQ'), i < j,
                 statusQ'[i].assignment = statusQ'[j].assignment,
                 statusQ'[i].assignment \notin blind, statusQ'[i].status \in Terminal
          PROVE  statusQ'[j].status # "running"
      <3>1. i \in 1..Len(statusQ)
        BY <2>1, <2>3
      <3>2. CASE j \in 1..Len(statusQ)
        BY <1>1, <2>1, <2>3, <3>1, <3>2 DEF InOrder
      <3>3. CASE j = Len(statusQ) + 1
        BY <1>4, <2>1, <2>3, <3>1, <3>3 DEF EndQueued
      <3> QED
        BY <2>1, <3>2, <3>3
    <2>4. ASSUME NEW a \in Assignments \ blind, containers[a].status \in Terminal,
                 NEW i \in 1..Len(statusQ'), statusQ'[i].assignment = a
          PROVE  statusQ'[i].status # "running"
      BY <1>1, <1>4, <2>1, <2>4 DEF InOrder, NoRunning
    <2>5. InOrder'
      BY <1>2, <2>3, <2>4 DEF InOrder, NoRunning, Terminal
    <2> QED
      BY <2>2, <2>5
  <1>5. ASSUME NEW n \in Nodes, NEW b \in Assignments, NEW q \in RuntimeIds, AssignPublishStatus(n),
               CreatedFor(q, b, n), q = assignH[n].containerID, b \notin blind
        PROVE  ~EndQueued(b) /\ containers[b].status \notin Terminal
    <2>1. ASSUME NEW r \in RuntimeIds, Announced(r) PROVE runtime[r].assignment # b
      BY <1>1, <1>5, <2>1, AnnouncesOnce
    <2>2. ASSUME NEW i \in 1..Len(statusQ), statusQ[i].assignment = b, statusQ[i].status \in Terminal
          PROVE  FALSE
      <3>1. statusQ[i].containerID # NULL
        BY <1>1, <1>5, <2>2 DEF IdsGiven
      <3>2. /\ statusQ[i].containerID \in RuntimeIds /\ Announced(statusQ[i].containerID)
            /\ runtime[statusQ[i].containerID].assignment = b
        BY <1>1, <2>2, <3>1, StatusTypes DEF StatusIds, Known, Ownership, StatusesOwned
      <3> QED
        BY <2>1, <3>2
    <2>3. ASSUME containers[b].status \in Terminal PROVE FALSE
      <3>1. containers[b].runtimeID # NULL
        BY <1>1, <1>5, <2>3 DEF IdsGiven
      <3>2. containers[b] \in ContainerRow
        BY <1>1 DEF Ownership, TypeOK
      <3>3. containers[b].runtimeID \in RuntimeIds
        BY <3>1, <3>2 DEF ContainerRow
      <3>4. /\ Announced(containers[b].runtimeID)
            /\ runtime[containers[b].runtimeID].assignment = b
        BY <1>1, <3>1 DEF RowIds, Known, Ownership, RowsWellFormed, Owned, CreatedFor
      <3> QED
        BY <2>1, <3>3, <3>4
    <2> QED
      BY <2>2, <2>3 DEF EndQueued
  <1>6. ASSUME NEW n \in Nodes, UnassignPublishStatus(n), NEW b \in Assignments, NEW r,
               b = Head(unassignQ[n]).assignment, r = Head(unassignQ[n]).containerID, r = NULL
        PROVE  b \in blind
    <2>1. unassignQ[n] # <<>>
      BY <1>1, <1>6 DEF Ownership, UnassignPublishStatus, UnassignHandlersHold
    <2> QED
      BY <1>1, <1>6, <2>1, UnassignHead
  <1>7. \A status \in Terminal : status # "running"
    BY DEF Terminal
  <1> QED
    BY <1>3, <1>4, <1>5, <1>6, <1>7, WorkerPublishes, NullIsNoId DEF Terminal

-----------------------------------------------------------------------------
(* Reports that were made stay made *)

\* A poll that goes on as before, or has just reported.
LEMMA PollsReportedKept ==
    ASSUME Watching, ReportsStay, blind \subseteq blind',
           \A n \in Nodes : pollH'[n].pc = "update" =>
              \/ pollH[n].pc = "update" /\ pollH'[n].assignment = pollH[n].assignment
              \/ \E a \in Assignments : a = pollH'[n].assignment /\ Reported(a)'
    PROVE  PollsReported'
  <1>1. Ownership /\ PollsReported /\ EntryIds
    BY DEF Watching, Started, Reporting, ReportsMade, IdsAnnounced
  <1> SUFFICES ASSUME NEW n \in Nodes, pollH'[n].pc = "update", pollH'[n].assignment \notin blind',
                      NEW b, b = pollH'[n].assignment
               PROVE  Reported(b)'
    BY DEF PollsReported, Reported, EndQueued, NoRunning
  <1>2. CASE pollH[n].pc = "update" /\ pollH'[n].assignment = pollH[n].assignment
    <2>1. b \in Assignments \ blind /\ pollH[n].todo[b] # NotTracked
      BY <1>1, <1>2 DEF Ownership, PollsHold
    <2>2. PICK r \in RuntimeIds : r = pollH[n].todo[b].containerID /\ CreatedFor(r, b, n)
      BY <1>1, <2>1, HeldIds
    <2>3. Announced(r) /\ Reported(b)
      BY <1>1, <1>2, <2>1, <2>2, NullIsNoId DEF EntryIds, Known, PollsReported
    <2> QED
      BY <2>1, <2>2, <2>3 DEF ReportsStay, CreatedFor
  <1> QED
    BY <1>2

\* Likewise the goroutine that handles assignments.
LEMMA StartsReportedKept ==
    ASSUME Watching, ReportsStay, blind \subseteq blind',
           \A n \in Nodes : assignH'[n].pc = "track" /\ assignH'[n].status # "running" =>
              \/ /\ assignH[n].pc = "track" /\ assignH[n].status # "running"
                 /\ Head(assignQ'[n]) = Head(assignQ[n])
              \/ \E a \in Assignments : a = Head(assignQ'[n]) /\ Reported(a)'
    PROVE  StartsReported'
  <1>1. Ownership /\ StartsReported
    BY DEF Watching, Started, Reporting, ReportsMade
  <1> SUFFICES ASSUME NEW n \in Nodes, assignH'[n].pc = "track", assignH'[n].status # "running",
                      Head(assignQ'[n]) \notin blind', NEW b, b = Head(assignQ'[n])
               PROVE  Reported(b)'
    BY DEF StartsReported, Reported, EndQueued, NoRunning
  <1>2. CASE /\ assignH[n].pc = "track" /\ assignH[n].status # "running"
             /\ Head(assignQ'[n]) = Head(assignQ[n])
    <2>1. PICK r \in RuntimeIds : Announced(r) /\ CreatedFor(r, b, n) /\ b \in Assignments
      BY <1>1, <1>2, TrackAnnounced
    <2>2. Reported(b) /\ b \notin blind
      BY <1>1, <1>2 DEF StartsReported
    <2> QED
      BY <2>1, <2>2 DEF ReportsStay, CreatedFor
  <1> QED
    BY <1>2

\* Likewise the goroutine that handles unassigns.
LEMMA StopsReportedKept ==
    ASSUME Watching, ReportsStay, blind \subseteq blind',
           \A n \in Nodes : unassignH'[n] = "untrack" =>
              \/ unassignH[n] = "untrack" /\ Head(unassignQ'[n]) = Head(unassignQ[n])
              \/ \E a \in Assignments : a = Head(unassignQ'[n]).assignment /\ Reported(a)'
    PROVE  StopsReported'
  <1>1. Ownership /\ BlindNamed /\ StopsReported /\ UnassignIds
    BY DEF Watching, Started, Reporting, ReportsMade, IdsAnnounced
  <1> SUFFICES ASSUME NEW n \in Nodes, unassignH'[n] = "untrack",
                      Head(unassignQ'[n]).assignment \notin blind',
                      NEW b, b = Head(unassignQ'[n]).assignment
               PROVE  Reported(b)'
    BY DEF StopsReported, Reported, EndQueued, NoRunning
  <1>2. CASE unassignH[n] = "untrack" /\ Head(unassignQ'[n]) = Head(unassignQ[n])
    <2>1. unassignQ[n] # <<>> /\ unassignQ[n] \in Seq(UnassignMsg)
      BY <1>1, <1>2 DEF Ownership, TypeOK, UnassignHandlersHold
    <2>2. PICK r \in RuntimeIds : r = Head(unassignQ[n]).containerID /\ CreatedFor(r, b, n)
      BY <1>1, <1>2, <2>1, UnassignHead
    <2>3. 1 \in 1..Len(unassignQ[n]) /\ Head(unassignQ[n]) = unassignQ[n][1]
      BY <2>1
    <2>4. Announced(r)
      BY <1>1, <2>2, <2>3, NullIsNoId DEF UnassignIds, Known
    <2>5. Reported(b) /\ b \in Assignments \ blind
      BY <1>1, <1>2, <2>1, UnassignHead DEF StopsReported
    <2> QED
      BY <2>2, <2>4, <2>5 DEF ReportsStay, CreatedFor
  <1> QED
    BY <1>2

-----------------------------------------------------------------------------
(* Announced containers stay followed *)

StopsStay == \A a \in Assignments \ blind : Stopping(a) => Stopping(a)' \/ Reported(a)'
WatchesStay ==
    \A a \in Assignments \ blind, r \in RuntimeIds :
       runtime[r].assignment = a /\ Announced(r) /\ Watched(r, a) => Watched(r, a)' \/ Reported(a)'

\* What stops, is watched or is newly announced decides.
LEMMA FollowedKept ==
    ASSUME Watching, ReportsStay, blind \subseteq blind', StopsStay, WatchesStay,
           \A r \in RuntimeIds : Announced(r)' =>
              \/ Announced(r) /\ runtime'[r].assignment = runtime[r].assignment
              \/ \E a \in Assignments : a = runtime'[r].assignment /\ (Reported(a)' \/ Watched(r, a)')
    PROVE  Followed'
  <1>1. Followed
    BY DEF Watching, Reporting
  <1> SUFFICES ASSUME NEW r \in RuntimeIds, NEW a \in Assignments \ blind',
                      runtime'[r].assignment = a, Announced(r)'
               PROVE  Reported(a)' \/ Stopping(a)' \/ Watched(r, a)'
    BY DEF Followed
  <1>2. CASE Announced(r) /\ runtime'[r].assignment = runtime[r].assignment
    <2>1. a \in Assignments \ blind /\ runtime[r].assignment = a
      BY <1>2
    <2>2. Reported(a) \/ Stopping(a) \/ Watched(r, a)
      BY <1>1, <1>2, <2>1 DEF Followed
    <2> QED
      BY <1>2, <2>1, <2>2 DEF ReportsStay, StopsStay, WatchesStay
  <1> QED
    BY <1>2

\* The handler of an unassign that keeps its message still stops.
LEMMA StopsStayKept ==
    ASSUME \A n \in Nodes : unassignH[n] \in {"remove", "publish"} =>
              unassignH'[n] \in {"remove", "publish"} /\ Head(unassignQ'[n]) = Head(unassignQ[n])
    PROVE  StopsStay
  BY DEF StopsStay, Stopping

\* The assign streams only grow in steps of the control plane.
LEMMA AssignsGrow ==
    ASSUME Ownership, ApiNext \/ ControllerNext \/ SchedulerNext \/ UNCHANGED vars
    PROVE  \A n \in Nodes : assignQ[n] # <<>> => Head(assignQ'[n]) = Head(assignQ[n])
  <1>1. assignQ \in [Nodes -> Seq(Assignments)]
    BY DEF Ownership, TypeOK
  <1>2. CASE UNCHANGED assignQ
    BY <1>2
  <1>3. CASE PublishAssignment /\ ~UNCHANGED assignQ
    <2>1. PICK m \in Nodes, b \in Assignments : assignQ' = [assignQ EXCEPT ![m] = Append(@, b)]
      BY <1>3 DEF PublishAssignment, Ownership, SchedulerHolds
    <2>2. ASSUME NEW n \in Nodes, assignQ[n] # <<>> PROVE Head(assignQ'[n]) = Head(assignQ[n])
      <3>1. CASE n = m
        BY <1>1, <2>1, <2>2, <3>1, AppendFacts
      <3>2. CASE n # m
        BY <1>1, <2>1, <3>2
      <3> QED
        BY <3>1, <3>2
    <2> QED
      BY <2>2
  <1>4. CASE ApiNext \/ ControllerNext \/ UNCHANGED vars
    BY <1>2, <1>4, ControlPlaneRows
  <1>5. CASE SchedulerNext
    BY <1>2, <1>3, <1>5 DEF SchedulerNext, SelectNode, CheckQuota, EnforceContainerQuota, CreateContainerRow,
          HandleStatus, SweepUnreachable, HandleHeartbeat, RedeliverPlacement,
          RedeliverStatus, SchedulerRestart
  <1> QED
    BY <1>4, <1>5

\* The control plane takes nothing from a worker.
LEMMA ControlPlaneReports ==
    ASSUME Never(Repeats \cup Lost), Watching, ReportsStay,
           ApiNext \/ ControllerNext \/ SchedulerNext \/ UNCHANGED vars
    PROVE  ReportsMade' /\ Followed'
  <1>1. Started /\ Ownership /\ Never(Repeats)
    BY DEF Watching, Started, Never
  <1>2. /\ UNCHANGED <<runtime, tracked, assignH, unassignH, pollH>>
    <2>1. CASE HandleStatus
      BY <2>1 DEF HandleStatus, workerVars
    <2> QED
      BY <1>1, <2>1, ControlPlaneRows, SchedulerRows DEF workerVars
  <1>3. UnassignsGrow
    BY <1>1, ControlPlaneGrows
  <1>4. /\ \A n \in Nodes : unassignH[n] # "idle" => Head(unassignQ'[n]) = Head(unassignQ[n])
        /\ \A n \in Nodes : assignH[n].pc # "idle" => Head(assignQ'[n]) = Head(assignQ[n])
    BY <1>1, <1>3, AssignsGrow DEF UnassignsGrow, Ownership, AssignHandlersHold, UnassignHandlersHold
  <1>5. blind \subseteq blind'
    BY <1>3 DEF UnassignsGrow
  <1>6. ReportsMade'
    BY <1>2, <1>4, <1>5, PollsReportedKept, StartsReportedKept, StopsReportedKept DEF ReportsMade
  <1>7. StopsStay
    BY <1>2, <1>4, StopsStayKept
  <1>8. WatchesStay
    BY <1>2 DEF WatchesStay, Watched
  <1>9. \A r \in RuntimeIds : Announced(r)' => Announced(r)
    BY <1>2 DEF Announced
  <1> QED
    BY <1>2, <1>5, <1>6, <1>7, <1>8, <1>9, FollowedKept

\* Starting announces nothing.
LEMMA StartReports ==
    ASSUME Never(Repeats \cup Lost), Watching, ReportsStay, NEW n \in Nodes, StartContainer(n)
    PROVE  ReportsMade' /\ Followed'
  <1>1. Started /\ Ownership /\ Never(Repeats) /\ Next
    BY DEF Watching, Started, Never, Next, WorkerNext, HandleAssignment
  <1>2. UNCHANGED <<tracked, assignQ, unassignQ, unassignH, pollH, blind>>
    BY DEF StartContainer
  <1>3. /\ assignH[n].pc = "idle" /\ assignH'[n].pc = "publish"
        /\ \A m \in Nodes : m # n => assignH'[m] = assignH[m]
    BY <1>1, StartEffect
  <1>4. ReportsMade'
    BY <1>2, <1>3, PollsReportedKept, StartsReportedKept, StopsReportedKept DEF ReportsMade
  <1>5. StopsStay
    BY <1>2, StopsStayKept
  <1>6. WatchesStay
    BY <1>2, <1>3 DEF WatchesStay, Watched
  <1>7. ASSUME NEW r \in RuntimeIds, Announced(r)'
        PROVE  Announced(r) /\ runtime'[r].assignment = runtime[r].assignment
    <2>1. \A m \in Nodes : ~AssignPublishStatus(m)
      <3>1. ASSUME NEW m \in Nodes, AssignPublishStatus(m) PROVE FALSE
        <4>1. assignH[m].pc = "publish" /\ assignH'[m].pc = "track"
          BY <1>1, <3>1, AssignEffect
        <4> QED
          BY <1>3, <4>1
      <3> QED
        BY <3>1
    <2> QED
      BY <1>1, <1>7, <2>1, AnnouncedBefore
  <1> QED
    BY <1>2, <1>4, <1>5, <1>6, <1>7, FollowedKept

\* The first status is an end, or the handler is about to track the container.
LEMMA AnnounceReports ==
    ASSUME Never(Repeats \cup Lost), Watching, ReportsStay, NEW n \in Nodes, AssignPublishStatus(n)
    PROVE  ReportsMade' /\ Followed'
  <1>1. Started /\ Ownership /\ Unspent /\ Never(Repeats) /\ Next
    BY DEF Watching, Started, Never, Next, WorkerNext, HandleAssignment
  <1>2. UNCHANGED <<tracked, runtime, unassignQ, unassignH, pollH, blind>>
    BY DEF AssignPublishStatus
  <1>3. /\ assignH[n].pc = "publish" /\ assignH'[n].pc = "track"
        /\ assignH'[n].containerID = assignH[n].containerID /\ assignH'[n].status = assignH[n].status
        /\ \A m \in Nodes : m # n => assignH'[m] = assignH[m]
        /\ UNCHANGED assignQ
    BY <1>1, AssignEffect
  <1>4. PICK b \in Assignments, q \in RuntimeIds, status \in LiveStatus :
          /\ b = Head(assignQ[n]) /\ q = assignH[n].containerID /\ status = assignH[n].status
          /\ CreatedFor(q, b, n) /\ Truthful(status, q) /\ Published(b, q, status)
    BY <1>1, AssignPublishes, NeverSpent DEF Never, Lost, Bounded
  <1>5. status # "running" => Reported(b)'
    BY <1>4, EndPublished DEF Truthful
  <1>6. ReportsMade'
    BY <1>2, <1>3, <1>4, <1>5, PollsReportedKept, StartsReportedKept, StopsReportedKept DEF ReportsMade
  <1>7. StopsStay
    BY <1>2, StopsStayKept
  <1>8. WatchesStay
    BY <1>2, <1>3 DEF WatchesStay, Watched
  <1>9. ASSUME NEW r \in RuntimeIds, Announced(r)'
        PROVE  \/ Announced(r) /\ runtime'[r].assignment = runtime[r].assignment
               \/ \E a \in Assignments : a = runtime'[r].assignment /\ (Reported(a)' \/ Watched(r, a)')
    <2>1. CASE r = q
      <3>1. b = runtime'[r].assignment
        BY <1>2, <1>4, <2>1 DEF CreatedFor
      <3>2. status = "running" => Watched(r, b)'
        BY <1>3, <1>4, <2>1 DEF Watched
      <3> QED
        BY <1>5, <3>1, <3>2
    <2>2. CASE r # q
      BY <1>2, <1>3, <1>4, <1>9, <2>2 DEF Announced
    <2> QED
      BY <2>1, <2>2
  <1> QED
    BY <1>2, <1>6, <1>7, <1>8, <1>9, FollowedKept

\* The map takes over from the handler; it never replaces a watched entry,
\* because an assignment has one container.
LEMMA TrackReports ==
    ASSUME Never(Repeats \cup Lost), Watching, ReportsStay, NEW n \in Nodes, AssignTrack(n)
    PROVE  ReportsMade' /\ Followed'
  <1>1. Started /\ Ownership /\ Never(Repeats) /\ Next /\ OneRuntime /\ StartsReported
    BY DEF Watching, Started, Never, Next, WorkerNext, HandleAssignment, StartedOnce, Deliveries,
           Reporting, ReportsMade
  <1>2. UNCHANGED <<statusQ, containers, runtime, unassignQ, unassignH, pollH, blind>>
    BY DEF AssignTrack, dbVars
  <1>3. /\ assignH[n].pc = "track" /\ assignH'[n].pc = "idle"
        /\ \A m \in Nodes : m # n => assignH'[m] = assignH[m] /\ assignQ'[m] = assignQ[m]
    BY <1>1, AssignEffect
  <1>4. PICK q \in RuntimeIds, b \in Assignments :
          q = assignH[n].containerID /\ b = Head(assignQ[n]) /\ CreatedFor(q, b, n)
    BY <1>1, <1>3, TrackAnnounced
  <1>5. /\ tracked \in [Nodes -> [Assignments -> TrackedContainer]]
        /\ tracked' = [tracked EXCEPT ![n][b] = [containerID |-> q, lastStatus |-> assignH[n].status]]
    BY <1>1, <1>4 DEF Ownership, TypeOK, AssignTrack, TrackedEntry
  <1>6. ReportsMade'
    BY <1>2, <1>3, PollsReportedKept, StartsReportedKept, StopsReportedKept DEF ReportsMade
  <1>7. StopsStay
    BY <1>2, StopsStayKept
  <1>8. ASSUME NEW a \in Assignments \ blind, NEW r \in RuntimeIds, runtime[r].assignment = a,
               Announced(r), Watched(r, a)
        PROVE  Watched(r, a)' \/ Reported(a)'
    <2>1. CASE a = b
      <3>1. r = q
        BY <1>1, <1>4, <1>8, <2>1 DEF OneRuntime, CreatedFor
      <3>2. CASE assignH[n].status = "running"
        BY <1>5, <2>1, <3>1, <3>2 DEF Watched
      <3>3. CASE assignH[n].status # "running"
        <4>1. Reported(a)
          BY <1>1, <1>3, <1>4, <1>8, <2>1, <3>3 DEF StartsReported
        <4> QED
          BY <1>8, <4>1 DEF ReportsStay
      <3> QED
        BY <3>2, <3>3
    <2>2. CASE a # b
      <3>1. r # q
        BY <1>4, <1>8, <2>2 DEF CreatedFor
      <3>2. \A m \in Nodes : tracked'[m][a] = tracked[m][a]
        BY <1>5, <1>8, <2>2
      <3> QED
        BY <1>3, <1>4, <1>8, <3>1, <3>2 DEF Watched
    <2> QED
      BY <2>1, <2>2
  <1>9. WatchesStay
    BY <1>8 DEF WatchesStay
  <1>10. \A r \in RuntimeIds : Announced(r)' => Announced(r)
    BY <1>2, <1>3 DEF Announced
  <1> QED
    BY <1>2, <1>6, <1>7, <1>9, <1>10, FollowedKept

\* Stopping and removing leave it to the handler to report.
LEMMA StopReports ==
    ASSUME Never(Repeats \cup Lost), Watching, ReportsStay, NEW n \in Nodes,
           UnassignStop(n) \/ UnassignRemove(n)
    PROVE  ReportsMade' /\ Followed'
  <1>1. Started /\ Ownership /\ Never(Repeats) /\ Next /\ RuntimesStay
    BY RuntimesKept DEF Watching, Started, Never, Next, WorkerNext, HandleUnassign
  <1>2. UNCHANGED <<tracked, assignH, assignQ, unassignQ, pollH, blind>>
    BY DEF UnassignStop, UnassignRemove
  <1>3. /\ unassignH'[n] \in {"remove", "publish"}
        /\ \A m \in Nodes : m # n => unassignH'[m] = unassignH[m]
    BY <1>1 DEF Ownership, TypeOK, UnassignStop, UnassignRemove
  <1>4. ReportsMade'
    BY <1>2, <1>3, PollsReportedKept, StartsReportedKept, StopsReportedKept DEF ReportsMade
  <1>5. StopsStay
    BY <1>2, <1>3, StopsStayKept
  <1>6. WatchesStay
    BY <1>2 DEF WatchesStay, Watched
  <1>7. ASSUME NEW r \in RuntimeIds, Announced(r)'
        PROVE  Announced(r) /\ runtime'[r].assignment = runtime[r].assignment
    <2>1. \A m \in Nodes : ~AssignPublishStatus(m) /\ ~StartContainer(m)
      <3>1. ASSUME NEW m \in Nodes, AssignPublishStatus(m) \/ StartContainer(m) PROVE FALSE
        <4>1. assignH[m].pc # assignH'[m].pc
          BY <1>1, <3>1, AssignEffect, StartEffect
        <4> QED
          BY <1>2, <4>1
      <3> QED
        BY <3>1
    <2> QED
      BY <1>1, <1>7, <2>1, AnnouncedBefore
  <1> QED
    BY <1>2, <1>4, <1>5, <1>6, <1>7, FollowedKept

\* The stop is reported.
LEMMA StoppedReports ==
    ASSUME Never(Repeats \cup Lost), Watching, ReportsStay, NEW n \in Nodes, UnassignPublishStatus(n)
    PROVE  ReportsMade' /\ Followed'
  <1>1. Started /\ Ownership /\ Unspent
    BY DEF Watching, Started
  <1>2. UNCHANGED <<runtime, tracked, assignH, assignQ, unassignQ, pollH, blind>>
    BY DEF UnassignPublishStatus
  <1>3. /\ unassignH[n] = "publish" /\ unassignH'[n] = "untrack"
        /\ \A m \in Nodes : m # n => unassignH'[m] = unassignH[m]
    BY <1>1 DEF Ownership, TypeOK, UnassignPublishStatus
  <1>4. PICK b \in Assignments, q \in RuntimeIds \cup {NULL} :
          b = Head(unassignQ[n]).assignment /\ Published(b, q, "stopped")
    BY <1>1, UnassignPublishes, NeverSpent DEF Never, Lost, Bounded
  <1>5. Reported(b)'
    BY <1>4, EndPublished DEF Terminal
  <1>6. ReportsMade'
    BY <1>2, <1>3, <1>4, <1>5, PollsReportedKept, StartsReportedKept, StopsReportedKept DEF ReportsMade
  <1>7. StopsStay
    BY <1>2, <1>3, <1>4, <1>5 DEF StopsStay, Stopping
  <1>8. WatchesStay
    BY <1>2 DEF WatchesStay, Watched
  <1>9. \A r \in RuntimeIds : Announced(r)' => Announced(r)
    BY <1>2 DEF Announced
  <1> QED
    BY <1>2, <1>6, <1>7, <1>8, <1>9, FollowedKept

\* An entry is taken out of the map only after its end was reported.
LEMMA UntrackReports ==
    ASSUME Never(Repeats \cup Lost), Watching, ReportsStay, NEW n \in Nodes, UnassignUntrack(n)
    PROVE  ReportsMade' /\ Followed'
  <1>1. Started /\ Ownership /\ StopsReported
    BY DEF Watching, Started, Reporting, ReportsMade
  <1>2. UNCHANGED <<runtime, assignH, assignQ, pollH, blind>>
    BY DEF UnassignUntrack
  <1>3. /\ unassignH[n] = "untrack" /\ unassignH'[n] = "idle"
        /\ \A m \in Nodes : m # n => unassignH'[m] = unassignH[m] /\ unassignQ'[m] = unassignQ[m]
    BY <1>1 DEF Ownership, TypeOK, UnassignUntrack, AckUnassign
  <1>4. ReportsMade'
    BY <1>2, <1>3, PollsReportedKept, StartsReportedKept, StopsReportedKept DEF ReportsMade
  <1>5. StopsStay
    BY <1>3, StopsStayKept
  <1>6. ASSUME NEW a \in Assignments \ blind, NEW r \in RuntimeIds, runtime[r].assignment = a,
               Announced(r), Watched(r, a)
        PROVE  Watched(r, a)' \/ Reported(a)'
    <2>1. CASE a = Head(unassignQ[n]).assignment
      <3>1. Reported(a)
        BY <1>1, <1>3, <1>6, <2>1 DEF StopsReported
      <3> QED
        BY <1>6, <3>1 DEF ReportsStay
    <2>2. CASE a # Head(unassignQ[n]).assignment
      <3>1. \A m \in Nodes : tracked'[m][a] = tracked[m][a]
        BY <1>1, <2>2 DEF Ownership, TypeOK, UnassignUntrack
      <3> QED
        BY <1>2, <1>6, <3>1 DEF Watched
    <2> QED
      BY <2>1, <2>2
  <1>7. WatchesStay
    BY <1>6 DEF WatchesStay
  <1>8. \A r \in RuntimeIds : Announced(r)' => Announced(r)
    BY <1>2 DEF Announced
  <1> QED
    BY <1>2, <1>4, <1>5, <1>7, <1>8, FollowedKept

\* A poll that has published an end records it in the map.
LEMMA PollReports ==
    ASSUME Never(Repeats \cup Lost), Watching, ReportsStay, NEW n \in Nodes, CheckTrackedContainers(n)
    PROVE  ReportsMade' /\ Followed'
  <1>1. Started /\ Ownership /\ Unspent /\ PollsReported
    BY DEF Watching, Started, Reporting, ReportsMade
  <1>2. /\ UNCHANGED <<runtime, assignH, assignQ, unassignH, unassignQ, blind>>
        /\ pollH \in [Nodes -> PollState]
        /\ tracked \in [Nodes -> [Assignments -> TrackedContainer]]
    BY <1>1 DEF CheckTrackedContainers, PollSnapshot, PollInspect, PollPublishStatus, PollUpdate,
                Ownership, TypeOK
  <1>3. \A m \in Nodes : m # n => pollH'[m] = pollH[m]
    BY <1>2 DEF CheckTrackedContainers, PollSnapshot, PollInspect, PollPublishStatus, PollUpdate, PollAdvance
  <1>4. pollH'[n].pc = "update" => \E a \in Assignments : a = pollH'[n].assignment /\ Reported(a)'
    <2>1. CASE PollPublishStatus(n)
      <3>1. PICK a \in Assignments, r \in RuntimeIds, status \in Terminal :
              a = pollH[n].assignment /\ Published(a, r, status)
        BY <1>1, <2>1, PollPublishes, NeverSpent DEF Never, Lost, Bounded
      <3>2. pollH'[n].assignment = pollH[n].assignment
        BY <1>2, <2>1 DEF PollPublishStatus, PollState
      <3> QED
        BY <3>1, <3>2, EndPublished
    <2>2. CASE PollSnapshot(n) \/ PollInspect(n) \/ PollUpdate(n)
      <3>1. \A todo : Inspecting(todo).pc # "update" /\ PollIdle.pc # "update"
        BY DEF Inspecting, PollIdle
      <3>2. ASSUME NEW a, PollAdvance(n, a) PROVE pollH'[n].pc # "update"
        BY <1>2, <3>1, <3>2 DEF PollAdvance
      <3>3. CASE PollSnapshot(n)
        BY <1>2, <3>1, <3>3 DEF PollSnapshot
      <3>4. CASE PollInspect(n)
        <4>1. PICK a \in Assignments, status \in LiveStatus :
                \/ PollAdvance(n, a)
                \/ pollH' = [pollH EXCEPT ![n] =
                      [pc |-> "publish", todo |-> @.todo, assignment |-> a, status |-> status]]
          BY <3>4 DEF PollInspect, ContainerStatusOf, LiveStatus
        <4> QED
          BY <1>2, <3>2, <4>1
      <3>5. CASE PollUpdate(n)
        BY <3>2, <3>5 DEF PollUpdate
      <3> QED
        BY <2>2, <3>3, <3>4, <3>5
    <2> QED
      BY <2>1, <2>2 DEF CheckTrackedContainers
  <1>5. ReportsMade'
    BY <1>2, <1>3, <1>4, PollsReportedKept, StartsReportedKept, StopsReportedKept DEF ReportsMade
  <1>6. StopsStay
    BY <1>2, StopsStayKept
  <1>7. ASSUME NEW a \in Assignments \ blind, NEW r \in RuntimeIds, runtime[r].assignment = a,
               Announced(r), Watched(r, a)
        PROVE  Watched(r, a)' \/ Reported(a)'
    <2>1. CASE PollUpdate(n) /\ a = pollH[n].assignment
      <3>1. Reported(a)
        BY <1>1, <1>7, <2>1 DEF PollUpdate, PollsReported
      <3> QED
        BY <1>7, <3>1 DEF ReportsStay
    <2>2. CASE ~(PollUpdate(n) /\ a = pollH[n].assignment)
      <3>1. \A m \in Nodes : tracked'[m][a] = tracked[m][a]
        <4>1. CASE PollUpdate(n)
          <5>1. /\ a # pollH[n].assignment
                /\ tracked' = tracked \/ tracked' = [tracked EXCEPT ![n][pollH[n].assignment].lastStatus = pollH[n].status]
            BY <2>2, <4>1 DEF PollUpdate
          <5> QED
            BY <1>2, <1>7, <5>1
        <4>2. CASE ~PollUpdate(n)
          BY <4>2 DEF CheckTrackedContainers, PollSnapshot, PollInspect, PollPublishStatus
        <4> QED
          BY <4>1, <4>2
      <3> QED
        BY <1>2, <1>7, <3>1 DEF Watched
    <2> QED
      BY <2>1, <2>2
  <1>8. WatchesStay
    BY <1>7 DEF WatchesStay
  <1>9. \A r \in RuntimeIds : Announced(r)' => Announced(r)
    BY <1>2 DEF Announced
  <1> QED
    BY <1>2, <1>5, <1>6, <1>8, <1>9, FollowedKept

\* A container that ends stays watched, and a redelivery comes behind the
\* message that is being handled.
LEMMA EnvironmentReports ==
    ASSUME Never(Repeats \cup Lost), Watching, ReportsStay,
           \/ \E r \in RuntimeIds : ContainerExits(r)
           \/ \E n \in Nodes : RedeliverUnassign(n)
    PROVE  ReportsMade' /\ Followed'
  <1>1. Started /\ Ownership /\ runtime \in [RuntimeIds -> RuntimeContainer]
    BY DEF Watching, Started, Ownership, TypeOK
  <1>2. UNCHANGED <<tracked, assignH, assignQ, unassignH, pollH, blind>>
    BY DEF ContainerExits, RedeliverUnassign, workerVars
  <1>3. \A n \in Nodes : unassignH[n] # "idle" => Head(unassignQ'[n]) = Head(unassignQ[n])
    BY <1>1, RedeliverUnassignGrows DEF ContainerExits, UnassignsGrow, Ownership, UnassignHandlersHold
  <1>4. \A r \in RuntimeIds : runtime'[r].assignment = runtime[r].assignment
    BY <1>1 DEF ContainerExits, RedeliverUnassign, workerVars, RuntimeContainer
  <1>5. ReportsMade'
    BY <1>2, <1>3, PollsReportedKept, StartsReportedKept, StopsReportedKept DEF ReportsMade
  <1>6. StopsStay
    BY <1>2, <1>3, StopsStayKept
  <1>7. WatchesStay
    BY <1>2 DEF WatchesStay, Watched
  <1>8. \A r \in RuntimeIds : Announced(r)' => Announced(r)
    BY <1>2, <1>4 DEF Announced
  <1> QED
    BY <1>2, <1>4, <1>5, <1>6, <1>7, <1>8, FollowedKept

\* What one goroutine of a worker does leaves no end of a container unreported.
LEMMA WorkerReports ==
    ASSUME Never(Repeats \cup Lost), Watching, ReportsStay, WorkerNext
    PROVE  ReportsMade' /\ Followed'
  <1>1. ~Spend("startError") /\ ~Spend("workerRestart") /\ ~Spend("assignRedelivery")
    BY NeverSpent DEF Never, Repeats, Bounded, Watching, Started
  <1>2. ASSUME NEW n \in Nodes
        PROVE  ~StartContainerError(n) /\ ~WorkerRestart(n) /\ ~RedeliverAssign(n)
    BY <1>1 DEF StartContainerError, WorkerRestart, RedeliverAssign
  <1> QED
    BY <1>2, StartReports, AnnounceReports, TrackReports, StopReports, StoppedReports,
       UntrackReports, PollReports, EnvironmentReports DEF WorkerNext, HandleAssignment, HandleUnassign

\* Nothing has been started, so nothing has to be reported.
LEMMA InitReporting == ASSUME Init PROVE BlindNamed /\ Reporting
  <1>1. /\ statusQ = <<>> /\ Victims = {}
        /\ \A n \in Nodes : unassignQ[n] = <<>> /\ unassignH[n] = "idle"
        /\ \A n \in Nodes : assignH[n].pc = "idle" /\ pollH[n].pc = "idle"
        /\ \A n \in Nodes, a \in Assignments :
              tracked[n][a] = NotTracked /\ pollH[n].todo[a] = NotTracked
        /\ \A a \in Assignments : containers[a] = NoContainer
        /\ \A r \in RuntimeIds : runtime[r] = NoRuntime
    BY DEF Init, AssignIdle, PollIdle, NoTracking, Victims, CtlIdle, DeleteIdle
  <1>2. \A i : i \notin 1..Len(<<>>)
    OBVIOUS
  <1>3. BlindNamed
    BY <1>1, <1>2 DEF BlindNamed
  <1>4. IdsAnnounced
    BY <1>1, <1>2 DEF IdsAnnounced, RowIds, StatusIds, UnassignIds, EntryIds, VictimIds, Known,
                      NotTracked, NoContainer
  <1>5. IdsGiven /\ InOrder
    BY <1>1, <1>2 DEF IdsGiven, InOrder, NoContainer, Terminal
  <1>6. ReportsMade
    BY <1>1 DEF ReportsMade, PollsReported, StartsReported, StopsReported
  <1>7. Followed
    BY <1>1, NullIsNoId DEF Followed, NoRuntime
  <1> QED
    BY <1>3, <1>4, <1>5, <1>6, <1>7 DEF Reporting

\* The invariant of the third layer is inductive.
LEMMA WatchingKept ==
    ASSUME Never(Repeats \cup Lost), Watching, [Next]_vars
    PROVE  Watching'
  <1>1. Started /\ Ownership /\ BlindNamed /\ Never(Repeats)
    BY DEF Watching, Started, Never
  <1>2. Started' /\ Ownership'
    BY <1>1, StartedKept DEF Started
  <1>3. BlindNamed'
    BY <1>1, BlindKept
  <1>4. AnnouncedStay /\ ReportsStay
    BY <1>1, AnnouncedKept, ReportsKept
  <1>5. ASSUME WorkerNext PROVE Reporting'
    BY <1>2, <1>4, <1>5, WorkerIds, WorkerGiven, WorkerReports DEF Reporting
  <1>6. ASSUME ApiNext \/ ControllerNext \/ SchedulerNext \/ UNCHANGED vars PROVE Reporting'
    BY <1>4, <1>6, ControlPlaneIds, ControlPlaneGiven, ControlPlaneReports DEF Reporting
  <1>7. Reporting'
    BY <1>5, <1>6 DEF Next
  <1> QED
    BY <1>2, <1>3, <1>7 DEF Watching

\* As long as no status is lost or repeated and no assignment is started again,
\* whoever reads a running row is right about it or will be told: the container
\* runs, its end is on the status stream, its handler is about to report it, or
\* the map the health poll compares with still says running.
THEOREM RunningRowsObserved ==
    ASSUME Never(Repeats \cup Lost)
    PROVE  Spec => []RunningRowObserved
  <1>1. Never(Repeats)
    BY DEF Never
  <1>2. Init => Watching
    BY InitStarted, InitReporting DEF Watching
  <1>3. Watching /\ [Next]_vars => Watching'
    BY WatchingKept
  <1>4. Watching => RunningRowObserved
    <2> SUFFICES ASSUME Watching, NEW a \in Assignments \ blind, containers[a].status = "running"
                 PROVE  \/ TerminalOnItsWay(a)
                        \/ Observed(containers[a].runtimeID, a, containers[a].node)
      BY DEF RunningRowObserved
    <2>1. Ownership /\ RowIds /\ Followed /\ containers[a] \in ContainerRow
      BY DEF Watching, Started, Reporting, IdsAnnounced, Ownership, TypeOK
    <2>2. PICK r \in RuntimeIds : r = containers[a].runtimeID /\ CreatedFor(r, a, containers[a].node)
      BY <2>1 DEF Ownership, RunningRowNamesContainer, ContainerRow
    <2>3. runtime[r].assignment = a /\ Announced(r)
      BY <2>1, <2>2, NullIsNoId DEF RowIds, Known, CreatedFor
    <2>4. CASE Reported(a) \/ Stopping(a)
      BY <2>4 DEF Reported, EndQueued, Stopping, TerminalOnItsWay, Terminal
    <2>5. CASE Watched(r, a)
      <3>1. PICK n \in Nodes :
              \/ assignH[n].pc = "track" /\ assignH[n].containerID = r
              \/ tracked[n][a] = [containerID |-> r, lastStatus |-> "running"]
        BY <2>5 DEF Watched
      <3>2. runtime[r].node = n
        BY <2>1, <2>2, <3>1, TrackAnnounced, HeldIds, NullIsNoId DEF CreatedFor, NotTracked
      <3>3. containers[a].node = n
        BY <2>2, <3>2 DEF CreatedFor
      <3> QED
        BY <2>2, <3>1, <3>3 DEF Observed
    <2> QED
      BY <2>1, <2>3, <2>4, <2>5 DEF Followed
  <1> QED
    BY <1>2, <1>3, <1>4, PTL DEF Spec

=============================================================================
