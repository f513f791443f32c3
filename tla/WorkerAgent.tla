---------------------------- MODULE WorkerAgent -----------------------------
(***************************************************************************)
(* services/worker/internal/nodeagent on every node, with the container    *)
(* runtime it drives (internal/runtime).  Assignments, unassignments and   *)
(* the health poll run on three goroutines that share only the mutex-      *)
(* protected map Agent.tracked, so each handler is split wherever another  *)
(* goroutine, the scheduler or the runtime can come between its calls.     *)
(***************************************************************************)
EXTENDS ClusterState

\* Mutation of ContainerStatusOf: the runtime's word for a clean exit is passed on.
RuntimeStatusOf(state) ==
    CASE state = "created" -> "pending"
      [] state = "running" -> "running"
      [] state = "exited0" -> "exited"
      [] OTHER             -> "crashed"

\* containerStatus of what ContainerStatus reports for a runtime state.
ContainerStatusOf(state) ==
    CASE state = "created" -> "pending"
      [] state = "running" -> "running"
      [] state = "exited0" -> "stopped"
      [] OTHER             -> "crashed"

\* Mutation of PublishStatus: the message leaves out the container id.
PublishStatusWithoutId(a, containerID, status) ==
    /\ statusQ' = Append(statusQ, [assignment |-> a, containerID |-> NULL, status |-> status])
    /\ UNCHANGED budget

\* publishStatus: a failed publish is logged and the status is lost.
PublishStatus(a, containerID, status) ==
    \/ /\ statusQ' = Append(statusQ, [assignment |-> a, containerID |-> containerID,
                                      status |-> status])
       /\ UNCHANGED budget
    \/ /\ Spend("publishError")
       /\ UNCHANGED statusQ

AckAssign(n)   == assignQ' = [assignQ EXCEPT ![n] = Tail(@)]
AckUnassign(n) == unassignQ' = [unassignQ EXCEPT ![n] = Tail(@)]

-----------------------------------------------------------------------------
(* handleAssignment *)

\* startAssignedContainer succeeds: the container was created, started and
\* inspected; by then it may have exited already.
StartContainer(n) ==
    /\ assignH[n].pc = "idle" /\ assignQ[n] # <<>> /\ NewRuntimeIds # {}
    /\ \E s \in {"running", "exited0", "exited1"} : LET r == Mint(NewRuntimeIds) IN
          /\ \/ s = "running" /\ UNCHANGED budget
             \/ s # "running" /\ Spend("kill")
          /\ runtime' = [runtime EXCEPT ![r] =
                [state |-> s, node |-> n, assignment |-> Head(assignQ[n])]]
          /\ assignH' = [assignH EXCEPT ![n] =
                [pc |-> "publish", containerID |-> r, status |-> ContainerStatusOf(s)]]
    /\ UNCHANGED <<dbVars, placementQ, assignQ, unassignQ, statusQ, apiVars, sched, ctl,
                   tracked, unassignH, pollH, blind>>

\* It fails in the pull or the create, in the start (the created container
\* stays) or in the inspection (the started container stays): the handler will
\* report "crashed" without a container id.
StartContainerError(n) ==
    /\ assignH[n].pc = "idle" /\ assignQ[n] # <<>> /\ Spend("startError")
    /\ \/ UNCHANGED runtime
       \/ \E s \in {"created", "running"} :
             /\ NewRuntimeIds # {}
             /\ runtime' = [runtime EXCEPT ![Mint(NewRuntimeIds)] =
                   [state |-> s, node |-> n, assignment |-> Head(assignQ[n])]]
    /\ assignH' = [assignH EXCEPT ![n] =
          [pc |-> "publish", containerID |-> NULL, status |-> "crashed"]]
    /\ UNCHANGED <<dbVars, placementQ, assignQ, unassignQ, statusQ, apiVars, sched, ctl,
                   tracked, unassignH, pollH, blind>>

\* Publish the outcome.  After an error the handler returns here, tracking nothing.
AssignPublishStatus(n) ==
    /\ assignH[n].pc = "publish"
    /\ PublishStatus(Head(assignQ[n]), assignH[n].containerID, assignH[n].status)
    /\ \/ /\ assignH[n].containerID # NULL
          /\ assignH' = [assignH EXCEPT ![n].pc = "track"]
          /\ UNCHANGED assignQ
       \/ /\ assignH[n].containerID = NULL
          /\ assignH' = [assignH EXCEPT ![n] = AssignIdle]
          /\ AckAssign(n)
    /\ UNCHANGED <<dbVars, placementQ, unassignQ, apiVars, sched, ctl,
                   runtime, tracked, unassignH, pollH, blind>>

\* Mutation of TrackedEntry: the container is inspected again, so an exit that
\* nobody reported counts as reported.
InspectedEntry(n) == [containerID |-> assignH[n].containerID,
                      lastStatus |-> ContainerStatusOf(runtime[assignH[n].containerID].state)]

\* The status that was published is the one the health poll compares with.
TrackedEntry(n) == [containerID |-> assignH[n].containerID, lastStatus |-> assignH[n].status]

AssignTrack(n) ==
    /\ assignH[n].pc = "track"
    /\ tracked' = [tracked EXCEPT ![n][Head(assignQ[n])] = TrackedEntry(n)]
    /\ AckAssign(n)
    /\ assignH' = [assignH EXCEPT ![n] = AssignIdle]
    /\ UNCHANGED <<dbVars, placementQ, unassignQ, statusQ, apiVars, sched, ctl,
                   runtime, unassignH, pollH, budget, blind>>

-----------------------------------------------------------------------------
(* handleUnassign *)

\* Mutation of UnassignTarget: look the container up in the tracking map.
TrackedTarget(n) == tracked[n][Head(unassignQ[n]).assignment].containerID

\* The container the message names is stopped, whatever the map says.
UnassignTarget(n) == Head(unassignQ[n]).containerID

Runs(r, n)    == r # NULL /\ runtime[r].node = n /\ runtime[r].state = "running"
Present(r, n) == r # NULL /\ runtime[r].node = n /\ runtime[r].state \notin {"none", "removed"}

\* StopContainer ends a running container with some exit code and does nothing
\* to a stopped one; it fails for an empty or unknown id, or when the runtime
\* does, and the error is only logged.
UnassignStop(n) ==
    /\ unassignH[n] = "idle" /\ unassignQ[n] # <<>>
    /\ LET r == UnassignTarget(n) IN
          \/ /\ Runs(r, n)
             /\ \E s \in {"exited0", "exited1"} : runtime' = [runtime EXCEPT ![r].state = s]
             /\ UNCHANGED budget
          \/ /\ ~Runs(r, n)
             /\ UNCHANGED <<runtime, budget>>
          \/ /\ Runs(r, n) /\ Spend("stopError")
             /\ UNCHANGED runtime
    /\ unassignH' = [unassignH EXCEPT ![n] = "remove"]
    /\ UNCHANGED <<dbVars, placementQ, assignQ, unassignQ, statusQ, apiVars, sched, ctl,
                   tracked, assignH, pollH, blind>>

\* RemoveContainer forces removal; it fails like StopContainer does.
UnassignRemove(n) ==
    /\ unassignH[n] = "remove"
    /\ LET r == UnassignTarget(n) IN
          \/ /\ Present(r, n)
             /\ runtime' = [runtime EXCEPT ![r].state = "removed"]
             /\ UNCHANGED budget
          \/ /\ ~Present(r, n)
             /\ UNCHANGED <<runtime, budget>>
          \/ /\ Present(r, n) /\ Spend("stopError")
             /\ UNCHANGED runtime
    /\ unassignH' = [unassignH EXCEPT ![n] = "publish"]
    /\ UNCHANGED <<dbVars, placementQ, assignQ, unassignQ, statusQ, apiVars, sched, ctl,
                   tracked, assignH, pollH, blind>>

UnassignPublishStatus(n) ==
    /\ unassignH[n] = "publish"
    /\ PublishStatus(Head(unassignQ[n]).assignment, Head(unassignQ[n]).containerID, "stopped")
    /\ unassignH' = [unassignH EXCEPT ![n] = "untrack"]
    /\ UNCHANGED <<dbVars, placementQ, assignQ, unassignQ, apiVars, sched, ctl,
                   runtime, tracked, assignH, pollH, blind>>

UnassignUntrack(n) ==
    /\ unassignH[n] = "untrack"
    /\ tracked' = [tracked EXCEPT ![n][Head(unassignQ[n]).assignment] = NotTracked]
    /\ AckUnassign(n)
    /\ unassignH' = [unassignH EXCEPT ![n] = "idle"]
    /\ UNCHANGED <<dbVars, placementQ, assignQ, statusQ, apiVars, sched, ctl,
                   runtime, assignH, pollH, budget, blind>>

-----------------------------------------------------------------------------
(* checkTrackedContainers *)

Inspecting(todo) == [pc |-> "inspect", todo |-> todo, assignment |-> NULL, status |-> "none"]

PollSnapshot(n) ==
    /\ pollH[n].pc = "idle" /\ tracked[n] # NoTracking
    /\ pollH' = [pollH EXCEPT ![n] = Inspecting(tracked[n])]
    /\ UNCHANGED <<dbVars, placementQ, assignQ, unassignQ, statusQ, apiVars, sched, ctl,
                   runtime, tracked, assignH, unassignH, budget, blind>>

\* The loop moves on from assignment a, and ends after the last one.
PollAdvance(n, a) ==
    LET todo == [pollH[n].todo EXCEPT ![a] = NotTracked]
    IN  pollH' = [pollH EXCEPT ![n] = IF todo = NoTracking THEN PollIdle
                                      ELSE Inspecting(todo)]

\* Inspect one container of the snapshot; a removed one is an inspection error.
PollInspect(n) ==
    /\ pollH[n].pc = "inspect"
    /\ \E a \in Assignments :
          LET tc == pollH[n].todo[a] IN
          /\ tc # NotTracked
          /\ LET status  == ContainerStatusOf(runtime[tc.containerID].state)
                 changed == runtime[tc.containerID].state # "removed" /\ status # tc.lastStatus
             IN  \/ /\ changed
                    /\ pollH' = [pollH EXCEPT ![n] =
                          [pc |-> "publish", todo |-> @.todo, assignment |-> a, status |-> status]]
                 \/ /\ ~changed
                    /\ PollAdvance(n, a)
    /\ UNCHANGED <<dbVars, placementQ, assignQ, unassignQ, statusQ, apiVars, sched, ctl,
                   runtime, tracked, assignH, unassignH, budget, blind>>

PollPublishStatus(n) ==
    /\ pollH[n].pc = "publish"
    /\ LET a == pollH[n].assignment
       IN  PublishStatus(a, pollH[n].todo[a].containerID, pollH[n].status)
    /\ pollH' = [pollH EXCEPT ![n].pc = "update"]
    /\ UNCHANGED <<dbVars, placementQ, assignQ, unassignQ, apiVars, sched, ctl,
                   runtime, tracked, assignH, unassignH, blind>>

\* The map entry is updated only if the assignment is still tracked.
PollUpdate(n) ==
    /\ pollH[n].pc = "update"
    /\ LET a == pollH[n].assignment IN
          /\ tracked' = IF tracked[n][a] = NotTracked THEN tracked
                        ELSE [tracked EXCEPT ![n][a].lastStatus = pollH[n].status]
          /\ PollAdvance(n, a)
    /\ UNCHANGED <<dbVars, placementQ, assignQ, unassignQ, statusQ, apiVars, sched, ctl,
                   runtime, assignH, unassignH, budget, blind>>

-----------------------------------------------------------------------------
(* The node's environment *)

\* A container's process ends, or is killed behind the agent's back.
ContainerExits(r) ==
    /\ runtime[r].state = "running" /\ Spend("kill")
    /\ \E s \in {"exited0", "exited1"} : runtime' = [runtime EXCEPT ![r].state = s]
    /\ UNCHANGED <<dbVars, placementQ, assignQ, unassignQ, statusQ, apiVars, sched, ctl,
                   tracked, assignH, unassignH, pollH, blind>>

\* The agent's process restarts: the map and the handlers are lost, the
\* containers and the unacked messages are not.
WorkerRestart(n) ==
    /\ Spend("workerRestart")
    /\ tracked' = [tracked EXCEPT ![n] = NoTracking]
    /\ assignH' = [assignH EXCEPT ![n] = AssignIdle]
    /\ unassignH' = [unassignH EXCEPT ![n] = "idle"]
    /\ pollH' = [pollH EXCEPT ![n] = PollIdle]
    /\ UNCHANGED <<dbVars, placementQ, assignQ, unassignQ, statusQ, apiVars, sched, ctl,
                   runtime, blind>>

RedeliverAssign(n) ==
    /\ assignH[n].pc # "idle" /\ Spend("assignRedelivery")
    /\ assignQ' = [assignQ EXCEPT ![n] = Redelivered(@)]
    /\ UNCHANGED <<dbVars, placementQ, unassignQ, statusQ, apiVars, sched, ctl, workerVars, blind>>

RedeliverUnassign(n) ==
    /\ unassignH[n] # "idle" /\ Spend("unassignRedelivery")
    /\ unassignQ' = [unassignQ EXCEPT ![n] = Redelivered(@)]
    /\ UNCHANGED <<dbVars, placementQ, assignQ, statusQ, apiVars, sched, ctl, workerVars, blind>>

HandleAssignment(n) == StartContainer(n) \/ AssignPublishStatus(n) \/ AssignTrack(n)
HandleUnassign(n) ==
    UnassignStop(n) \/ UnassignRemove(n) \/ UnassignPublishStatus(n) \/ UnassignUntrack(n)
CheckTrackedContainers(n) ==
    PollSnapshot(n) \/ PollInspect(n) \/ PollPublishStatus(n) \/ PollUpdate(n)

WorkerNext ==
    \/ \E n \in Nodes :
          \/ HandleAssignment(n) \/ StartContainerError(n)
          \/ HandleUnassign(n) \/ CheckTrackedContainers(n)
          \/ WorkerRestart(n) \/ RedeliverAssign(n) \/ RedeliverUnassign(n)
    \/ \E r \in RuntimeIds : ContainerExits(r)

=============================================================================
