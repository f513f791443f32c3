------------------------------- MODULE Builds -------------------------------
(***************************************************************************)
(* Deploying from git: the apiserver records a build and publishes         *)
(* build.requested, the image builder clones, builds and pushes, and       *)
(* reports build.completed, which the apiserver's consumer turns into a    *)
(* deployment.  Both subjects are durable; both consumers handle one       *)
(* message at a time and ack it when the handler returns.  The handlers    *)
(* return no error, so only a missing ack makes a message come again: the  *)
(* server redelivers after AckWait, also while the handler still works.    *)
(***************************************************************************)
EXTENDS Naturals, Sequences, FiniteSets, SequencesExt

CONSTANTS
    Apps,
    BuildIds,
    MaxDeploymentsPerDay,  \* quotas.max_deployments_per_day
    MaxCommits,            \* pushes to the branch that is built
    MaxRedeliveries,       \* redeliveries although the consumer is up
    MaxFaults,             \* publishes and transactions that fail
    MaxFailedBuilds,       \* clones, builds and pushes that fail
    MaxRestarts            \* restarts of the apiserver and of the image builder

ASSUME BuildsAssumption ==
    {MaxDeploymentsPerDay, MaxCommits, MaxRedeliveries, MaxFaults, MaxFailedBuilds, MaxRestarts}
       \subseteq Nat

VARIABLES
    live,         \* applications that have not been deleted
    branch,       \* the commit the branch is at
    builds,       \* the builds table
    requests,     \* handleGitDeploy after its transaction
    requestQ,     \* build.requested, not acked
    builder,      \* the build in progress
    completedQ,   \* build.completed, not acked
    completing,   \* handleBuildCompleted after its transaction
    deployments,  \* the deployments table in the order of creation
    order,        \* history: the builds in the order they were requested
    again,        \* history: builds one of whose messages was delivered again
    lost,         \* history: builds whose request or outcome was dropped
    budget

rows == <<live, builds, deployments>>
history == <<order, again, lost>>
vars == <<rows, branch, requests, requestQ, builder, completedQ, completing, history, budget>>

NoImage == [app |-> {}, commit |-> 0]
\* imageRepositoryFor(application) : the commit the clone resolved
ImageOf(app, commit) == [app |-> {app}, commit |-> commit]
Images == [app : {{}} \cup {{a} : a \in Apps}, commit : 0..MaxCommits]
NoBuild == [status |-> "none", app |-> {}, image |-> NoImage]
BuilderIdle == [at |-> "idle", image |-> NoImage]

TypeOK ==
    /\ live \in SUBSET Apps
    /\ branch \in 0..MaxCommits
    /\ builds \in [BuildIds -> [status : {"none", "pending", "succeeded", "failed", "deleted"},
                                app : SUBSET Apps, image : Images]]
    /\ requests \in [BuildIds -> {"none", "publish", "fail"}]
    /\ requestQ \in Seq(BuildIds)
    /\ builder \in [at : {"idle", "build", "push", "succeeded", "failed"}, image : Images]
    /\ completedQ \in Seq([build : BuildIds, status : {"succeeded", "failed"}, image : Images])
    /\ completing \in {"idle", "publish", "fail", "done"}
    /\ deployments \in Seq([build : BuildIds, app : Apps, image : Images,
                            status : {"pending", "failed", "deleted"}])
    /\ order \in Seq(BuildIds)
    /\ again \in SUBSET BuildIds
    /\ lost \in SUBSET BuildIds

Init ==
    /\ live = Apps
    /\ branch = 0
    /\ builds = [b \in BuildIds |-> NoBuild]
    /\ requests = [b \in BuildIds |-> "none"]
    /\ requestQ = <<>>
    /\ builder = BuilderIdle
    /\ completedQ = <<>>
    /\ completing = "idle"
    /\ deployments = <<>>
    /\ order = <<>>
    /\ again = {}
    /\ lost = {}
    /\ budget = [redeliveries |-> MaxRedeliveries, faults |-> MaxFaults,
                 failedBuilds |-> MaxFailedBuilds, restarts |-> MaxRestarts]

Spend(what) == budget[what] > 0 /\ budget' = [budget EXCEPT ![what] = @ - 1]

Existing(b) == builds[b].status \in {"pending", "succeeded", "failed"}

-----------------------------------------------------------------------------
(* The apiserver's git deploy *)

\* handleGitDeploy's transaction, with the daily quota checked at request time.
RequestBuild(b, app) ==
    /\ builds[b].status = "none" /\ app \in live
    /\ Cardinality({i \in DOMAIN deployments : deployments[i].status # "deleted"}) < MaxDeploymentsPerDay
    /\ builds' = [builds EXCEPT ![b] = [status |-> "pending", app |-> {app}, image |-> NoImage]]
    /\ requests' = [requests EXCEPT ![b] = "publish"]
    /\ UNCHANGED <<live, deployments, branch, requestQ, builder, completedQ, completing, history, budget>>

PublishBuildRequested(b) ==
    /\ requests[b] = "publish"
    /\ \/ /\ requestQ' = Append(requestQ, b)
          /\ order' = Append(order, b)
          /\ requests' = [requests EXCEPT ![b] = "none"]
          /\ UNCHANGED budget
       \/ /\ Spend("faults")
          /\ requests' = [requests EXCEPT ![b] = "fail"]
          /\ UNCHANGED <<requestQ, order>>
    /\ UNCHANGED <<rows, branch, builder, completedQ, completing, again, lost>>

\* UpdateResult; a build that is gone stays gone.
UpdateResult(b, status, image) ==
    builds' = IF Existing(b) THEN [builds EXCEPT ![b].status = status, ![b].image = image] ELSE builds

\* Mutation of RecordPublishFailure: the error is only reported to the client.
ReportPublishFailure(b) ==
    /\ requests[b] = "fail"
    /\ requests' = [requests EXCEPT ![b] = "none"]
    /\ UNCHANGED <<rows, branch, requestQ, builder, completedQ, completing, history, budget>>

RecordPublishFailure(b) ==
    /\ requests[b] = "fail"
    /\ UpdateResult(b, "failed", NoImage)
    /\ requests' = [requests EXCEPT ![b] = "none"]
    /\ UNCHANGED <<live, deployments, branch, requestQ, builder, completedQ, completing, history, budget>>

\* handleDeleteApplication's cascade, as far as builds are concerned.
DeleteApplication(app) ==
    /\ app \in live
    /\ live' = live \ {app}
    /\ builds' = [b \in BuildIds |-> IF builds[b].app = {app} THEN [builds[b] EXCEPT !.status = "deleted"]
                                     ELSE builds[b]]
    /\ deployments' = [i \in DOMAIN deployments |->
          IF deployments[i].app = app THEN [deployments[i] EXCEPT !.status = "deleted"]
          ELSE deployments[i]]
    /\ UNCHANGED <<branch, requests, requestQ, builder, completedQ, completing, history, budget>>


-----------------------------------------------------------------------------
(* The image builder *)

\* Somebody pushes to the branch.
PushCommit ==
    /\ branch < MaxCommits
    /\ branch' = branch + 1
    /\ UNCHANGED <<rows, requests, requestQ, builder, completedQ, completing, history, budget>>

builderOnly == <<rows, branch, requests, completing, order, again>>

\* Mutation of Turn: requests are handled concurrently.
AnyTurn == DOMAIN requestQ
Turn == {1}

\* The next message is taken; it stays in the queue until it is acked.  cloneRepo
\* resolves the branch to a commit, which becomes the image's tag.
CloneRepo ==
    /\ builder.at = "idle" /\ requestQ # <<>>
    /\ \E i \in Turn :
          /\ requestQ' = <<requestQ[i]>> \o RemoveAt(requestQ, i)
          /\ \/ /\ \E app \in builds[requestQ[i]].app :
                      builder' = [at |-> "build", image |-> ImageOf(app, branch)]
                /\ UNCHANGED budget
             \/ builder' = [at |-> "failed", image |-> NoImage] /\ Spend("failedBuilds")
    /\ UNCHANGED <<builderOnly, completedQ, lost>>

\* ImageBuild and ImagePush, each with its stream drained for errors.
BuildStage(from, to) ==
    /\ builder.at = from
    /\ \/ builder' = [builder EXCEPT !.at = to] /\ UNCHANGED budget
       \/ builder' = [at |-> "failed", image |-> NoImage] /\ Spend("failedBuilds")
    /\ UNCHANGED <<builderOnly, requestQ, completedQ, lost>>

BuildImage == BuildStage("build", "push")
PushImage == BuildStage("push", "succeeded")

\* Mutation of Outcome: the stage that ended the build is reported.
OutcomeStage(b) == [build |-> b, status |-> IF builder.image = NoImage THEN "error" ELSE builder.at,
                    image |-> builder.image]
Outcome(b) == [build |-> b, status |-> builder.at, image |-> builder.image]

\* The outcome is published, or the error logged, and the request acked.
PublishCompleted ==
    /\ builder.at \in {"succeeded", "failed"}
    /\ LET b == Head(requestQ) IN
          \/ /\ completedQ' = Append(completedQ, Outcome(b))
             /\ UNCHANGED <<lost, budget>>
          \/ /\ Spend("faults")
             /\ lost' = lost \cup {b}
             /\ UNCHANGED completedQ
    /\ requestQ' = Tail(requestQ)
    /\ builder' = BuilderIdle
    /\ UNCHANGED builderOnly

-----------------------------------------------------------------------------
(* The apiserver's consumer of build.completed *)

RecordDeployment(b, image) ==
    \E app \in builds[b].app :
       deployments' = Append(deployments,
          [build |-> b, app |-> app, image |-> image, status |-> "pending"])

\* Mutation of CompleteTx: the result and the deployment are not one transaction.
CompletePartly ==
    /\ completing = "idle" /\ completedQ # <<>>
    /\ LET m == Head(completedQ) IN
          /\ Existing(m.build)
          /\ UpdateResult(m.build, m.status, m.image)
          /\ \/ m.status = "succeeded" /\ RecordDeployment(m.build, m.image) /\ completing' = "publish"
             \/ UNCHANGED deployments /\ completing' = "done"
    /\ UNCHANGED <<live, branch, requests, requestQ, builder, completedQ, history, budget>>

\* handleBuildCompleted's transaction.  A build that is gone, and an error, which
\* rolls everything back, are only logged.
CompleteTx ==
    /\ completing = "idle" /\ completedQ # <<>>
    /\ LET m == Head(completedQ) IN
          \/ /\ Existing(m.build)
             /\ UpdateResult(m.build, m.status, m.image)
             /\ \/ m.status = "succeeded" /\ RecordDeployment(m.build, m.image) /\ completing' = "publish"
                \/ m.status = "failed" /\ UNCHANGED deployments /\ completing' = "done"
             /\ UNCHANGED <<lost, budget>>
          \/ /\ ~Existing(m.build)
             /\ completing' = "done"
             /\ UNCHANGED <<builds, deployments, lost, budget>>
          \/ /\ Existing(m.build) /\ Spend("faults")
             /\ completing' = "done"
             /\ lost' = lost \cup {m.build}
             /\ UNCHANGED <<builds, deployments>>
    /\ UNCHANGED <<live, branch, requests, requestQ, builder, completedQ, order, again>>

\* publishPlacement; what becomes of the placement is the module Platform's.
PublishPlacement ==
    /\ completing = "publish"
    /\ \/ completing' = "done" /\ UNCHANGED budget
       \/ completing' = "fail" /\ Spend("faults")
    /\ UNCHANGED <<rows, branch, requests, requestQ, builder, completedQ, history>>

\* Mutation of RecordDeployFailure: the error is returned, and the message naked.
DeployFailureNaks ==
    /\ completing = "fail"
    /\ completing' = "idle"
    /\ UNCHANGED <<rows, branch, requests, requestQ, builder, completedQ, history, budget>>

\* The deployment just created, the latest of this build, is marked failed.
RecordDeployFailure ==
    /\ completing = "fail"
    /\ deployments' = [deployments EXCEPT ![Len(deployments)].status =
                          IF @ = "deleted" THEN @ ELSE "failed"]
    /\ completing' = "done"
    /\ UNCHANGED <<live, builds, branch, requests, requestQ, builder, completedQ, history, budget>>

AckCompleted ==
    /\ completing = "done"
    /\ completedQ' = Tail(completedQ)
    /\ completing' = "idle"
    /\ UNCHANGED <<rows, branch, requests, requestQ, builder, history, budget>>

-----------------------------------------------------------------------------
(* Delivery *)

\* AckWait passed for a message that waits, or is being handled.
RedeliverRequest(i) ==
    /\ Spend("redeliveries")
    /\ requestQ' = Append(requestQ, requestQ[i])
    /\ again' = again \cup {requestQ[i]}
    /\ UNCHANGED <<rows, branch, requests, builder, completedQ, completing, order, lost>>

RedeliverCompleted(i) ==
    /\ Spend("redeliveries")
    /\ completedQ' = Append(completedQ, completedQ[i])
    /\ again' = again \cup {completedQ[i].build}
    /\ UNCHANGED <<rows, branch, requests, requestQ, builder, completing, order, lost>>

\* After a restart unacked messages come again, after others perhaps.
Rotated(q) == {q, IF q = <<>> THEN q ELSE Append(Tail(q), Head(q))}

BuilderRestart ==
    /\ Spend("restarts")
    /\ builder' = BuilderIdle
    /\ requestQ' \in Rotated(requestQ)
    /\ again' = again \cup ToSet(requestQ)
    /\ UNCHANGED <<rows, branch, requests, completedQ, completing, order, lost>>

\* Requests between their transaction and their publish are never published.
ApiRestart ==
    /\ Spend("restarts")
    /\ requests' = [b \in BuildIds |-> "none"]
    /\ lost' = lost \cup {b \in BuildIds : requests[b] # "none"}
    /\ completing' = "idle"
    /\ completedQ' \in Rotated(completedQ)
    /\ again' = again \cup {m.build : m \in ToSet(completedQ)}
    /\ UNCHANGED <<rows, branch, requestQ, builder, order>>

-----------------------------------------------------------------------------
BuilderStep == CloneRepo \/ BuildImage \/ PushImage \/ PublishCompleted
ConsumerStep == CompleteTx \/ PublishPlacement \/ RecordDeployFailure \/ AckCompleted
RequestStep(b) == PublishBuildRequested(b) \/ RecordPublishFailure(b)

Next ==
    \/ \E b \in BuildIds : RequestStep(b) \/ \E app \in Apps : RequestBuild(b, app)
    \/ \E app \in Apps : DeleteApplication(app)
    \/ PushCommit
    \/ BuilderStep
    \/ ConsumerStep
    \/ \E i \in DOMAIN requestQ : RedeliverRequest(i)
    \/ \E i \in DOMAIN completedQ : RedeliverCompleted(i)
    \/ BuilderRestart \/ ApiRestart

Spec == Init /\ [][Next]_vars

\* A handler with a message or a request takes its next step.
FairSpec ==
    /\ Spec
    /\ WF_vars(BuilderStep) /\ WF_vars(ConsumerStep)
    /\ \A b \in BuildIds : WF_vars(RequestStep(b))

-----------------------------------------------------------------------------
\* A build shows as succeeded only if the image it names was deployed, whatever
\* is redelivered and wherever a step fails: result and deployment are one
\* transaction.
SucceededBuildDeployed ==
    \A b \in BuildIds :
       builds[b].status = "succeeded" =>
          \E i \in DOMAIN deployments : /\ deployments[i].build = b
                                        /\ deployments[i].image = builds[b].image
                                        /\ deployments[i].status # "deleted"

\* A build is deployed at most once unless one of its messages came twice; in
\* particular a failed placement does not make it come again.
DeployedOnceUnlessRedelivered ==
    \A i, j \in DOMAIN deployments :
       deployments[i].build = deployments[j].build /\ i # j => deployments[i].build \in again

\* Builds are deployed in the order they were requested, so the latest revision is
\* of the latest request, except when messages are delivered again.
DeployedInOrder ==
    \A i, j \in DOMAIN deployments :
       LET b == deployments[i].build
           c == deployments[j].build
       IN  i < j /\ b # c /\ {b, c} \cap again = {} =>
              \E k, l \in DOMAIN order : k < l /\ order[k] = b /\ order[l] = c

\* A build that was recorded ends, or is deleted, unless a fault dropped its
\* request or its outcome; a crash of the image builder alone drops nothing.
BuildEnds ==
    \A b \in BuildIds :
       builds[b].status = "pending" ~> builds[b].status # "pending" \/ b \in lost

=============================================================================
