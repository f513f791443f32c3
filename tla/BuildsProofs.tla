----------------------------- MODULE BuildsProofs -----------------------------
(***************************************************************************)
(* Proofs about deploying from git, for any number of applications, builds *)
(* and faults.                                                             *)
(*                                                                         *)
(* A build travels from requestQ over completedQ to deployments.  Read as  *)
(* one line, deployments first and requestQ last, the builds that were     *)
(* never redelivered stand in it once each and in the order of their       *)
(* requests: every step moves the head of one queue to the end of the next *)
(* place, or puts something into the line that counts as redelivered.      *)
(***************************************************************************)
EXTENDS Builds, TLAPS

\* A handler that works has its message at the head of the queue.
HandlersHold ==
    /\ builder.at # "idle" => requestQ # <<>>
    /\ completing # "idle" => completedQ # <<>>

\* A row that was created belongs to one application, and its deployments to the same.
OneApplication ==
    /\ \A b \in BuildIds : IF builds[b].status = "none" THEN builds[b].app = {}
                           ELSE \E app \in Apps : builds[b].app = {app}
    /\ \A i \in 1..Len(deployments) : builds[deployments[i].build].app = {deployments[i].app}

InOrder(b) == \E k \in 1..Len(order) : order[k] = b
Before(b, c) == \E k, l \in 1..Len(order) : k < l /\ order[k] = b /\ order[l] = c

\* What is under way was requested; what is still to be requested is not under way.
Requested ==
    /\ \A i \in 1..Len(requestQ) : InOrder(requestQ[i])
    /\ \A i \in 1..Len(completedQ) : InOrder(completedQ[i].build)
    /\ \A i \in 1..Len(deployments) : InOrder(deployments[i].build)
    /\ \A b \in BuildIds : /\ requests[b] # "none" => ~InOrder(b)
                           /\ builds[b].status = "none" => requests[b] = "none" /\ ~InOrder(b)

\* b stands before c in the line.
Ordered(b, c) == b \notin again /\ c \notin again => b # c /\ Before(b, c)

\* The outcomes without the one that is being completed.
Waiting == {i \in 1..Len(completedQ) : i > 1 \/ completing = "idle"}

Line ==
    /\ \A i, j \in 1..Len(deployments) : i < j => Ordered(deployments[i].build, deployments[j].build)
    /\ \A i \in 1..Len(deployments), j \in Waiting : Ordered(deployments[i].build, completedQ[j].build)
    /\ \A i \in 1..Len(deployments), j \in 1..Len(requestQ) : Ordered(deployments[i].build, requestQ[j])
    /\ \A i, j \in Waiting : i < j => Ordered(completedQ[i].build, completedQ[j].build)
    /\ \A i \in Waiting, j \in 1..Len(requestQ) : Ordered(completedQ[i].build, requestQ[j])
    /\ \A i, j \in 1..Len(requestQ) : i < j => Ordered(requestQ[i], requestQ[j])

Inv == TypeOK /\ HandlersHold /\ OneApplication /\ SucceededBuildDeployed /\ Requested /\ Line

Message == [build : BuildIds, status : {"succeeded", "failed"}, image : Images]
Deployment == [build : BuildIds, app : Apps, image : Images, status : {"pending", "failed", "deleted"}]
BuildRow == [status : {"none", "pending", "succeeded", "failed", "deleted"},
             app : SUBSET Apps, image : Images]

-----------------------------------------------------------------------------
(* Queues and history *)

\* Publishing appends.
LEMMA Appended ==
    ASSUME NEW S, NEW q \in Seq(S), NEW x \in S
    PROVE  /\ Append(q, x) \in Seq(S) /\ Append(q, x) # <<>>
           /\ Len(Append(q, x)) = Len(q) + 1 /\ Len(q) \in Nat
           /\ \A i \in 1..Len(q) : Append(q, x)[i] = q[i]
           /\ Append(q, x)[Len(q) + 1] = x
<1>1. /\ Append(q, x) \in Seq(S)
      /\ Len(Append(q, x)) = Len(q) + 1 /\ Len(q) \in Nat
      /\ \A i \in 1..Len(q) : Append(q, x)[i] = q[i]
      /\ Append(q, x)[Len(q) + 1] = x
    OBVIOUS
<1> QED
    BY <1>1

\* Acking takes the head away.
LEMMA Acked ==
    ASSUME NEW S, NEW q \in Seq(S), q # <<>>
    PROVE  /\ Tail(q) \in Seq(S) /\ Head(q) \in S /\ Head(q) = q[1] /\ 1 \in 1..Len(q)
           /\ Len(q) \in Nat /\ Len(Tail(q)) = Len(q) - 1
           /\ \A i \in 1..Len(Tail(q)) : i + 1 \in 1..Len(q) /\ Tail(q)[i] = q[i + 1]
  OBVIOUS

\* Taking the first message leaves the queue as it is.
LEMMA TakenFirst ==
    ASSUME NEW S, NEW q \in Seq(S), q # <<>>
    PROVE  <<q[1]>> \o RemoveAt(q, 1) = q
<1>1. Len(q) \in Nat \ {0} /\ \A i \in 1..Len(q) : q[i] \in S
    OBVIOUS
<1>2. SubSeq(q, 1, 0) = <<>>
    OBVIOUS
<1>3. SubSeq(q, 2, Len(q)) \in Seq(S) /\ SubSeq(q, 2, Len(q)) = Tail(q)
    BY <1>1
<1>4. RemoveAt(q, 1) = Tail(q)
    BY <1>2, <1>3 DEF RemoveAt
<1>5. <<q[1]>> \o Tail(q) = q
    BY <1>1
<1> QED
    BY <1>4, <1>5

\* Messages that come again after a restart are those that were not acked.
LEMMA RotatedQueue ==
    ASSUME NEW S, NEW q \in Seq(S), NEW r \in Rotated(q)
    PROVE  /\ r \in Seq(S) /\ Len(r) = Len(q)
           /\ \A i \in 1..Len(r) : \E j \in 1..Len(q) : r[i] = q[j]
           /\ q # <<>> => r # <<>>
<1>1. CASE r = q
    BY <1>1
<1>2. CASE q # <<>> /\ r = Append(Tail(q), Head(q))
  <2>1. /\ Tail(q) \in Seq(S) /\ Head(q) \in S /\ Head(q) = q[1] /\ 1 \in 1..Len(q)
        /\ Len(q) \in Nat /\ Len(Tail(q)) = Len(q) - 1
        /\ \A i \in 1..Len(Tail(q)) : i + 1 \in 1..Len(q) /\ Tail(q)[i] = q[i + 1]
    BY <1>2, Acked
  <2>2. /\ r \in Seq(S) /\ r # <<>> /\ Len(r) = Len(q)
        /\ \A i \in 1..Len(Tail(q)) : r[i] = Tail(q)[i]
        /\ r[Len(q)] = q[1]
    BY <1>2, <2>1, Appended
  <2>3. ASSUME NEW i \in 1..Len(r) PROVE \E j \in 1..Len(q) : r[i] = q[j]
    <3>1. CASE i = Len(q)
      BY <2>1, <2>2, <3>1
    <3>2. CASE i \in 1..Len(Tail(q))
      BY <2>1, <2>2, <3>2
    <3>3. i \in 1..Len(q) /\ Len(Tail(q)) = Len(q) - 1 /\ Len(q) \in Nat
      BY <2>1, <2>2
    <3> QED
      BY <3>1, <3>2, <3>3
  <2> QED
    BY <2>2, <2>3
<1> QED
    BY <1>1, <1>2 DEF Rotated

\* The members of a queue.
LEMMA Members ==
    ASSUME NEW S, NEW q \in Seq(S)
    PROVE  ToSet(q) \subseteq S /\ \A i \in 1..Len(q) : q[i] \in ToSet(q)
  BY DEF ToSet

\* The history only grows.
Grown == again \subseteq again' /\ (order' = order \/ \E b \in BuildIds : order' = Append(order, b))

\* What the history says of two builds, a longer history still says.
LEMMA HistoryKept ==
    ASSUME order \in Seq(BuildIds), Grown
    PROVE  /\ \A b : InOrder(b) => InOrder(b)'
           /\ \A b, c : Before(b, c) => Before(b, c)'
           /\ \A b, c : Ordered(b, c) => Ordered(b, c)'
<1>1. CASE order' = order
    BY <1>1 DEF Grown, InOrder, Before, Ordered
<1>2. ASSUME NEW x \in BuildIds, order' = Append(order, x)
      PROVE  /\ \A b : InOrder(b) => InOrder(b)'
             /\ \A b, c : Before(b, c) => Before(b, c)'
             /\ \A b, c : Ordered(b, c) => Ordered(b, c)'
  <2>1. /\ Len(order') = Len(order) + 1 /\ Len(order) \in Nat
        /\ \A i \in 1..Len(order) : i \in 1..Len(order') /\ order'[i] = order[i]
    BY <1>2, Appended
  <2>2. \A b : InOrder(b) => InOrder(b)'
    BY <2>1 DEF InOrder
  <2>3. \A b, c : Before(b, c) => Before(b, c)'
    BY <2>1 DEF Before
  <2> QED
    BY <2>2, <2>3 DEF Grown, Ordered
<1> QED
    BY <1>1, <1>2 DEF Grown

\* A step that leaves the queues alone, and of the deployments at most the
\* status, leaves the line as it is; one that takes up an outcome shortens it.
LEMMA LineKept ==
    ASSUME TypeOK, Line, Grown, UNCHANGED <<requestQ, completedQ>>, Waiting' \subseteq Waiting,
           Len(deployments') = Len(deployments),
           \A i \in 1..Len(deployments) : deployments'[i].build = deployments[i].build
    PROVE  Line'
<1>1. \A b, c : Ordered(b, c) => Ordered(b, c)'
    BY HistoryKept DEF TypeOK
<1> QED
    BY <1>1 DEF Line

\* In the same steps nothing new is under way.
LEMMA RequestedKept ==
    ASSUME TypeOK, Requested, UNCHANGED order,
           \A i \in 1..Len(requestQ') : \E j \in 1..Len(requestQ) : requestQ'[i] = requestQ[j],
           \A i \in 1..Len(completedQ') : InOrder(completedQ'[i].build),
           \A i \in 1..Len(deployments') : InOrder(deployments'[i].build),
           \A b \in BuildIds : requests'[b] # "none" => requests[b] # "none" \/ builds[b].status = "none",
           \A b \in BuildIds : builds'[b].status = "none" => builds[b].status = "none" /\ requests'[b] = requests[b]
    PROVE  Requested'
<1>1. \A b : InOrder(b)' <=> InOrder(b)
    BY DEF InOrder
<1> QED
    BY <1>1 DEF Requested

\* The rows and the messages have their types.
LEMMA Types ==
    ASSUME TypeOK
    PROVE  /\ builds \in [BuildIds -> BuildRow] /\ requests \in [BuildIds -> {"none", "publish", "fail"}]
           /\ deployments \in Seq(Deployment) /\ completedQ \in Seq(Message)
           /\ requestQ \in Seq(BuildIds) /\ order \in Seq(BuildIds)
           /\ Len(deployments) \in Nat /\ Len(completedQ) \in Nat /\ Len(requestQ) \in Nat
           /\ \A i \in 1..Len(deployments) :
                 /\ deployments[i] \in Deployment
                 /\ deployments[i].build \in BuildIds /\ deployments[i].app \in Apps
           /\ \A i \in 1..Len(completedQ) : completedQ[i] \in Message /\ completedQ[i].build \in BuildIds
<1>1. /\ builds \in [BuildIds -> BuildRow] /\ requests \in [BuildIds -> {"none", "publish", "fail"}]
      /\ deployments \in Seq(Deployment) /\ completedQ \in Seq(Message)
      /\ requestQ \in Seq(BuildIds) /\ order \in Seq(BuildIds)
    BY DEF TypeOK, BuildRow, Deployment, Message
<1>2. /\ \A i \in 1..Len(deployments) : deployments[i] \in Deployment
      /\ \A i \in 1..Len(completedQ) : completedQ[i] \in Message
      /\ Len(deployments) \in Nat /\ Len(completedQ) \in Nat /\ Len(requestQ) \in Nat
    BY <1>1
<1>3. /\ \A d \in Deployment : d.build \in BuildIds /\ d.app \in Apps
      /\ \A m \in Message : m.build \in BuildIds
    BY DEF Deployment, Message
<1> QED
    BY <1>1, <1>2, <1>3

-----------------------------------------------------------------------------
(* The apiserver's git deploy *)

\* No builds, no messages and idle services satisfy Inv.
LEMMA InitInv == Init => Inv
<1> SUFFICES ASSUME Init PROVE Inv
    OBVIOUS
<1>1. NoImage \in Images /\ NoBuild \in BuildRow /\ BuilderIdle.at = "idle"
      /\ BuilderIdle \in [at : {"idle", "build", "push", "succeeded", "failed"}, image : Images]
    BY BuildsAssumption DEF NoImage, Images, NoBuild, BuildRow, BuilderIdle
<1>2. TypeOK
    BY <1>1, BuildsAssumption DEF Init, TypeOK, BuildRow
<1>3. HandlersHold /\ OneApplication /\ SucceededBuildDeployed
    BY <1>1 DEF Init, HandlersHold, OneApplication, SucceededBuildDeployed, NoBuild
<1>4. Requested
    BY DEF Init, Requested, InOrder
<1>5. Line
    BY DEF Init, Line, Waiting
<1> QED
    BY <1>2, <1>3, <1>4, <1>5 DEF Inv

\* A new build: nothing refers to it yet.
LEMMA RequestBuildKeeps ==
    ASSUME Inv, NEW b \in BuildIds, NEW app \in Apps, RequestBuild(b, app)
    PROVE  Inv'
<1> USE DEF history
<1>1. /\ TypeOK /\ builds \in [BuildIds -> BuildRow] /\ requests \in [BuildIds -> {"none", "publish", "fail"}]
      /\ deployments \in Seq(Deployment)
      /\ \A i \in 1..Len(deployments) : deployments[i] \in Deployment
    BY Types DEF Inv
<1>2. NoImage \in Images
    BY BuildsAssumption DEF NoImage, Images
<1>3. TypeOK'
    BY <1>1, <1>2 DEF TypeOK, RequestBuild, BuildRow
<1>4. \A i \in 1..Len(deployments) : deployments[i].build # b
    BY DEF Inv, OneApplication, RequestBuild
<1>5. OneApplication'
    BY <1>1, <1>4 DEF Inv, OneApplication, RequestBuild, Deployment
<1>6. SucceededBuildDeployed'
    BY <1>1, <1>4 DEF Inv, SucceededBuildDeployed, RequestBuild
<1>7. Requested'
    BY <1>1, RequestedKept DEF Inv, RequestBuild, Requested
<1>8. Line'
    BY <1>1, LineKept DEF Inv, RequestBuild, Grown, Waiting
<1>9. HandlersHold'
    BY DEF Inv, HandlersHold, RequestBuild
<1> QED
    BY <1>3, <1>5, <1>6, <1>7, <1>8, <1>9 DEF Inv

\* The request enters the line at its end.
LEMMA PublishBuildRequestedKeeps ==
    ASSUME Inv, NEW b \in BuildIds, PublishBuildRequested(b)
    PROVE  Inv'
<1> USE DEF rows
<1>1. /\ TypeOK /\ requests \in [BuildIds -> {"none", "publish", "fail"}]
      /\ requestQ \in Seq(BuildIds) /\ order \in Seq(BuildIds)
      /\ requests[b] # "none" /\ ~InOrder(b)
    BY DEF Inv, TypeOK, PublishBuildRequested, Requested
<1>2. CASE /\ requestQ' = Append(requestQ, b) /\ order' = Append(order, b)
           /\ requests' = [requests EXCEPT ![b] = "none"]
  <2>1. /\ requestQ' \in Seq(BuildIds) /\ requestQ' # <<>> /\ Len(requestQ') = Len(requestQ) + 1
        /\ Len(requestQ) \in Nat
        /\ \A i \in 1..Len(requestQ) : requestQ'[i] = requestQ[i]
        /\ requestQ'[Len(requestQ) + 1] = b
    BY <1>1, <1>2, Appended
  <2>2. /\ order' \in Seq(BuildIds) /\ Len(order') = Len(order) + 1 /\ Len(order) \in Nat
        /\ \A i \in 1..Len(order) : order'[i] = order[i]
        /\ order'[Len(order) + 1] = b
    BY <1>1, <1>2, Appended
  <2>3. TypeOK'
    BY <1>1, <1>2, <2>1, <2>2 DEF TypeOK, PublishBuildRequested
  <2>4. Grown
    BY <1>2 DEF Grown, PublishBuildRequested
  <2>5. /\ \A c : InOrder(c) => InOrder(c)' /\ (c # b => Before(c, b)')
        /\ \A c : InOrder(c)' => InOrder(c) \/ c = b
        /\ InOrder(b)'
    BY <2>2 DEF InOrder, Before
  <2>6. Requested'
    <3>0. \A i \in 1..Len(requestQ') : i \in 1..Len(requestQ) \/ i = Len(requestQ) + 1
      BY <2>1
    <3>1. \A c : (\E i \in 1..Len(requestQ') : c = requestQ'[i]) => InOrder(c)'
      BY <2>1, <2>5, <3>0 DEF Inv, Requested
    <3>2. \A c : (\E i \in 1..Len(completedQ') : c = completedQ'[i].build) => InOrder(c)'
      BY <2>5 DEF Inv, Requested, PublishBuildRequested
    <3>3. \A c : (\E i \in 1..Len(deployments') : c = deployments'[i].build) => InOrder(c)'
      BY <2>5 DEF Inv, Requested, PublishBuildRequested
    <3>4. \A c \in BuildIds : requests'[c] # "none" => ~InOrder(c)'
      BY <1>1, <1>2, <2>5 DEF Inv, Requested
    <3>5. \A c \in BuildIds : builds'[c].status = "none" => requests'[c] = "none" /\ ~InOrder(c)'
      BY <1>1, <1>2, <2>5 DEF Inv, Requested, PublishBuildRequested
    <3> QED
      BY <3>1, <3>2, <3>3, <3>4, <3>5 DEF Requested
  <2>7. Line'
    <3>1. \A c, d : Ordered(c, d) => Ordered(c, d)'
      BY <1>1, <2>4, HistoryKept
    <3>2. \A c : InOrder(c) => Ordered(c, b)'
      BY <1>1, <2>5 DEF Ordered
    <3>3. Waiting' = Waiting
      BY DEF Waiting, PublishBuildRequested
    <3>4. \A c : \/ \E i \in 1..Len(deployments) : c = deployments[i].build
                 \/ \E i \in Waiting : c = completedQ[i].build
                 \/ \E i \in 1..Len(requestQ) : c = requestQ[i]
                 => Ordered(c, b)'
      BY <3>2 DEF Inv, Requested, Waiting
    <3>5. UNCHANGED <<deployments, completedQ>>
      BY DEF PublishBuildRequested
    <3>6. \A i \in 1..Len(requestQ') : i \in 1..Len(requestQ) \/ i = Len(requestQ) + 1
      BY <2>1
    <3> QED
      BY <2>1, <3>1, <3>3, <3>4, <3>5, <3>6 DEF Inv, Line
  <2> QED
    BY <2>1, <2>3, <2>6, <2>7
    DEF Inv, HandlersHold, OneApplication, SucceededBuildDeployed, PublishBuildRequested
<1>3. CASE requests' = [requests EXCEPT ![b] = "fail"] /\ UNCHANGED <<requestQ, order>>
  <2>1. TypeOK'
    BY <1>1, <1>3 DEF TypeOK, PublishBuildRequested
  <2>2. Requested'
    BY <1>1, <1>3, RequestedKept DEF Inv, PublishBuildRequested, Requested
  <2>3. Line'
    BY <1>1, <1>3, LineKept DEF Inv, PublishBuildRequested, Grown, Waiting
  <2> QED
    BY <1>3, <2>1, <2>2, <2>3
    DEF Inv, HandlersHold, OneApplication, SucceededBuildDeployed, PublishBuildRequested
<1> QED
    BY <1>2, <1>3 DEF PublishBuildRequested

\* The result of a build that exists is recorded.
LEMMA Updated ==
    ASSUME TypeOK, OneApplication, NEW b \in BuildIds, NEW status \in {"succeeded", "failed"},
           NEW image \in Images, UpdateResult(b, status, image)
    PROVE  /\ builds' \in [BuildIds -> BuildRow]
           /\ \A c \in BuildIds : builds'[c].app = builds[c].app
           /\ \A c \in BuildIds : builds'[c].status = "none" <=> builds[c].status = "none"
           /\ \A c \in BuildIds : builds'[c] # builds[c] => c = b
           /\ Existing(b) => builds'[b].status = status /\ builds'[b].image = image
           /\ ~Existing(b) => builds' = builds
<1>1. builds \in [BuildIds -> BuildRow]
    BY DEF TypeOK, BuildRow
<1> QED
    BY <1>1 DEF UpdateResult, Existing, BuildRow

\* A request that was not published fails its build; nobody holds a message of it.
LEMMA RecordPublishFailureKeeps ==
    ASSUME Inv, NEW b \in BuildIds, RecordPublishFailure(b)
    PROVE  Inv'
<1> USE DEF history
<1>1. /\ TypeOK /\ OneApplication /\ requests \in [BuildIds -> {"none", "publish", "fail"}]
      /\ \A i \in 1..Len(deployments) : deployments[i].build \in BuildIds
    BY Types DEF Inv
<1>2. NoImage \in Images
    BY BuildsAssumption DEF NoImage, Images
<1>3. /\ builds' \in [BuildIds -> BuildRow]
      /\ \A c \in BuildIds : builds'[c].app = builds[c].app
      /\ \A c \in BuildIds : builds'[c].status = "none" <=> builds[c].status = "none"
      /\ \A c \in BuildIds : builds'[c] # builds[c] => c = b
      /\ Existing(b) => builds'[b].status = "failed"
      /\ ~Existing(b) => builds' = builds
    BY <1>1, <1>2, Updated DEF RecordPublishFailure
<1>4. TypeOK'
    BY <1>1, <1>3 DEF TypeOK, RecordPublishFailure, BuildRow
<1>5. OneApplication'
    BY <1>1, <1>3 DEF OneApplication, RecordPublishFailure
<1>6. SucceededBuildDeployed'
  <2>1. \A c \in BuildIds : builds'[c].status = "succeeded" => builds'[c] = builds[c]
    BY <1>3
  <2> QED
    BY <2>1 DEF Inv, SucceededBuildDeployed, RecordPublishFailure
<1>7. Requested'
  <2>1. builds[b].status # "none"
    BY DEF Inv, Requested, RecordPublishFailure
  <2> QED
    BY <1>1, <1>3, <2>1, RequestedKept DEF Inv, RecordPublishFailure, Requested
<1>8. Line'
    BY <1>1, LineKept DEF Inv, RecordPublishFailure, Grown, Waiting
<1>9. HandlersHold'
    BY DEF Inv, HandlersHold, RecordPublishFailure
<1> QED
    BY <1>4, <1>5, <1>6, <1>7, <1>8, <1>9 DEF Inv

\* The cascade marks the builds and the deployments of one application.
LEMMA DeleteApplicationKeeps ==
    ASSUME Inv, NEW app \in Apps, DeleteApplication(app)
    PROVE  Inv'
<1> USE DEF history
<1>1. /\ TypeOK /\ builds \in [BuildIds -> BuildRow] /\ deployments \in Seq(Deployment)
      /\ Len(deployments) \in Nat /\ DOMAIN deployments = 1..Len(deployments)
      /\ \A i \in 1..Len(deployments) : /\ deployments[i] \in Deployment
                                        /\ deployments[i].build \in BuildIds
    BY Types DEF Inv
<1>2. /\ deployments' \in Seq(Deployment) /\ Len(deployments') = Len(deployments)
      /\ \A i \in 1..Len(deployments) :
            /\ deployments'[i].build = deployments[i].build /\ deployments'[i].app = deployments[i].app
            /\ deployments'[i].image = deployments[i].image
            /\ deployments[i].app # app => deployments'[i] = deployments[i]
  <2>1. deployments' = [i \in 1..Len(deployments) |->
          IF deployments[i].app = app THEN [deployments[i] EXCEPT !.status = "deleted"] ELSE deployments[i]]
    BY <1>1 DEF DeleteApplication
  <2>2. \A i \in 1..Len(deployments) : deployments'[i] \in Deployment
    BY <1>1, <2>1 DEF Deployment
  <2>3. deployments' \in Seq(Deployment) /\ Len(deployments') = Len(deployments)
    BY <1>1, <2>1, <2>2
  <2> QED
    BY <1>1, <2>1, <2>3 DEF Deployment
<1>3. /\ builds' \in [BuildIds -> BuildRow]
      /\ \A b \in BuildIds : /\ builds'[b].app = builds[b].app /\ builds'[b].image = builds[b].image
                             /\ builds[b].app # {app} => builds'[b] = builds[b]
                             /\ builds[b].app = {app} => builds'[b].status = "deleted"
    BY <1>1 DEF DeleteApplication, BuildRow
<1>4. TypeOK'
    BY <1>1, <1>2, <1>3 DEF TypeOK, DeleteApplication, BuildRow, Deployment
<1>5. OneApplication'
  <2>1. \A b \in BuildIds : IF builds'[b].status = "none" THEN builds'[b].app = {}
                            ELSE \E a \in Apps : builds'[b].app = {a}
    BY <1>3 DEF Inv, OneApplication
  <2>2. \A i \in 1..Len(deployments) : builds'[deployments'[i].build].app = {deployments'[i].app}
    BY <1>1, <1>2, <1>3 DEF Inv, OneApplication
  <2> QED
    BY <1>2, <2>1, <2>2 DEF OneApplication
<1>6. SucceededBuildDeployed'
  <2> SUFFICES ASSUME NEW b \in BuildIds, builds'[b].status = "succeeded"
               PROVE  \E i \in DOMAIN deployments' : /\ deployments'[i].build = b
                                                     /\ deployments'[i].image = builds'[b].image
                                                     /\ deployments'[i].status # "deleted"
    BY DEF SucceededBuildDeployed
  <2>1. builds'[b] = builds[b] /\ builds[b].app # {app}
    BY <1>3
  <2>2. PICK i \in 1..Len(deployments) : /\ deployments[i].build = b
                                         /\ deployments[i].image = builds[b].image
                                         /\ deployments[i].status # "deleted"
    BY <1>1, <2>1 DEF Inv, SucceededBuildDeployed
  <2>3. deployments[i].app # app
    BY <2>1, <2>2 DEF Inv, OneApplication
  <2>4. i \in DOMAIN deployments'
    BY <1>2
  <2> QED
    BY <1>2, <2>1, <2>2, <2>3, <2>4
<1>7. Requested'
  <2>1. \A i \in 1..Len(deployments') : InOrder(deployments'[i].build)
    BY <1>2 DEF Inv, Requested
  <2>2. \A b \in BuildIds : builds'[b].status = "none" => builds[b].status = "none"
    BY <1>3
  <2> QED
    BY <1>1, <2>1, <2>2, RequestedKept DEF Inv, DeleteApplication, Requested
<1>8. Line'
    BY <1>1, <1>2, LineKept DEF Inv, DeleteApplication, Grown, Waiting
<1>9. HandlersHold'
    BY DEF Inv, HandlersHold, DeleteApplication
<1> QED
    BY <1>4, <1>5, <1>6, <1>7, <1>8, <1>9 DEF Inv

-----------------------------------------------------------------------------
(* The image builder *)

\* A push to the repository changes what the next clone sees and nothing else.
LEMMA PushCommitKeeps == ASSUME Inv, PushCommit PROVE Inv'
<1> USE DEF rows, history
<1>1. TypeOK /\ TypeOK'
    BY BuildsAssumption DEF Inv, TypeOK, PushCommit
<1>2. Requested'
    BY <1>1, RequestedKept DEF Inv, PushCommit, Requested
<1>3. Line'
    BY <1>1, LineKept DEF Inv, PushCommit, Grown, Waiting
<1> QED
    BY <1>1, <1>2, <1>3
    DEF Inv, HandlersHold, OneApplication, SucceededBuildDeployed, PushCommit

\* Steps of the build itself only change the builder.
LEMMA BuilderOnly ==
    ASSUME Inv, UNCHANGED <<builderOnly, requestQ, completedQ, lost>>, requestQ # <<>>,
           builder' \in [at : {"idle", "build", "push", "succeeded", "failed"}, image : Images]
    PROVE  Inv'
<1> USE DEF builderOnly, rows
<1>1. TypeOK /\ TypeOK'
    BY DEF Inv, TypeOK
<1>2. Requested'
    BY <1>1, RequestedKept DEF Inv, Requested
<1>3. Line'
    BY <1>1, LineKept DEF Inv, Grown, Waiting
<1> QED
    BY <1>1, <1>2, <1>3 DEF Inv, HandlersHold, OneApplication, SucceededBuildDeployed

\* The clone fixes the commit in the handler, whose request is still the head.
LEMMA CloneRepoKeeps == ASSUME Inv, CloneRepo PROVE Inv'
<1>1. requestQ \in Seq(BuildIds) /\ requestQ # <<>> /\ branch \in 0..MaxCommits
      /\ builds \in [BuildIds -> BuildRow] /\ requestQ[1] \in BuildIds
  <2>1. requestQ \in Seq(BuildIds) /\ requestQ # <<>> /\ branch \in 0..MaxCommits
        /\ builds \in [BuildIds -> BuildRow]
    BY Types DEF Inv, TypeOK, CloneRepo
  <2> QED
    BY <2>1, Acked
<1>2. requestQ' = requestQ
    BY <1>1, TakenFirst DEF CloneRepo, Turn
<1>3. builder' \in [at : {"idle", "build", "push", "succeeded", "failed"}, image : Images]
  <2>1. \A app \in Apps : ImageOf(app, branch) \in Images
    BY <1>1 DEF ImageOf, Images
  <2>2. NoImage \in Images
    BY BuildsAssumption DEF NoImage, Images
  <2>3. builds[requestQ[1]].app \subseteq Apps
    BY <1>1 DEF BuildRow
  <2> QED
    BY <2>1, <2>2, <2>3 DEF CloneRepo, Turn
<1> QED
    BY <1>1, <1>2, <1>3, BuilderOnly DEF CloneRepo

\* A stage moves the handler on, or to its failure, with the request still unacked.
LEMMA BuildStageKeeps ==
    ASSUME Inv, NEW from \in {"build", "push"}, NEW to \in {"push", "succeeded"}, BuildStage(from, to)
    PROVE  Inv'
<1>1. NoImage \in Images
    BY BuildsAssumption DEF NoImage, Images
<1>2. builder' \in [at : {"idle", "build", "push", "succeeded", "failed"}, image : Images]
    BY <1>1 DEF BuildStage, Inv, TypeOK
<1>3. requestQ # <<>>
    BY DEF BuildStage, Inv, HandlersHold
<1> QED
    BY <1>2, <1>3, BuilderOnly DEF BuildStage

\* The first request becomes the last outcome: it stays where it was in the line.
LEMMA PublishCompletedKeeps == ASSUME Inv, PublishCompleted PROVE Inv'
<1> USE DEF builderOnly, rows
<1>0. DEFINE b == requestQ[1]
<1>1. /\ TypeOK /\ requestQ \in Seq(BuildIds) /\ requestQ # <<>> /\ completedQ \in Seq(Message)
      /\ Len(completedQ) \in Nat
    BY Types DEF Inv, PublishCompleted, HandlersHold
<1>2. /\ requestQ' \in Seq(BuildIds) /\ b \in BuildIds /\ Head(requestQ) = b /\ 1 \in 1..Len(requestQ)
      /\ Len(requestQ) \in Nat /\ Len(requestQ') = Len(requestQ) - 1
      /\ \A i \in 1..Len(requestQ') : i + 1 \in 1..Len(requestQ) /\ requestQ'[i] = requestQ[i + 1]
    BY <1>1, Acked DEF PublishCompleted
<1>3. BuilderIdle.at = "idle"
      /\ BuilderIdle \in [at : {"idle", "build", "push", "succeeded", "failed"}, image : Images]
    BY BuildsAssumption DEF NoImage, Images, BuilderIdle
<1>4. UNCHANGED <<deployments, builds, order, again, requests, completing>>
    BY DEF PublishCompleted
<1>5. \A c, d : Ordered(c, d)' <=> Ordered(c, d)
    BY <1>4 DEF Ordered, Before
<1>5a. \A i, j \in 1..Len(requestQ) : i < j => Ordered(requestQ[i], requestQ[j])
    BY DEF Inv, Line
<1>6. CASE completedQ' = Append(completedQ, Outcome(b)) /\ UNCHANGED lost
  <2>1. Outcome(b) \in Message /\ Outcome(b).build = b
    BY <1>2 DEF Outcome, Message, PublishCompleted, Inv, TypeOK
  <2>2. /\ completedQ' \in Seq(Message) /\ completedQ' # <<>> /\ Len(completedQ') = Len(completedQ) + 1
        /\ \A i \in 1..Len(completedQ) : completedQ'[i] = completedQ[i]
        /\ completedQ'[Len(completedQ) + 1].build = b
    BY <1>1, <1>6, <2>1, Appended
  <2>3. TypeOK'
    BY <1>1, <1>2, <1>3, <1>4, <1>6, <2>2 DEF TypeOK, PublishCompleted, Message
  <2>4. HandlersHold'
    BY <1>3, <2>2 DEF HandlersHold, PublishCompleted
  <2>5. \A i \in 1..Len(completedQ') : i \in 1..Len(completedQ) \/ i = Len(completedQ) + 1
    BY <1>1, <2>2
  <2>6. Requested'
    <3>1. \A i \in 1..Len(completedQ') : InOrder(completedQ'[i].build)
      BY <1>2, <2>2, <2>5 DEF Inv, Requested
    <3> QED
      BY <1>1, <1>2, <1>4, <3>1, RequestedKept DEF Inv, Requested
  <2>7. \A i \in Waiting' : i \in Waiting \/ i = Len(completedQ) + 1
    BY <1>4, <2>5 DEF Waiting
  <2>8. Waiting \subseteq 1..Len(completedQ)
    BY DEF Waiting
  <2>9. Line'
    <3>1. \A i, j \in 1..Len(deployments) : i < j => Ordered(deployments[i].build, deployments[j].build)
      BY DEF Inv, Line
    <3>2. \A i \in 1..Len(deployments), j \in Waiting' : Ordered(deployments[i].build, completedQ'[j].build)
      BY <1>2, <2>2, <2>7, <2>8 DEF Inv, Line
    <3>3. \A i \in 1..Len(deployments), j \in 1..Len(requestQ') : Ordered(deployments[i].build, requestQ'[j])
      BY <1>2 DEF Inv, Line
    <3>4. \A i, j \in Waiting' : i < j => Ordered(completedQ'[i].build, completedQ'[j].build)
      <4>1. ASSUME NEW i \in Waiting', NEW j \in Waiting', i < j
            PROVE  i \in Waiting
        <5>1. j \in 1..(Len(completedQ) + 1)
          BY <2>2 DEF Waiting
        <5>2. i # Len(completedQ) + 1
          BY <1>1, <4>1, <5>1
        <5> QED
          BY <2>7, <5>2
      <4>2. \A i, j \in Waiting : i < j => Ordered(completedQ'[i].build, completedQ'[j].build)
        BY <2>2, <2>8 DEF Inv, Line
      <4>3. \A i \in Waiting : Ordered(completedQ'[i].build, b)
        BY <1>2, <2>2, <2>8 DEF Inv, Line
      <4> QED
        BY <2>2, <2>7, <4>1, <4>2, <4>3
    <3>5. \A i \in Waiting', j \in 1..Len(requestQ') : Ordered(completedQ'[i].build, requestQ'[j])
      <4>1. \A i \in Waiting, j \in 1..Len(requestQ') : Ordered(completedQ'[i].build, requestQ'[j])
        BY <1>2, <2>2, <2>8 DEF Inv, Line
      <4>2. \A j \in 1..Len(requestQ') : Ordered(b, requestQ'[j])
        BY <1>2, <1>5a
      <4> QED
        BY <2>2, <2>7, <4>1, <4>2
    <3>6. \A i, j \in 1..Len(requestQ') : i < j => Ordered(requestQ'[i], requestQ'[j])
      BY <1>2, <1>5a
    <3> QED
      BY <1>4, <1>5, <3>1, <3>2, <3>3, <3>4, <3>5, <3>6 DEF Line
  <2> QED
    BY <1>4, <2>3, <2>4, <2>6, <2>9 DEF Inv, OneApplication, SucceededBuildDeployed
<1>7. CASE lost' = lost \cup {b} /\ UNCHANGED completedQ
  <2>1. TypeOK'
    BY <1>1, <1>2, <1>3, <1>4, <1>7 DEF TypeOK, PublishCompleted
  <2>2. HandlersHold'
    BY <1>3, <1>4, <1>7 DEF Inv, HandlersHold, PublishCompleted
  <2>3. Requested'
    BY <1>1, <1>2, <1>4, <1>7, RequestedKept DEF Inv, Requested
  <2>4. Waiting' = Waiting
    BY <1>4, <1>7 DEF Waiting
  <2>5. Line'
    <3>1. \A i \in 1..Len(deployments), j \in 1..Len(requestQ') : Ordered(deployments[i].build, requestQ'[j])
      BY <1>2 DEF Inv, Line
    <3>2. \A i \in Waiting, j \in 1..Len(requestQ') : Ordered(completedQ[i].build, requestQ'[j])
      BY <1>2 DEF Inv, Line
    <3>3. \A i, j \in 1..Len(requestQ') : i < j => Ordered(requestQ'[i], requestQ'[j])
      BY <1>2, <1>5a
    <3> QED
      BY <1>4, <1>5, <1>7, <2>4, <3>1, <3>2, <3>3 DEF Inv, Line
  <2> QED
    BY <1>4, <2>1, <2>2, <2>3, <2>5 DEF Inv, OneApplication, SucceededBuildDeployed
<1> QED
    BY <1>2, <1>6, <1>7 DEF PublishCompleted

-----------------------------------------------------------------------------
(* The apiserver's consumer *)

\* The transaction: the outcome leaves the queue's line and enters the deployments'.
LEMMA CompleteTxKeeps == ASSUME Inv, CompleteTx PROVE Inv'
<1>0. DEFINE m == completedQ[1]
<1>1. /\ TypeOK /\ OneApplication /\ completedQ \in Seq(Message) /\ completedQ # <<>> /\ completing = "idle"
      /\ builds \in [BuildIds -> BuildRow] /\ deployments \in Seq(Deployment) /\ Len(deployments) \in Nat
      /\ \A i \in 1..Len(deployments) : deployments[i].build \in BuildIds
    BY Types DEF Inv, CompleteTx
<1>2. /\ m \in Message /\ Head(completedQ) = m /\ Len(completedQ) \in Nat /\ 1 \in 1..Len(completedQ)
      /\ m.build \in BuildIds /\ m.image \in Images /\ m.status \in {"succeeded", "failed"}
  <2>1. m \in Message /\ Head(completedQ) = m /\ Len(completedQ) \in Nat /\ 1 \in 1..Len(completedQ)
    BY <1>1, Acked
  <2> QED
    BY <2>1 DEF Message
<1>3. /\ UNCHANGED <<live, branch, requests, requestQ, builder, completedQ, order, again>>
      /\ completing' \in {"publish", "done"}
    BY DEF CompleteTx
<1>4. 1 \in Waiting /\ Waiting' = Waiting \ {1} /\ Waiting = 1..Len(completedQ)
    BY <1>1, <1>2, <1>3 DEF Waiting
<1>5. HandlersHold'
    BY <1>1, <1>3 DEF Inv, HandlersHold
<1>6. CASE /\ Existing(m.build) /\ UpdateResult(m.build, m.status, m.image) /\ UNCHANGED lost
           /\ \/ m.status = "succeeded" /\ RecordDeployment(m.build, m.image)
              \/ m.status = "failed" /\ UNCHANGED deployments
  <2>1. /\ builds' \in [BuildIds -> BuildRow]
        /\ \A c \in BuildIds : builds'[c].app = builds[c].app
        /\ \A c \in BuildIds : builds'[c].status = "none" <=> builds[c].status = "none"
        /\ \A c \in BuildIds : builds'[c] # builds[c] => c = m.build
        /\ builds'[m.build].status = m.status /\ builds'[m.build].image = m.image
    BY <1>1, <1>2, <1>6, Updated
  <2>2. CASE m.status = "succeeded" /\ RecordDeployment(m.build, m.image)
    <3>1. PICK app \in builds[m.build].app :
            deployments' = Append(deployments,
               [build |-> m.build, app |-> app, image |-> m.image, status |-> "pending"])
      BY <2>2 DEF RecordDeployment
    <3>2. app \in Apps /\ builds[m.build].app = {app}
      BY <1>1, <1>2, <3>1 DEF OneApplication, BuildRow
    <3>3. DEFINE d == [build |-> m.build, app |-> app, image |-> m.image, status |-> "pending"]
    <3>4. d \in Deployment /\ d.build = m.build /\ d.app = app /\ d.image = m.image /\ d.status = "pending"
      BY <1>2, <3>2 DEF Deployment
    <3>5. /\ deployments' \in Seq(Deployment) /\ Len(deployments') = Len(deployments) + 1
          /\ \A i \in 1..Len(deployments) : deployments'[i] = deployments[i]
          /\ deployments'[Len(deployments) + 1] = d
      BY <1>1, <3>1, <3>4, Appended
    <3>6. \A i \in 1..Len(deployments') : i \in 1..Len(deployments) \/ i = Len(deployments) + 1
      BY <1>1, <3>5
    <3>7. TypeOK'
      BY <1>1, <1>3, <1>6, <2>1, <3>5 DEF TypeOK, BuildRow, Deployment
    <3>8. OneApplication'
      <4>1. ASSUME NEW i \in 1..Len(deployments')
            PROVE  builds'[deployments'[i].build].app = {deployments'[i].app}
        <5>1. CASE i \in 1..Len(deployments)
          <6>1. deployments'[i] = deployments[i] /\ deployments[i].build \in BuildIds
            BY <1>1, <3>5, <5>1
          <6>2. builds[deployments[i].build].app = {deployments[i].app}
            BY <1>1, <5>1 DEF OneApplication
          <6> QED
            BY <2>1, <6>1, <6>2
        <5>2. CASE i = Len(deployments) + 1
          <6>1. deployments'[i].build = m.build /\ deployments'[i].app = app
            BY <3>4, <3>5, <5>2
          <6> QED
            BY <1>2, <2>1, <3>2, <6>1
        <5> QED
          BY <3>6, <5>1, <5>2
      <4>2. \A c \in BuildIds : IF builds'[c].status = "none" THEN builds'[c].app = {}
                                ELSE \E a \in Apps : builds'[c].app = {a}
        BY <1>1, <2>1 DEF OneApplication
      <4> QED
        BY <4>1, <4>2 DEF OneApplication
    <3>9. SucceededBuildDeployed'
      <4> SUFFICES ASSUME NEW c \in BuildIds, builds'[c].status = "succeeded"
                   PROVE  \E i \in DOMAIN deployments' : /\ deployments'[i].build = c
                                                         /\ deployments'[i].image = builds'[c].image
                                                         /\ deployments'[i].status # "deleted"
        BY DEF SucceededBuildDeployed
      <4>1. DOMAIN deployments' = 1..Len(deployments') /\ DOMAIN deployments = 1..Len(deployments)
        BY <1>1, <3>5
      <4>2. Len(deployments) + 1 \in 1..Len(deployments') /\ 1..Len(deployments) \subseteq 1..Len(deployments')
        BY <1>1, <3>5
      <4>3. CASE c = m.build
        BY <2>1, <3>4, <3>5, <4>1, <4>2, <4>3
      <4>4. CASE c # m.build
        <5>1. builds'[c] = builds[c]
          BY <2>1, <4>4
        <5>2. PICK i \in 1..Len(deployments) : /\ deployments[i].build = c
                                               /\ deployments[i].image = builds[c].image
                                               /\ deployments[i].status # "deleted"
          BY <4>1, <5>1 DEF Inv, SucceededBuildDeployed
        <5> QED
          BY <3>5, <4>1, <4>2, <5>1, <5>2
      <4> QED
        BY <4>3, <4>4
    <3>10. Requested'
      <4>1. \A i \in 1..Len(deployments') : InOrder(deployments'[i].build)
        BY <1>2, <3>4, <3>5, <3>6 DEF Inv, Requested
      <4> QED
        BY <1>1, <1>3, <2>1, <4>1, RequestedKept DEF Inv, Requested
    <3>11. Line'
      <4>1. \A c, e : Ordered(c, e)' <=> Ordered(c, e)
        BY <1>3 DEF Ordered, Before
      <4>2. \A i, j \in 1..Len(deployments') : i < j => Ordered(deployments'[i].build, deployments'[j].build)
        BY <1>1, <1>4, <3>4, <3>5, <3>6 DEF Inv, Line
      <4>3. \A i \in 1..Len(deployments'), j \in Waiting' : Ordered(deployments'[i].build, completedQ[j].build)
        BY <1>1, <1>2, <1>4, <3>4, <3>5, <3>6 DEF Inv, Line
      <4>4. \A i \in 1..Len(deployments'), j \in 1..Len(requestQ) : Ordered(deployments'[i].build, requestQ[j])
        BY <1>4, <3>4, <3>5, <3>6 DEF Inv, Line
      <4> QED
        BY <1>3, <1>4, <4>1, <4>2, <4>3, <4>4 DEF Inv, Line
    <3> QED
      BY <1>5, <3>7, <3>8, <3>9, <3>10, <3>11 DEF Inv
  <2>3. CASE m.status = "failed" /\ UNCHANGED deployments
    <3>1. TypeOK'
      BY <1>1, <1>3, <1>6, <2>1, <2>3 DEF TypeOK, BuildRow
    <3>2. OneApplication'
      BY <1>1, <2>1, <2>3 DEF OneApplication
    <3>3. SucceededBuildDeployed'
      <4>1. \A c \in BuildIds : builds'[c].status = "succeeded" => builds'[c] = builds[c]
        BY <2>1, <2>3
      <4> QED
        BY <2>3, <4>1 DEF Inv, SucceededBuildDeployed
    <3>4. Requested'
      BY <1>1, <1>3, <2>1, <2>3, RequestedKept DEF Inv, Requested
    <3>5. Line'
      BY <1>1, <1>3, <1>4, <2>3, LineKept DEF Inv, Grown
    <3> QED
      BY <1>5, <3>1, <3>2, <3>3, <3>4, <3>5 DEF Inv
  <2> QED
    BY <1>6, <2>2, <2>3
<1>7. CASE UNCHANGED <<builds, deployments>> /\ lost' \in {lost, lost \cup {m.build}}
  <2>1. TypeOK'
    BY <1>1, <1>2, <1>3, <1>7 DEF TypeOK
  <2>2. Requested'
    BY <1>1, <1>3, <1>7, RequestedKept DEF Inv, Requested
  <2>3. Line'
    BY <1>1, <1>3, <1>4, <1>7, LineKept DEF Inv, Grown
  <2> QED
    BY <1>5, <1>7, <2>1, <2>2, <2>3 DEF Inv, OneApplication, SucceededBuildDeployed
<1> QED
    BY <1>2, <1>6, <1>7 DEF CompleteTx

\* The placement is published after the deployment was created, and creates nothing itself.
LEMMA PublishPlacementKeeps == ASSUME Inv, PublishPlacement PROVE Inv'
<1> USE DEF rows, history
<1>1. TypeOK /\ TypeOK'
    BY DEF Inv, TypeOK, PublishPlacement
<1>2. Requested'
    BY <1>1, RequestedKept DEF Inv, PublishPlacement, Requested
<1>3. Line'
    BY <1>1, LineKept DEF Inv, PublishPlacement, Grown, Waiting
<1> QED
    BY <1>1, <1>2, <1>3
    DEF Inv, HandlersHold, OneApplication, SucceededBuildDeployed, PublishPlacement

\* Writing the status of the latest deployment.
LEMMA StatusWritten ==
    ASSUME NEW ds \in Seq(Deployment), NEW status
    PROVE  [ds EXCEPT ![Len(ds)].status = status] =
              [i \in 1..Len(ds) |-> IF i = Len(ds) THEN [ds[i] EXCEPT !.status = status] ELSE ds[i]]
<1>1. Len(ds) \in Nat /\ DOMAIN ds = 1..Len(ds) /\ \A i \in 1..Len(ds) : ds[i] \in Deployment
    OBVIOUS
<1> QED
    BY <1>1

\* The deployment that could not be placed is still there: it failed.
LEMMA RecordDeployFailureKeeps == ASSUME Inv, RecordDeployFailure PROVE Inv'
<1> USE DEF history
<1>1. /\ TypeOK /\ deployments \in Seq(Deployment) /\ Len(deployments) \in Nat
      /\ \A i \in 1..Len(deployments) : deployments[i] \in Deployment
    BY Types DEF Inv
<1>2. /\ deployments' \in Seq(Deployment) /\ Len(deployments') = Len(deployments)
      /\ \A i \in 1..Len(deployments) :
            /\ deployments'[i].build = deployments[i].build /\ deployments'[i].app = deployments[i].app
            /\ deployments'[i].image = deployments[i].image
            /\ deployments'[i].status = "deleted" => deployments[i].status = "deleted"
  <2>1. DEFINE last == deployments[Len(deployments)]
               status == IF last.status = "deleted" THEN last.status ELSE "failed"
  <2>2. ASSUME Len(deployments) # 0
        PROVE  status \in {"failed", "deleted"} /\ (status = "deleted" => last.status = "deleted")
    <3>1. last \in Deployment
      BY <1>1, <2>2
    <3> QED
      BY <3>1 DEF Deployment
  <2>3. deployments' = [deployments EXCEPT ![Len(deployments)].status = status]
    BY DEF RecordDeployFailure
  <2>4. DEFINE f == [i \in 1..Len(deployments) |->
                       IF i = Len(deployments) THEN [deployments[i] EXCEPT !.status = status]
                       ELSE deployments[i]]
  <2> HIDE DEF status
  <2>5. deployments' = f
    BY <1>1, <2>3, StatusWritten
  <2>6. \A i \in 1..Len(deployments) : f[i] \in Deployment
    BY <1>1, <2>2 DEF Deployment
  <2>7. f \in Seq(Deployment) /\ Len(f) = Len(deployments)
    BY <1>1, <2>6
  <2>8. \A i \in 1..Len(deployments) :
            /\ f[i].build = deployments[i].build /\ f[i].app = deployments[i].app
            /\ f[i].image = deployments[i].image
            /\ f[i].status = "deleted" => deployments[i].status = "deleted"
    BY <1>1, <2>2 DEF Deployment
  <2> QED
    BY <2>5, <2>7, <2>8
<1>3. TypeOK'
    BY <1>1, <1>2 DEF TypeOK, Deployment, RecordDeployFailure
<1>4. OneApplication'
    BY <1>2 DEF Inv, OneApplication, RecordDeployFailure
<1>5. SucceededBuildDeployed'
  <2>1. DOMAIN deployments' = 1..Len(deployments) /\ DOMAIN deployments = 1..Len(deployments)
    BY <1>1, <1>2
  <2> QED
    BY <1>2, <2>1 DEF Inv, SucceededBuildDeployed, RecordDeployFailure
<1>6. Requested'
    BY <1>1, <1>2, RequestedKept DEF Inv, RecordDeployFailure, Requested
<1>7. Line'
    BY <1>1, <1>2, LineKept DEF Inv, RecordDeployFailure, Grown, Waiting
<1>8. HandlersHold'
    BY DEF Inv, HandlersHold, RecordDeployFailure
<1> QED
    BY <1>3, <1>4, <1>5, <1>6, <1>7, <1>8 DEF Inv

\* The outcome that was completed had already left the line.
LEMMA AckCompletedKeeps == ASSUME Inv, AckCompleted PROVE Inv'
<1> USE DEF rows, history
<1>1. /\ TypeOK /\ completedQ \in Seq(Message) /\ completedQ # <<>> /\ completing = "done"
    BY Types DEF Inv, AckCompleted, HandlersHold
<1>2. /\ completedQ' \in Seq(Message) /\ Len(completedQ) \in Nat
      /\ Len(completedQ') = Len(completedQ) - 1
      /\ \A i \in 1..Len(completedQ') :
            i + 1 \in 1..Len(completedQ) /\ completedQ'[i] = completedQ[i + 1]
    BY <1>1, Acked DEF AckCompleted
<1>3. UNCHANGED <<deployments, builds, order, again, requests, requestQ>> /\ completing' = "idle"
    BY DEF AckCompleted
<1>4. \A i \in Waiting' : i \in Nat /\ i + 1 \in Waiting /\ completedQ'[i] = completedQ[i + 1]
    BY <1>1, <1>2 DEF Waiting
<1>5. \A c, d : Ordered(c, d)' <=> Ordered(c, d)
    BY <1>3 DEF Ordered, Before
<1>6. TypeOK'
    BY <1>1, <1>2 DEF TypeOK, AckCompleted, Message
<1>7. Requested'
  <2>1. \A i \in 1..Len(completedQ') : InOrder(completedQ'[i].build)
    BY <1>2 DEF Inv, Requested
  <2> QED
    BY <1>1, <1>3, <2>1, RequestedKept DEF Inv, Requested
<1>8. Line'
  <2>1. \A i \in 1..Len(deployments), j \in Waiting' : Ordered(deployments[i].build, completedQ'[j].build)
    BY <1>4 DEF Inv, Line
  <2>2. \A i, j \in Waiting' : i < j => Ordered(completedQ'[i].build, completedQ'[j].build)
    <3> SUFFICES ASSUME NEW i \in Waiting', NEW j \in Waiting', i < j
                 PROVE  Ordered(completedQ'[i].build, completedQ'[j].build)
      OBVIOUS
    <3>1. i + 1 < j + 1
      BY <1>4
    <3> QED
      BY <1>4, <3>1 DEF Inv, Line
  <2>3. \A i \in Waiting', j \in 1..Len(requestQ) : Ordered(completedQ'[i].build, requestQ[j])
    BY <1>4 DEF Inv, Line
  <2> QED
    BY <1>3, <1>5, <2>1, <2>2, <2>3 DEF Inv, Line
<1> QED
    BY <1>3, <1>6, <1>7, <1>8
    DEF Inv, HandlersHold, OneApplication, SucceededBuildDeployed, AckCompleted

-----------------------------------------------------------------------------
(* Delivery: what comes again counts as redelivered *)

\* A request that comes again is on record as redelivered.
LEMMA RedeliverRequestKeeps ==
    ASSUME Inv, NEW i \in DOMAIN requestQ, RedeliverRequest(i)
    PROVE  Inv'
<1> USE DEF rows
<1>1. TypeOK /\ requestQ \in Seq(BuildIds) /\ i \in 1..Len(requestQ) /\ requestQ[i] \in BuildIds
    BY DEF Inv, TypeOK
<1>2. /\ requestQ' \in Seq(BuildIds) /\ requestQ' # <<>> /\ Len(requestQ') = Len(requestQ) + 1
      /\ Len(requestQ) \in Nat
      /\ \A j \in 1..Len(requestQ) : requestQ'[j] = requestQ[j]
      /\ requestQ'[Len(requestQ) + 1] = requestQ[i]
    BY <1>1, Appended DEF RedeliverRequest
<1>3. \A j \in 1..Len(requestQ') : j \in 1..Len(requestQ) \/ j = Len(requestQ) + 1
    BY <1>2
<1>4. UNCHANGED <<deployments, builds, order, requests, completedQ, completing>> /\ requestQ[i] \in again'
    BY DEF RedeliverRequest
<1>5. TypeOK'
    BY <1>1, <1>2 DEF TypeOK, RedeliverRequest
<1>6. Requested'
    BY <1>1, <1>2, <1>3, <1>4, RequestedKept DEF Inv, Requested
<1>7. Line'
  <2>1. \A c, d : Ordered(c, d) => Ordered(c, d)'
    BY <1>1, HistoryKept DEF TypeOK, Grown, RedeliverRequest
  <2>2. \A c, d : d = requestQ'[Len(requestQ) + 1] => Ordered(c, d)' /\ Ordered(d, c)'
    BY <1>2, <1>4 DEF Ordered
  <2>3. Waiting' = Waiting
    BY <1>4 DEF Waiting
  <2> QED
    BY <1>2, <1>3, <1>4, <2>1, <2>2, <2>3 DEF Inv, Line
<1> QED
    BY <1>2, <1>4, <1>5, <1>6, <1>7
    DEF Inv, HandlersHold, OneApplication, SucceededBuildDeployed, RedeliverRequest

\* Likewise a completion.
LEMMA RedeliverCompletedKeeps ==
    ASSUME Inv, NEW i \in DOMAIN completedQ, RedeliverCompleted(i)
    PROVE  Inv'
<1> USE DEF rows
<1>1. /\ TypeOK /\ completedQ \in Seq(Message) /\ i \in 1..Len(completedQ)
      /\ completedQ[i] \in Message /\ completedQ[i].build \in BuildIds
    BY Types DEF Inv
<1>2. /\ completedQ' \in Seq(Message) /\ completedQ' # <<>> /\ Len(completedQ') = Len(completedQ) + 1
      /\ Len(completedQ) \in Nat
      /\ \A j \in 1..Len(completedQ) : completedQ'[j] = completedQ[j]
      /\ completedQ'[Len(completedQ) + 1] = completedQ[i]
    BY <1>1, Appended DEF RedeliverCompleted
<1>3. \A j \in 1..Len(completedQ') : j \in 1..Len(completedQ) \/ j = Len(completedQ) + 1
    BY <1>2
<1>4. UNCHANGED <<deployments, builds, order, requests, requestQ, completing>> /\ completedQ[i].build \in again'
    BY DEF RedeliverCompleted
<1>5. TypeOK'
    BY <1>1, <1>2 DEF TypeOK, RedeliverCompleted, Message
<1>6. Requested'
  <2>1. \A j \in 1..Len(completedQ') : InOrder(completedQ'[j].build)
    BY <1>1, <1>2, <1>3 DEF Inv, Requested
  <2> QED
    BY <1>1, <1>4, <2>1, RequestedKept DEF Inv, Requested
<1>7. Line'
  <2>1. \A c, d : Ordered(c, d) => Ordered(c, d)'
    BY <1>1, HistoryKept DEF TypeOK, Grown, RedeliverCompleted
  <2>2. \A c, d : d = completedQ'[Len(completedQ) + 1].build => Ordered(c, d)' /\ Ordered(d, c)'
    BY <1>2, <1>4 DEF Ordered
  <2>3. \A j \in Waiting' : \/ j \in Waiting /\ completedQ'[j] = completedQ[j]
                            \/ j = Len(completedQ) + 1
    BY <1>2, <1>3, <1>4 DEF Waiting
  <2>4. \A c : \A j \in Waiting' : (\E k \in 1..Len(deployments) : c = deployments[k].build)
                                    => Ordered(c, completedQ[j].build) \/ j = Len(completedQ) + 1
    BY <2>3 DEF Inv, Line
  <2> QED
    BY <1>4, <2>1, <2>2, <2>3 DEF Inv, Line
<1> QED
    BY <1>2, <1>4, <1>5, <1>6, <1>7
    DEF Inv, HandlersHold, OneApplication, SucceededBuildDeployed, RedeliverCompleted

\* A restarted builder forgets its stage; every waiting request is on record as
\* delivered again, in whichever order.
LEMMA BuilderRestartKeeps == ASSUME Inv, BuilderRestart PROVE Inv'
<1> USE DEF rows
<1>1. TypeOK /\ requestQ \in Seq(BuildIds)
    BY DEF Inv, TypeOK
<1>2. /\ requestQ' \in Seq(BuildIds) /\ Len(requestQ') = Len(requestQ)
      /\ \A i \in 1..Len(requestQ') : \E j \in 1..Len(requestQ) : requestQ'[i] = requestQ[j]
    BY <1>1, RotatedQueue DEF BuilderRestart
<1>3. UNCHANGED <<deployments, builds, order, requests, completedQ, completing>> /\ builder'.at = "idle"
      /\ again' = again \cup ToSet(requestQ)
    BY DEF BuilderRestart, BuilderIdle
<1>4. ToSet(requestQ) \subseteq BuildIds /\ \A i \in 1..Len(requestQ') : requestQ'[i] \in again'
    BY <1>1, <1>2, <1>3, Members
<1>5. TypeOK'
  <2>1. BuilderIdle \in [at : {"idle", "build", "push", "succeeded", "failed"}, image : Images]
    BY BuildsAssumption DEF NoImage, Images, BuilderIdle
  <2> QED
    BY <1>1, <1>2, <1>3, <1>4, <2>1 DEF TypeOK, BuilderRestart
<1>6. Requested'
    BY <1>1, <1>2, <1>3, RequestedKept DEF Inv, Requested
<1>7. Line'
  <2>1. \A c, d : Ordered(c, d) => Ordered(c, d)'
    BY <1>1, <1>3, HistoryKept DEF TypeOK, Grown
  <2>2. \A c, d : (\E i \in 1..Len(requestQ') : d = requestQ'[i]) => Ordered(c, d)' /\ Ordered(d, c)'
    BY <1>4 DEF Ordered
  <2>3. Waiting' = Waiting
    BY <1>3 DEF Waiting
  <2> QED
    BY <1>3, <2>1, <2>2, <2>3 DEF Inv, Line
<1> QED
    BY <1>3, <1>5, <1>6, <1>7 DEF Inv, HandlersHold, OneApplication, SucceededBuildDeployed

\* Likewise a restarted apiserver, with the completions.
LEMMA ApiRestartKeeps == ASSUME Inv, ApiRestart PROVE Inv'
<1> USE DEF rows
<1>1. /\ TypeOK /\ completedQ \in Seq(Message)
      /\ \A i \in 1..Len(completedQ) : completedQ[i].build \in BuildIds
    BY Types DEF Inv
<1>2. /\ completedQ' \in Seq(Message) /\ Len(completedQ') = Len(completedQ)
      /\ \A i \in 1..Len(completedQ') : \E j \in 1..Len(completedQ) : completedQ'[i] = completedQ[j]
    BY <1>1, RotatedQueue DEF ApiRestart
<1>3. /\ UNCHANGED <<deployments, builds, order, requestQ, builder>> /\ completing' = "idle"
      /\ requests' = [b \in BuildIds |-> "none"]
      /\ again' = again \cup {m.build : m \in ToSet(completedQ)}
    BY DEF ApiRestart
<1>4. /\ {m.build : m \in ToSet(completedQ)} \subseteq BuildIds
      /\ \A i \in 1..Len(completedQ') : completedQ'[i].build \in again'
  <2>1. ToSet(completedQ) \subseteq Message /\ \A i \in 1..Len(completedQ) : completedQ[i] \in ToSet(completedQ)
    BY <1>1, Members
  <2>2. \A m \in Message : m.build \in BuildIds
    BY DEF Message
  <2> QED
    BY <1>2, <1>3, <2>1, <2>2
<1>5. TypeOK'
    BY <1>1, <1>2, <1>3, <1>4 DEF TypeOK, ApiRestart, Message
<1>6. Requested'
  <2>1. \A i \in 1..Len(completedQ') : InOrder(completedQ'[i].build)
    BY <1>2 DEF Inv, Requested
  <2> QED
    BY <1>1, <1>3, <2>1, RequestedKept DEF Inv, Requested
<1>7. Line'
  <2>1. \A c, d : Ordered(c, d) => Ordered(c, d)'
    BY <1>1, <1>3, HistoryKept DEF TypeOK, Grown
  <2>2. \A c, d : (\E i \in Waiting' : d = completedQ'[i].build) => Ordered(c, d)' /\ Ordered(d, c)'
    BY <1>4 DEF Ordered, Waiting
  <2> QED
    BY <1>3, <2>1, <2>2 DEF Inv, Line
<1> QED
    BY <1>3, <1>5, <1>6, <1>7 DEF Inv, HandlersHold, OneApplication, SucceededBuildDeployed

-----------------------------------------------------------------------------
\* Inv is an inductive invariant.
LEMMA InvInductive == Inv /\ [Next]_vars => Inv'
<1> SUFFICES ASSUME Inv, [Next]_vars PROVE Inv'
    OBVIOUS
<1>1. CASE UNCHANGED vars
  <2>1. TypeOK /\ TypeOK'
    BY <1>1 DEF Inv, TypeOK, vars, rows, history
  <2>2. Requested' /\ Line'
    BY <1>1, <2>1, RequestedKept, LineKept DEF Inv, Requested, Grown, Waiting, vars, rows, history
  <2> QED
    BY <1>1, <2>1, <2>2
    DEF Inv, HandlersHold, OneApplication, SucceededBuildDeployed, vars, rows
<1>2. ASSUME NEW b \in BuildIds, RequestStep(b) PROVE Inv'
    BY <1>2, PublishBuildRequestedKeeps, RecordPublishFailureKeeps DEF RequestStep
<1>3. ASSUME NEW b \in BuildIds, NEW app \in Apps, RequestBuild(b, app) PROVE Inv'
    BY <1>3, RequestBuildKeeps
<1>4. ASSUME NEW app \in Apps, DeleteApplication(app) PROVE Inv'
    BY <1>4, DeleteApplicationKeeps
<1>5. CASE PushCommit
    BY <1>5, PushCommitKeeps
<1>6. CASE BuilderStep
    BY <1>6, CloneRepoKeeps, BuildStageKeeps, PublishCompletedKeeps DEF BuilderStep, BuildImage, PushImage
<1>7. CASE ConsumerStep
    BY <1>7, CompleteTxKeeps, PublishPlacementKeeps, RecordDeployFailureKeeps, AckCompletedKeeps
    DEF ConsumerStep
<1>8. ASSUME NEW i \in DOMAIN requestQ, RedeliverRequest(i) PROVE Inv'
    BY <1>8, RedeliverRequestKeeps
<1>9. ASSUME NEW i \in DOMAIN completedQ, RedeliverCompleted(i) PROVE Inv'
    BY <1>9, RedeliverCompletedKeeps
<1>10. CASE BuilderRestart \/ ApiRestart
    BY <1>10, BuilderRestartKeeps, ApiRestartKeeps
<1> QED
    BY <1>1, <1>2, <1>3, <1>4, <1>5, <1>6, <1>7, <1>8, <1>9, <1>10 DEF Next

\* Whatever is pushed, redelivered, restarted or fails, Inv holds in every state.
THEOREM InvInvariant == Spec => []Inv
<1>1. Init => Inv
    BY InitInv
<1>2. Inv /\ [Next]_vars => Inv'
    BY InvInductive
<1> QED
    BY <1>1, <1>2, PTL DEF Spec

\* Rows, queues and handlers keep their types: no status but the ones the schema
\* knows is ever written, and an outcome is always one the consumer handles.
THEOREM TypeCorrect == Spec => []TypeOK
<1>1. Inv => TypeOK
    BY DEF Inv
<1> QED
    BY <1>1, InvInvariant, PTL

\* A build that shows as succeeded has a deployment of the image it names, for any
\* interleaving of handleGitDeploy, the image builder and handleBuildCompleted.
THEOREM SucceededBuildsDeployed == Spec => []SucceededBuildDeployed
<1>1. Inv => SucceededBuildDeployed
    BY DEF Inv
<1> QED
    BY <1>1, InvInvariant, PTL

\* handleBuildCompleted deploys a build once unless one of its messages came again.
THEOREM DeployedOnce == Spec => []DeployedOnceUnlessRedelivered
<1>1. Inv => DeployedOnceUnlessRedelivered
  <2> SUFFICES ASSUME Inv, NEW i \in DOMAIN deployments, NEW j \in DOMAIN deployments,
                      deployments[i].build = deployments[j].build, i # j
               PROVE  deployments[i].build \in again
    BY DEF DeployedOnceUnlessRedelivered
  <2>1. DOMAIN deployments = 1..Len(deployments) /\ Len(deployments) \in Nat
    BY DEF Inv, TypeOK
  <2>2. i < j \/ j < i
    BY <2>1
  <2> QED
    BY <2>1, <2>2 DEF Inv, Line, Ordered
<1> QED
    BY <1>1, InvInvariant, PTL

\* Deployments of builds that were never redelivered stand in the order in which
\* handleGitDeploy published their requests, so the last revision is the last request's.
THEOREM InRequestOrder == Spec => []DeployedInOrder
<1>1. Inv => DeployedInOrder
  <2> SUFFICES ASSUME Inv, NEW i \in DOMAIN deployments, NEW j \in DOMAIN deployments,
                      i < j, {deployments[i].build, deployments[j].build} \cap again = {}
               PROVE  \E k, l \in DOMAIN order : /\ k < l /\ order[k] = deployments[i].build
                                                 /\ order[l] = deployments[j].build
    BY DEF DeployedInOrder
  <2>1. DOMAIN deployments = 1..Len(deployments) /\ DOMAIN order = 1..Len(order)
    BY DEF Inv, TypeOK
  <2>2. Ordered(deployments[i].build, deployments[j].build)
    BY <2>1 DEF Inv, Line
  <2> QED
    BY <2>1, <2>2 DEF Ordered, Before
<1> QED
    BY <1>1, InvInvariant, PTL

=============================================================================
