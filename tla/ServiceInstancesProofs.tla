----------------------- MODULE ServiceInstancesProofs -----------------------
(***************************************************************************)
(* Proofs about the ServiceInstance controller, for any number of          *)
(* containers, applications and ports and any budget of reports, errors    *)
(* and restarts: its types, that no row carries a port of another          *)
(* container, and that it implements the instance feed its readers rely    *)
(* on.                                                                     *)
(***************************************************************************)
EXTENDS ServiceInstances, TLAPS

Row == Ports \cup {NoPort}
Ats == {"idle", "candidates", "service", "upsert", "orphans", "forget"} \cup Announcing
Ticks == [at : Ats, todo : SUBSET Containers, cur : SUBSET Containers, port : Row]
Budgets == [reports : 0..MaxReports, records : 0..MaxRecords, errors : 0..MaxErrors, restarts : 0..MaxRestarts]

\* At builds a tick state, whatever it is given.
LEMMA AtType ==
    ASSUME NEW at \in Ats, NEW todo \in SUBSET Containers, NEW cur \in SUBSET Containers, NEW port \in Row
    PROVE  At(at, todo, cur, port) \in Ticks
BY DEF At, Ticks

\* The tick keeps its type when only its place changes.
LEMMA TickAt ==
    ASSUME tick \in Ticks, NEW at \in Ats
    PROVE  [tick EXCEPT !.at = at] \in Ticks
BY DEF Ticks

\* An idle tick has its type.
LEMMA IdleType == TickIdle \in Ticks
BY DEF TickIdle, Ticks, Ats, Row

\* A fault spends one unit of what is left.
LEMMA FailsType ==
    ASSUME budget \in Budgets, Fails
    PROVE  budget' \in Budgets
<1>1. budget.errors + 1 \in 0..MaxErrors
    BY DiscoveryAssumption DEF Budgets, Fails
<1> QED BY <1>1 DEF Budgets, Fails

\* A hint more is still within the subscriber's buffer.
LEMMA HintedType ==
    ASSUME hints \in [Containers -> 0..MaxPending], NEW c \in Containers
    PROVE  Hinted(c) \in [Containers -> 0..MaxPending]
<1>1. hints[c] \in 0..MaxPending /\ MaxPending \in Nat
    BY DiscoveryAssumption
<1>2. (IF hints[c] < MaxPending THEN hints[c] + 1 ELSE hints[c]) \in 0..MaxPending
    BY <1>1
<1> QED BY <1>2 DEF Hinted

\* The first message of a queue, and what is left behind it.
LEMMA HeadTail ==
    ASSUME NEW S, NEW q \in Seq(S), q # <<>>
    PROVE  Head(q) \in S /\ Tail(q) \in Seq(S)
OBVIOUS

\* Appending leaves the messages before it in place.
LEMMA Before ==
    ASSUME NEW S, NEW q \in Seq(S), NEW m \in S, NEW i \in DOMAIN q
    PROVE  Append(q, m)[i] = q[i] /\ q[i] \in S
OBVIOUS

-----------------------------------------------------------------------------
(* Types *)

\* What the rest of the platform does keeps the types.
LEMMA EnvironmentType ==
    ASSUME TypeOK,
           \/ \E c \in Containers, p \in Ports : ReportRunning(c, p)
           \/ \E c \in Containers, s \in {"running", "stopped", "crashed"} : RecordStatus(c, s)
           \/ \E c \in Containers : Supersede(c) \/ Receive(c)
           \/ \E a \in Applications : DeleteApplication(a)
    PROVE  TypeOK'
<1> USE DEF TypeOK
<1>1. ASSUME NEW c \in Containers, NEW p \in Ports, ReportRunning(c, p) PROVE TypeOK'
    <2>1. budget.reports + 1 \in 0..MaxReports
        BY <1>1, DiscoveryAssumption DEF ReportRunning
    <2>2. budget' \in Budgets
        BY <1>1, <2>1 DEF ReportRunning, Budgets
    <2>3. statusQ' \in Seq([container : Containers, port : Ports])
        BY <1>1 DEF ReportRunning
    <2> QED BY <1>1, <2>2, <2>3 DEF ReportRunning, Budgets
<1>2. ASSUME NEW c \in Containers, NEW s \in {"running", "stopped", "crashed"}, RecordStatus(c, s) PROVE TypeOK'
    <2>1. budget.records + 1 \in 0..MaxRecords
        BY <1>2, DiscoveryAssumption DEF RecordStatus
    <2>2. budget' \in Budgets
        BY <1>2, <2>1 DEF RecordStatus, Budgets
    <2>3. status' \in [Containers -> Statuses]
        BY <1>2 DEF RecordStatus, Statuses
    <2>4. ended' \in SUBSET Containers
        BY <1>2 DEF RecordStatus
    <2> QED BY <1>2, <2>2, <2>3, <2>4 DEF RecordStatus, Budgets
<1>3. ASSUME NEW c \in Containers, Supersede(c) PROVE TypeOK'
    <2>1. budget.records + 1 \in 0..MaxRecords
        BY <1>3, DiscoveryAssumption DEF Supersede
    <2>2. budget' \in Budgets
        BY <1>3, <2>1 DEF Supersede, Budgets
    <2> QED BY <1>3, <2>2 DEF Supersede, Budgets
<1>4. ASSUME NEW c \in Containers, Receive(c) PROVE TypeOK'
    <2>1. hints' \in [Containers -> 0..MaxPending]
        BY <1>4, DiscoveryAssumption DEF Receive
    <2> QED BY <1>4, <2>1 DEF Receive, environment
<1>5. ASSUME NEW a \in Applications, DeleteApplication(a) PROVE TypeOK'
    BY <1>5 DEF DeleteApplication, Statuses
<1> QED BY <1>1, <1>2, <1>3, <1>4, <1>5

\* The port consumer and a restart keep the types.
LEMMA ConsumerType ==
    ASSUME TypeOK, HandleStatus \/ Restart
    PROVE  TypeOK'
<1>1. CASE HandleStatus
    <2>1. /\ Head(statusQ) \in [container : Containers, port : Ports]
          /\ Tail(statusQ) \in Seq([container : Containers, port : Ports])
        <3>1. statusQ \in Seq([container : Containers, port : Ports]) /\ statusQ # <<>>
            BY <1>1 DEF HandleStatus, TypeOK
        <3> QED BY ONLY <3>1, HeadTail
    <2>2. ports' \in [Containers -> Row] /\ heard' \in [Containers -> Row]
        BY <1>1, <2>1 DEF HandleStatus, Row, TypeOK
    <2> QED BY <1>1, <2>1, <2>2 DEF HandleStatus, environment, Row, TypeOK
<1> USE DEF TypeOK
<1>2. CASE Restart
    <2>1. budget.restarts + 1 \in 0..MaxRestarts
        BY <1>2, DiscoveryAssumption DEF Restart
    <2>2. budget' \in Budgets
        BY <1>2, <2>1 DEF Restart, Budgets
    <2>3. tick' \in Ticks
        BY <1>2, IdleType DEF Restart
    <2> QED BY <1>2, <2>2, <2>3 DEF Restart, environment, Budgets, Ticks, Ats, Row
<1> QED BY <1>1, <1>2

\* Every step of a tick keeps the types.
LEMMA TickType ==
    ASSUME TypeOK, TickStep
    PROVE  TypeOK'
<1>1. /\ tick \in Ticks /\ budget \in Budgets /\ ports \in [Containers -> Row]
      /\ instances \in [Containers -> Row] /\ hints \in [Containers -> 0..MaxPending]
      /\ services \in SUBSET Applications /\ NoPort \in Row
    BY DEF TypeOK, Ticks, Ats, Budgets, Row
<1>2. tick.todo \in SUBSET Containers /\ tick.cur \in SUBSET Containers /\ tick.port \in Row
    BY <1>1 DEF Ticks
<1>3. /\ UNCHANGED <<environment, statusQ, heard>>
      /\ tick' \in Ticks /\ budget' \in Budgets /\ ports' \in [Containers -> Row]
      /\ instances' \in [Containers -> Row] /\ hints' \in [Containers -> 0..MaxPending]
      /\ services' \in SUBSET Applications
    <2>1. CASE ListCandidates
        BY <2>1, <1>1, AtType, FailsType DEF ListCandidates, Ats
    <2>2. CASE ListOrphans
        BY <2>2, <1>1, AtType, IdleType, FailsType DEF ListOrphans, Ats
    <2>3. CASE TickDone
        BY <2>3, <1>1, IdleType DEF TickDone
    <2>4. ASSUME NEW c \in Containers, TakeCandidate(c) PROVE <1>3!:
        <3>1. PortFor(c) \in Row
            BY <1>1 DEF PortFor
        <3> QED BY <2>4, <3>1, <1>1, <1>2, AtType DEF TakeCandidate, Ats
    <2>5. ASSUME NEW c \in Containers, EnsureService(c) PROVE <1>3!:
        <3>1. NextCandidate \in Ticks
            BY <1>1, <1>2, AtType DEF NextCandidate, Ats
        <3>2. [tick EXCEPT !.at = "upsert"] \in Ticks
            BY <1>1, TickAt DEF Ats
        <3>3. ServiceKey(c) \in Applications
            BY DiscoveryAssumption DEF ServiceKey
        <3>4. services' \in SUBSET Applications
            BY <2>5, <3>3, <1>1 DEF EnsureService
        <3>5. budget' \in Budgets
            BY <2>5, <1>1, FailsType DEF EnsureService
        <3> QED BY <2>5, <3>1, <3>2, <3>4, <3>5, <1>1 DEF EnsureService
    <2>6. ASSUME NEW c \in Containers, Upsert(c) PROVE <1>3!:
        <3>1. NextCandidate \in Ticks
            BY <1>1, <1>2, AtType DEF NextCandidate, Ats
        <3>2. [tick EXCEPT !.at = "announceUpsert"] \in Ticks
            BY <1>1, TickAt DEF Ats, Announcing
        <3>3. instances' \in [Containers -> Row]
            BY <2>6, <1>1, <1>2 DEF Upsert, UpsertedPort
        <3>4. budget' \in Budgets
            BY <2>6, <1>1, FailsType DEF Upsert
        <3> QED BY <2>6, <3>1, <3>2, <3>3, <3>4, <1>1 DEF Upsert
    <2>7. ASSUME NEW c \in Containers, PublishUpserted(c) PROVE <1>3!:
        <3>1. NextCandidate \in Ticks
            BY <1>1, <1>2, AtType DEF NextCandidate, Ats
        <3> QED BY <2>7, <3>1, <1>1, HintedType, FailsType DEF PublishUpserted
    <2>8. ASSUME NEW c \in Containers, DeleteOrphan(c) PROVE <1>3!:
        <3>1. tick' \in Ticks
            BY <2>8, <1>1, <1>2, AtType DEF DeleteOrphan, Ats, Announcing
        <3> QED BY <2>8, <3>1, <1>1, FailsType DEF DeleteOrphan
    <2>9. ASSUME NEW c \in Containers, PublishDeleted(c) PROVE <1>3!:
        <3>1. [tick EXCEPT !.at = "forget"] \in Ticks
            BY <1>1, TickAt DEF Ats
        <3> QED BY <2>9, <3>1, <1>1, HintedType, FailsType DEF PublishDeleted
    <2>10. ASSUME NEW c \in Containers, ForgetPort(c) PROVE <1>3!:
        <3>1. At("orphans", tick.todo, {}, NoPort) \in Ticks
            BY <1>1, <1>2, AtType DEF Ats
        <3> QED BY <2>10, <3>1, <1>1 DEF ForgetPort
    <2> QED BY <2>1, <2>2, <2>3, <2>4, <2>5, <2>6, <2>7, <2>8, <2>9, <2>10 DEF TickStep
<1> QED BY <1>3 DEF TypeOK, environment, Ticks, Ats, Budgets, Row

\* Every action of the controller and its environment keeps the types.
LEMMA TypeStep == TypeOK /\ [Next]_vars => TypeOK'
<1>1. ASSUME TypeOK, Next PROVE TypeOK'
    BY <1>1, EnvironmentType, ConsumerType, TickType DEF Next
<1>2. ASSUME TypeOK, UNCHANGED vars PROVE TypeOK'
    BY <1>2 DEF TypeOK, vars
<1> QED BY <1>1, <1>2

\* Every state of the controller and of what it reads has its type: no hint is
\* buffered beyond MaxPending and no upsert writes anything but a port.
THEOREM TypeCorrect == Spec => []TypeOK
<1>1. Init => TypeOK
    BY DiscoveryAssumption DEF Init, TypeOK, Statuses, TickIdle
<1> QED BY <1>1, TypeStep, PTL DEF Spec

-----------------------------------------------------------------------------
(* Ports *)

\* Wherever a port is kept, a worker reported it for that container: in the
\* cache, in a row, in a message that is under way and in the hand of the tick.
Reported(c, p) == p # NoPort => p \in reported[c]
CachedReported == \A c \in Containers : Reported(c, ports[c])
QueuedReported == \A i \in DOMAIN statusQ : Reported(statusQ[i].container, statusQ[i].port)
HeldReported == \A c \in tick.cur : Reported(c, tick.port)
PortInv == TypeOK /\ CachedReported /\ QueuedReported /\ HeldReported /\ RowPortReported

\* Reports are never taken back, so a step that moves no port keeps all of it.
LEMMA PortsUntouched ==
    ASSUME PortInv, TypeOK', UNCHANGED <<reported, statusQ, ports, instances>>,
           tick'.cur = {} \/ tick'.port = NoPort \/ (tick'.cur = tick.cur /\ tick'.port = tick.port)
    PROVE  PortInv'
BY DEF PortInv, CachedReported, QueuedReported, HeldReported, RowPortReported, Reported

\* Reports only add ports and cascades only remove rows.
LEMMA EnvironmentPorts ==
    ASSUME PortInv, TypeOK',
           \/ \E c \in Containers, p \in Ports : ReportRunning(c, p)
           \/ \E c \in Containers, s \in {"running", "stopped", "crashed"} : RecordStatus(c, s)
           \/ \E c \in Containers : Supersede(c) \/ Receive(c)
           \/ \E a \in Applications : DeleteApplication(a)
    PROVE  PortInv'
<1>1. ASSUME NEW c \in Containers, NEW p \in Ports, ReportRunning(c, p) PROVE PortInv'
    <2>1. \A d \in Containers : reported[d] \subseteq reported'[d] /\ (d = c => p \in reported'[d])
        BY <1>1 DEF ReportRunning, PortInv, TypeOK
    <2>2. statusQ' = Append(statusQ, [container |-> c, port |-> p])
        BY <1>1 DEF ReportRunning
    <2>3. QueuedReported'
        <3>1. statusQ \in Seq([container : Containers, port : Ports])
            BY DEF PortInv, TypeOK
        <3>2. ASSUME NEW i \in DOMAIN statusQ' PROVE Reported(statusQ[i].container, statusQ[i].port)'
            <4>1. CASE i \in DOMAIN statusQ
                <5>1. statusQ'[i] = statusQ[i] /\ statusQ[i].container \in Containers
                    <6> DEFINE Message == [container : Containers, port : Ports]
                    <6>1. [container |-> c, port |-> p] \in Message
                        OBVIOUS
                    <6>2. Append(statusQ, [container |-> c, port |-> p])[i] = statusQ[i] /\ statusQ[i] \in Message
                        <7> HIDE DEF Message
                        <7>1. statusQ \in Seq(Message)
                            BY <3>1 DEF Message
                        <7> QED BY <7>1, <6>1, <4>1, Before
                    <6> QED BY <6>2, <2>2
                <5> QED BY <5>1, <4>1, <2>1 DEF PortInv, QueuedReported, Reported
            <4>2. CASE i \notin DOMAIN statusQ
                <5>1. statusQ'[i] = [container |-> c, port |-> p]
                    BY <2>2, <3>1, <3>2, <4>2
                <5> QED BY <5>1, <2>1 DEF Reported
            <4> QED BY <4>1, <4>2
        <3> QED BY <3>2 DEF QueuedReported
    <2>4. CachedReported' /\ RowPortReported'
        BY <1>1, <2>1 DEF ReportRunning, PortInv, CachedReported, RowPortReported, Reported
    <2>5. HeldReported'
        <3>1. tick.cur \subseteq Containers
            BY DEF PortInv, TypeOK
        <3> QED BY <1>1, <2>1, <3>1 DEF ReportRunning, PortInv, HeldReported, Reported
    <2> QED BY <2>3, <2>4, <2>5 DEF PortInv
<1>2. ASSUME NEW c \in Containers, NEW s \in {"running", "stopped", "crashed"}, RecordStatus(c, s) PROVE PortInv'
    BY <1>2, PortsUntouched DEF RecordStatus
<1>3. ASSUME NEW c \in Containers, Supersede(c) \/ Receive(c) PROVE PortInv'
    BY <1>3, PortsUntouched DEF Supersede, Receive, environment
<1>4. ASSUME NEW a \in Applications, DeleteApplication(a) PROVE PortInv'
    <2>1. \A c \in Containers : instances'[c] \in {NoPort, instances[c]}
        BY <1>4 DEF DeleteApplication
    <2> QED BY <1>4, <2>1 DEF DeleteApplication, PortInv, CachedReported, QueuedReported, HeldReported,
                          RowPortReported, Reported
<1> QED BY <1>1, <1>2, <1>3, <1>4

\* The cache is filled from reports only.
LEMMA ConsumerPorts ==
    ASSUME PortInv, TypeOK', HandleStatus \/ Restart
    PROVE  PortInv'
<1>1. CASE HandleStatus
    <2>1. statusQ \in Seq([container : Containers, port : Ports]) /\ statusQ # <<>>
        BY <1>1 DEF HandleStatus, PortInv, TypeOK
    <2>2. Head(statusQ) = statusQ[1] /\ 1 \in DOMAIN statusQ
        BY ONLY <2>1
    <2>3. Reported(Head(statusQ).container, Head(statusQ).port)
        BY <2>2 DEF PortInv, QueuedReported
    <2>4. CachedReported'
        BY <1>1, <2>3 DEF HandleStatus, environment, PortInv, TypeOK, CachedReported, Reported
    <2>5. QueuedReported'
        <3>1. \A i \in DOMAIN Tail(statusQ) : i + 1 \in DOMAIN statusQ /\ Tail(statusQ)[i] = statusQ[i + 1]
            BY ONLY <2>1
        <3> QED BY <1>1, <3>1 DEF HandleStatus, environment, PortInv, QueuedReported, Reported
    <2> QED BY <1>1, <2>4, <2>5 DEF HandleStatus, environment, PortInv, HeldReported, RowPortReported, Reported
<1>2. CASE Restart
    BY <1>2 DEF Restart, environment, TickIdle, PortInv, CachedReported, QueuedReported, HeldReported,
                RowPortReported, Reported
<1> QED BY <1>1, <1>2

\* A tick copies ports from the cache to the row of the same container.
LEMMA TickPorts ==
    ASSUME PortInv, TypeOK', TickStep
    PROVE  PortInv'
<1>1. CASE ListCandidates
    BY <1>1, PortsUntouched DEF ListCandidates, environment, At
<1>2. CASE ListOrphans
    BY <1>2, PortsUntouched DEF ListOrphans, environment, At, TickIdle
<1>3. CASE TickDone
    BY <1>3, PortsUntouched DEF TickDone, environment, TickIdle
<1>4. ASSUME NEW c \in Containers, TakeCandidate(c) PROVE PortInv'
    BY <1>4 DEF TakeCandidate, PortFor, At, environment, PortInv, CachedReported, QueuedReported, HeldReported,
                RowPortReported, Reported
<1>5. ASSUME NEW c \in Containers, EnsureService(c) \/ PublishUpserted(c) \/ PublishDeleted(c) PROVE PortInv'
    <2>1. UNCHANGED <<reported, statusQ, ports, instances>>
        BY <1>5 DEF EnsureService, PublishUpserted, PublishDeleted, environment
    <2>2. tick'.cur = {} \/ (tick'.cur = tick.cur /\ tick'.port = tick.port)
        BY <1>5 DEF EnsureService, PublishUpserted, PublishDeleted, NextCandidate, At, PortInv, TypeOK
    <2> QED BY <2>1, <2>2, PortsUntouched
<1>6. ASSUME NEW c \in Containers, Upsert(c) PROVE PortInv'
    <2>1. UNCHANGED <<reported, statusQ, ports>>
        BY <1>6 DEF Upsert, environment
    <2>2. tick'.cur = {} \/ (tick'.cur = tick.cur /\ tick'.port = tick.port)
        <3>1. tick \in Ticks
            BY DEF PortInv, TypeOK, Ticks, Ats, Row
        <3> QED BY <1>6, <3>1 DEF Upsert, NextCandidate, At, Ticks
    <2>3. \A d \in Containers : instances'[d] = instances[d] \/ (d \in tick.cur /\ instances'[d] = tick.port)
        BY <1>6 DEF Upsert, UpsertedPort, PortInv, TypeOK
    <2> QED BY <2>1, <2>2, <2>3 DEF PortInv, CachedReported, QueuedReported, HeldReported, RowPortReported, Reported
<1>7. ASSUME NEW c \in Containers, DeleteOrphan(c) PROVE PortInv'
    <2>1. \A d \in Containers : instances'[d] \in {NoPort, instances[d]}
        BY <1>7 DEF DeleteOrphan, PortInv, TypeOK
    <2> QED BY <1>7, <2>1 DEF DeleteOrphan, At, environment, PortInv, CachedReported, QueuedReported, HeldReported,
                          RowPortReported, Reported
<1>8. ASSUME NEW c \in Containers, ForgetPort(c) PROVE PortInv'
    <2>1. \A d \in Containers : ports'[d] \in {NoPort, ports[d]}
        BY <1>8 DEF ForgetPort, PortInv, TypeOK
    <2> QED BY <1>8, <2>1 DEF ForgetPort, At, environment, PortInv, CachedReported, QueuedReported, HeldReported,
                          RowPortReported, Reported
<1> QED BY <1>1, <1>2, <1>3, <1>4, <1>5, <1>6, <1>7, <1>8 DEF TickStep

\* No row of service_instances ever carries a port that no worker reported for
\* its container, however reports, restarts, deletes and ticks interleave: the
\* cache, the queue and the tick's own copy carry only such ports either.
THEOREM PortsReported == Spec => []RowPortReported
<1>1. Init => PortInv
    <2> SUFFICES ASSUME Init PROVE PortInv
        OBVIOUS
    <2>1. TypeOK
        BY DiscoveryAssumption DEF Init, TypeOK, Statuses, TickIdle
    <2> QED BY <2>1 DEF Init, TickIdle, PortInv, CachedReported, QueuedReported, HeldReported, RowPortReported, Reported
<1>2. TypeOK /\ [Next]_vars => TypeOK'
    BY TypeStep
<1>3. PortInv /\ [Next]_vars => PortInv'
    <2> SUFFICES ASSUME PortInv, [Next]_vars PROVE PortInv'
        OBVIOUS
    <2>1. TypeOK'
        BY <1>2 DEF PortInv
    <2>2. CASE Next
        BY <2>1, <2>2, EnvironmentPorts, ConsumerPorts, TickPorts DEF Next
    <2>3. CASE UNCHANGED vars
        BY <2>1, <2>3, PortsUntouched DEF vars
    <2> QED BY <2>2, <2>3
<1>4. PortInv => RowPortReported
    BY DEF PortInv
<1> QED BY <1>1, <1>3, <1>4, PTL DEF Spec

-----------------------------------------------------------------------------
(* The feed *)

\* What readers see of a step: one step of the feed, or nothing.
LEMMA FeedStep ==
    ASSUME TypeOK, Next
    PROVE  [Feed!Next]_Feed!feedVars
<1> USE DEF Feed!feedVars
<1> DEFINE owed == IF tick.at \in Announcing THEN tick.cur ELSE {}
<1>a. tick \in Ticks
    BY DEF TypeOK, Ticks, Ats, Row
<1>b. /\ tick.at \in Ats /\ tick.cur \in SUBSET Containers /\ tick.port \in Row
      /\ instances \in [Containers -> Row] /\ hints \in [Containers -> 0..MaxPending]
    BY DEF TypeOK, Ats, Row
<1>1. ASSUME NEW c \in Containers, Receive(c) PROVE Feed!Receive(c)
    BY <1>1 DEF Receive, Feed!Receive
<1>2. ASSUME NEW a \in Applications, DeleteApplication(a) PROVE \E C \in SUBSET Containers : Feed!Cascade(C)
    <2> DEFINE gone == {c \in Containers : AppOf[c] = a}
    <2>1. Feed!Cascade(gone)
        BY <1>2 DEF DeleteApplication, Feed!Cascade
    <2> QED BY <2>1
<1>3. ASSUME Restart PROVE Feed!Withhold \/ UNCHANGED Feed!feedVars
    <2>1. owed' = {}
        BY <1>3 DEF Restart, TickIdle, Announcing
    <2> QED BY <1>3, <2>1 DEF Restart, Feed!Withhold
<1>4. ASSUME NEW c \in Containers, Upsert(c) PROVE [Feed!Next]_Feed!feedVars
    <2>1. CASE tick' = NextCandidate /\ instances' = instances
        BY <1>4, <2>1 DEF Upsert, NextCandidate, At, Announcing
    <2>2. CASE tick' = [tick EXCEPT !.at = "announceUpsert"] /\ instances' = [instances EXCEPT ![c] = tick.port]
        <3>1. owed = {} /\ owed' = {c}
            BY <1>4, <2>2, <1>a DEF Upsert, Announcing, Ticks
        <3>2. Feed!Write(c, tick.port)
            BY <1>4, <2>2, <3>1 DEF Upsert, Feed!Write
        <3> QED BY <3>2, <1>b DEF Feed!Next, Row
    <2> QED BY <1>4, <2>1, <2>2 DEF Upsert, UpsertedPort
<1>5. ASSUME NEW c \in Containers, DeleteOrphan(c) PROVE [Feed!Next]_Feed!feedVars
    <2>1. CASE tick' = At("orphans", tick.todo \ {c}, {}, NoPort) /\ instances' = instances
        BY <1>5, <2>1 DEF DeleteOrphan, At, Announcing
    <2>2. CASE /\ tick' = At("announceDelete", tick.todo \ {c}, {c}, NoPort)
               /\ instances' = [instances EXCEPT ![c] = NoPort]
        <3>1. owed = {} /\ owed' = {c}
            BY <1>5, <2>2 DEF DeleteOrphan, At, Announcing
        <3>2. Feed!Write(c, NoPort)
            BY <1>5, <2>2, <3>1 DEF DeleteOrphan, Feed!Write
        <3> QED BY <3>2 DEF Feed!Next
    <2> QED BY <1>5, <2>1, <2>2 DEF DeleteOrphan
<1>6. ASSUME NEW c \in Containers, PublishUpserted(c) \/ PublishDeleted(c) PROVE Feed!Announce(c) \/ Feed!Withhold
    <2>1. owed = {c}
        BY <1>6 DEF PublishUpserted, PublishDeleted, Announcing
    <2>2. owed' = {}
        <3>1. CASE PublishUpserted(c)
            BY <3>1 DEF PublishUpserted, NextCandidate, At, Announcing
        <3>2. CASE PublishDeleted(c)
            BY <3>2, <1>a DEF PublishDeleted, Announcing, Ticks
        <3> QED BY <1>6, <3>1, <3>2
    <2>3. instances' = instances /\ (hints' = Hinted(c) \/ hints' = hints)
        BY <1>6 DEF PublishUpserted, PublishDeleted
    <2> QED BY <2>1, <2>2, <2>3 DEF Hinted, Feed!Announce, Feed!Withhold
<1>7. CASE \/ ListCandidates \/ ListOrphans \/ TickDone
           \/ \E c \in Containers : TakeCandidate(c) \/ EnsureService(c) \/ ForgetPort(c)
    BY <1>7 DEF ListCandidates, ListOrphans, TickDone, TakeCandidate, EnsureService, ForgetPort, NextCandidate,
                TickIdle, At, Announcing, TypeOK
<1>8. CASE \/ \E c \in Containers, p \in Ports : ReportRunning(c, p)
           \/ \E c \in Containers, s \in {"running", "stopped", "crashed"} : RecordStatus(c, s)
           \/ \E c \in Containers : Supersede(c)
           \/ HandleStatus
    BY <1>8 DEF ReportRunning, RecordStatus, Supersede, HandleStatus
<1>9. Restart => [Feed!Next]_Feed!feedVars
    BY <1>3 DEF Feed!Next
<1> QED BY <1>1, <1>2, <1>4, <1>5, <1>6, <1>7, <1>8, <1>9 DEF Next, TickStep, Feed!Next

\* The controller implements the instance feed: to a reader of service_instances
\* and service.updated every step of it, of a restart and of the platform around
\* it is a write, the hint about that write, a lost hint, a cascade or nothing.
THEOREM FeedImplemented == Spec => ImplementsFeed
<1>1. Init => Feed!Init
    BY DEF Init, Feed!Init, TickIdle, Announcing
<1>2. TypeOK /\ [Next]_vars => [Feed!Next]_Feed!feedVars
    <2>1. ASSUME TypeOK, Next PROVE [Feed!Next]_Feed!feedVars
        BY <2>1, FeedStep
    <2>2. ASSUME UNCHANGED vars PROVE UNCHANGED Feed!feedVars
        BY <2>2 DEF vars, Feed!feedVars
    <2> QED BY <2>1, <2>2
<1> QED BY <1>1, <1>2, TypeCorrect, PTL DEF Spec, ImplementsFeed, Feed!Spec

=============================================================================
