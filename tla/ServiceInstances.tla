-------------------------- MODULE ServiceInstances --------------------------
(***************************************************************************)
(* The ServiceInstance controller (serviceinstance.go): a consumer that    *)
(* caches the ports workers report, and a tick that derives the rows of    *)
(* services and service_instances from the containers table.  The rest of  *)
(* the platform appears as the changes of that table it makes.             *)
(*                                                                         *)
(* The controller implements InstanceFeed, which the load balancer reads.  *)
(***************************************************************************)
EXTENDS Naturals, Sequences, FiniteSets

CONSTANTS
    Containers,
    Applications,
    AppOf,         \* the application a container belongs to
    Ports,
    NoPort,
    MaxPending,    \* see InstanceFeed
    MaxReports,    \* running statuses workers publish
    MaxRecords,    \* statuses recorded and containers superseded
    MaxErrors,     \* failing database calls and publishes
    MaxRestarts    \* restarts of the controller-manager

ASSUME DiscoveryAssumption ==
    /\ AppOf \in [Containers -> Applications]
    /\ NoPort \notin Ports
    /\ MaxPending \in Nat \ {0}
    /\ {MaxReports, MaxRecords, MaxErrors, MaxRestarts} \subseteq Nat

VARIABLES
    status,      \* containers.status; "deleted" when the row is gone
    latest,      \* containers of their application's latest, not failed, deployment
    reported,    \* the ports a worker ever reported for a container
    statusQ,     \* NODE_STATUS as the port consumer has not acked it
    ports,       \* portsByContainer
    services,    \* applications with a services row
    instances,   \* service_instances
    hints,       \* service.updated in flight
    tick,        \* where the tick is, what it listed and has left, the container at hand
    budget,      \* reports, records, errors and restarts so far
    (* history *)
    heard,       \* the port handled last for a container since the controller started
    ended        \* containers that were recorded as stopped or crashed at some time

vars == <<status, latest, reported, statusQ, ports, services, instances, hints, tick, budget,
          heard, ended>>
environment == <<status, latest, reported, ended>>

Statuses == {"pending", "running", "stopped", "crashed", "deleted"}
TickIdle == [at |-> "idle", todo |-> {}, cur |-> {}, port |-> NoPort]
\* Points of the tick at which a row has been written and its hint is due.
Announcing == {"announceUpsert", "announceDelete"}

TypeOK ==
    /\ status \in [Containers -> Statuses]
    /\ latest \in SUBSET Containers
    /\ reported \in [Containers -> SUBSET Ports]
    /\ statusQ \in Seq([container : Containers, port : Ports])
    /\ ports \in [Containers -> Ports \cup {NoPort}]
    /\ services \in SUBSET Applications
    /\ instances \in [Containers -> Ports \cup {NoPort}]
    /\ hints \in [Containers -> 0..MaxPending]
    /\ tick \in [at : {"idle", "candidates", "service", "upsert", "orphans", "forget"} \cup Announcing,
                 todo : SUBSET Containers, cur : SUBSET Containers, port : Ports \cup {NoPort}]
    /\ budget \in [reports : 0..MaxReports, records : 0..MaxRecords,
                   errors : 0..MaxErrors, restarts : 0..MaxRestarts]
    /\ heard \in [Containers -> Ports \cup {NoPort}]
    /\ ended \in SUBSET Containers

Init ==
    /\ status = [c \in Containers |-> "pending"]
    /\ latest = Containers
    /\ reported = [c \in Containers |-> {}]
    /\ statusQ = <<>>
    /\ ports = [c \in Containers |-> NoPort]
    /\ services = {}
    /\ instances = [c \in Containers |-> NoPort]
    /\ hints = [c \in Containers |-> 0]
    /\ tick = TickIdle
    /\ budget = [reports |-> 0, records |-> 0, errors |-> 0, restarts |-> 0]
    /\ heard = [c \in Containers |-> NoPort]
    /\ ended = {}

-----------------------------------------------------------------------------
(* The rest of the platform *)

\* A worker started the container of an assignment and publishes running with
\* its ports; a redelivered assignment starts another one on another port.
ReportRunning(c, p) ==
    /\ budget.reports < MaxReports
    /\ reported' = [reported EXCEPT ![c] = @ \cup {p}]
    /\ statusQ' = Append(statusQ, [container |-> c, port |-> p])
    /\ budget' = [budget EXCEPT !.reports = @ + 1]
    /\ UNCHANGED <<status, latest, ended, ports, heard, services, instances, hints, tick>>

\* The scheduler's consumer of the same stream writes the status it received
\* last; running only once some worker reported it.
RecordStatus(c, s) ==
    /\ budget.records < MaxRecords
    /\ status[c] \notin {"deleted", s}
    /\ s = "running" => reported[c] # {}
    /\ status' = [status EXCEPT ![c] = s]
    /\ ended' = IF s = "running" THEN ended ELSE ended \cup {c}
    /\ budget' = [budget EXCEPT !.records = @ + 1]
    /\ UNCHANGED <<latest, reported, statusQ, ports, heard, services, instances, hints, tick>>

\* A new deployment supersedes the one of the container, or it is marked failed.
Supersede(c) ==
    /\ c \in latest /\ budget.records < MaxRecords
    /\ latest' = latest \ {c}
    /\ budget' = [budget EXCEPT !.records = @ + 1]
    /\ UNCHANGED <<status, reported, ended, statusQ, ports, heard, services, instances, hints, tick>>

\* Deleting an application cascades to its containers, service and instances.
DeleteApplication(a) ==
    LET gone == {c \in Containers : AppOf[c] = a} IN
    /\ \E c \in gone : status[c] # "deleted"
    /\ status' = [c \in Containers |-> IF c \in gone THEN "deleted" ELSE status[c]]
    /\ services' = services \ {a}
    /\ instances' = [c \in Containers |-> IF c \in gone THEN NoPort ELSE instances[c]]
    /\ UNCHANGED <<latest, reported, ended, statusQ, ports, heard, hints, tick, budget>>

\* The load balancer's subscription takes a hint.
Receive(c) ==
    /\ hints[c] > 0
    /\ hints' = [hints EXCEPT ![c] = @ - 1]
    /\ UNCHANGED <<environment, statusQ, ports, heard, services, instances, tick, budget>>

-----------------------------------------------------------------------------
(* The port consumer *)

\* handleStatus caches the first port; the message is acked afterwards.
HandleStatus ==
    /\ statusQ # <<>>
    /\ ports' = [ports EXCEPT ![Head(statusQ).container] = Head(statusQ).port]
    /\ heard' = [heard EXCEPT ![Head(statusQ).container] = Head(statusQ).port]
    /\ statusQ' = Tail(statusQ)
    /\ UNCHANGED <<environment, services, instances, hints, tick, budget>>

\* A restart loses the cache and the tick.  The consumer is a durable one: it
\* resumes behind the acked messages instead of replaying them.
Restart ==
    /\ budget.restarts < MaxRestarts
    /\ ports' = [c \in Containers |-> NoPort]
    /\ heard' = [c \in Containers |-> NoPort]
    /\ tick' = TickIdle
    /\ budget' = [budget EXCEPT !.restarts = @ + 1]
    /\ UNCHANGED <<environment, statusQ, services, instances, hints>>

-----------------------------------------------------------------------------
(* The tick *)

\* ListRunningCandidates
Candidate(c) == status[c] = "running" /\ c \in latest

\* Mutation of Orphaned: only a stopped container's row is an orphan.
OrphanedIfStopped(c) == instances[c] # NoPort /\ status[c] = "stopped"

\* ListOrphanedInstances
Orphaned(c) == instances[c] # NoPort /\ status[c] # "running"

At(p, todo, cur, port) == [at |-> p, todo |-> todo, cur |-> cur, port |-> port]
Fails == budget.errors < MaxErrors /\ budget' = [budget EXCEPT !.errors = @ + 1]

\* An error of the listing leaves no candidates; the tick goes on to the orphans.
ListCandidates ==
    /\ tick.at = "idle"
    /\ \/ /\ tick' = At("candidates", {c \in Containers : Candidate(c)}, {}, NoPort)
          /\ UNCHANGED budget
       \/ tick' = At("candidates", {}, {}, NoPort) /\ Fails
    /\ UNCHANGED <<environment, statusQ, ports, heard, services, instances, hints>>

\* Mutation of PortFor: the cache does not tell containers apart.
AnyPort(c) ==
    IF \A d \in Containers : ports[d] = NoPort THEN NoPort
    ELSE ports[CHOOSE d \in Containers : ports[d] # NoPort]
PortFor(c) == ports[c]

\* reconcileCandidate skips a container whose port is not known.
TakeCandidate(c) ==
    /\ tick.at = "candidates" /\ c \in tick.todo
    /\ tick' = IF PortFor(c) = NoPort THEN At("candidates", tick.todo \ {c}, {}, NoPort)
               ELSE At("service", tick.todo \ {c}, {c}, PortFor(c))
    /\ UNCHANGED <<environment, statusQ, ports, heard, services, instances, hints, budget>>

NextCandidate == At("candidates", tick.todo, {}, NoPort)

\* Mutation of ServiceKey: the service is looked up by the container's id.
ContainerKey(c) == c

\* GetOrCreate is called with the candidate's application.
ServiceKey(c) == AppOf[c]

\* GetOrCreate; the application's row may be gone.
EnsureService(c) ==
    /\ tick.at = "service" /\ tick.cur = {c}
    /\ \/ /\ status[c] # "deleted"
          /\ services' = services \cup {ServiceKey(c)}
          /\ tick' = [tick EXCEPT !.at = "upsert"]
          /\ UNCHANGED budget
       \/ /\ tick' = NextCandidate
          /\ \/ status[c] = "deleted" /\ UNCHANGED budget
             \/ status[c] # "deleted" /\ Fails
          /\ UNCHANGED services
    /\ UNCHANGED <<environment, statusQ, ports, heard, instances, hints>>

\* Mutation of UpsertedPort: ON CONFLICT DO NOTHING.
InsertedPort(c) == IF instances[c] = NoPort THEN tick.port ELSE instances[c]
UpsertedPort(c) == tick.port

\* Upsert, with the foreign keys to the container and the service.
Upsert(c) ==
    /\ tick.at = "upsert" /\ tick.cur = {c}
    /\ \/ /\ status[c] # "deleted" /\ ServiceKey(c) \in services
          /\ instances' = [instances EXCEPT ![c] = UpsertedPort(c)]
          /\ tick' = [tick EXCEPT !.at = "announceUpsert"]
          /\ UNCHANGED budget
       \/ /\ tick' = NextCandidate
          /\ \/ status[c] = "deleted" /\ UNCHANGED budget
             \/ status[c] # "deleted" /\ Fails
          /\ UNCHANGED instances
    /\ UNCHANGED <<environment, statusQ, ports, heard, services, hints>>

\* The subscriber's buffer drops what does not fit.
Hinted(c) == [hints EXCEPT ![c] = IF @ < MaxPending THEN @ + 1 ELSE @]

\* publishUpdated only logs an error.
PublishUpserted(c) ==
    /\ tick.at = "announceUpsert" /\ tick.cur = {c}
    /\ \/ hints' = Hinted(c) /\ UNCHANGED budget
       \/ UNCHANGED hints /\ Fails
    /\ tick' = NextCandidate
    /\ UNCHANGED <<environment, statusQ, ports, heard, services, instances>>

\* An error of the listing ends the tick.
ListOrphans ==
    /\ tick.at = "candidates" /\ tick.todo = {}
    /\ \/ /\ tick' = At("orphans", {c \in Containers : Orphaned(c)}, {}, NoPort)
          /\ UNCHANGED budget
       \/ tick' = TickIdle /\ Fails
    /\ UNCHANGED <<environment, statusQ, ports, heard, services, instances, hints>>

\* Mutation of DeleteOrphan: the hint is sent first, and the row deleted after it.
HintBeforeDelete(c) ==
    /\ tick.at = "orphans" /\ c \in tick.todo
    /\ \/ /\ tick.cur = {} /\ instances[c] # NoPort
          /\ hints' = Hinted(c)
          /\ tick' = [tick EXCEPT !.cur = {c}]
          /\ UNCHANGED instances
       \/ /\ tick.cur = {c}
          /\ instances' = [instances EXCEPT ![c] = NoPort]
          /\ tick' = At("forget", tick.todo \ {c}, {c}, NoPort)
          /\ UNCHANGED hints
       \/ /\ tick.cur = {} /\ instances[c] = NoPort
          /\ tick' = At("orphans", tick.todo \ {c}, {}, NoPort)
          /\ UNCHANGED <<instances, hints>>
    /\ UNCHANGED <<environment, statusQ, ports, heard, services, budget>>

\* DeleteByContainer; a row that is gone already, or an error, skips the rest.
DeleteOrphan(c) ==
    /\ tick.at = "orphans" /\ c \in tick.todo
    /\ \/ /\ instances[c] # NoPort
          /\ instances' = [instances EXCEPT ![c] = NoPort]
          /\ tick' = At("announceDelete", tick.todo \ {c}, {c}, NoPort)
          /\ UNCHANGED budget
       \/ /\ tick' = At("orphans", tick.todo \ {c}, {}, NoPort)
          /\ \/ instances[c] = NoPort /\ UNCHANGED budget
             \/ instances[c] # NoPort /\ Fails
          /\ UNCHANGED instances
    /\ UNCHANGED <<environment, statusQ, ports, heard, services, hints>>

PublishDeleted(c) ==
    /\ tick.at = "announceDelete" /\ tick.cur = {c}
    /\ \/ hints' = Hinted(c) /\ UNCHANGED budget
       \/ UNCHANGED hints /\ Fails
    /\ tick' = [tick EXCEPT !.at = "forget"]
    /\ UNCHANGED <<environment, statusQ, ports, heard, services, instances>>

ForgetPort(c) ==
    /\ tick.at = "forget" /\ tick.cur = {c}
    /\ ports' = [ports EXCEPT ![c] = NoPort]
    /\ tick' = At("orphans", tick.todo, {}, NoPort)
    /\ UNCHANGED <<environment, statusQ, heard, services, instances, hints, budget>>

TickDone ==
    /\ tick.at = "orphans" /\ tick.todo = {}
    /\ tick' = TickIdle
    /\ UNCHANGED <<environment, statusQ, ports, heard, services, instances, hints, budget>>

TickStep ==
    \/ ListCandidates \/ ListOrphans \/ TickDone
    \/ \E c \in Containers :
          \/ TakeCandidate(c) \/ EnsureService(c) \/ Upsert(c) \/ PublishUpserted(c)
          \/ DeleteOrphan(c) \/ PublishDeleted(c) \/ ForgetPort(c)

-----------------------------------------------------------------------------
Next ==
    \/ \E c \in Containers :
          \/ \E p \in Ports : ReportRunning(c, p)
          \/ \E s \in {"running", "stopped", "crashed"} : RecordStatus(c, s)
          \/ Supersede(c) \/ Receive(c)
    \/ \E a \in Applications : DeleteApplication(a)
    \/ HandleStatus
    \/ Restart
    \/ TickStep

Spec == Init /\ [][Next]_vars

\* The ticker fires, a tick that runs goes on, and the consumer is served.
FairSpec == Spec /\ WF_vars(TickStep) /\ WF_vars(HandleStatus)

-----------------------------------------------------------------------------
\* The controller implements the feed: whatever workers, statuses, deletes,
\* errors and restarts do between the steps of a tick, a row is written first,
\* then hinted at, and never two before one is hinted at.
Feed == INSTANCE InstanceFeed WITH
            owed <- IF tick.at \in Announcing THEN tick.cur ELSE {}
ImplementsFeed == Feed!Spec

\* A row never carries a port that no worker reported for its container, although
\* the cache outlives the container and the row it came from.
RowPortReported ==
    \A c \in Containers : instances[c] # NoPort => instances[c] \in reported[c]

\* A container that is not running any more loses its row for good, also when it
\* stopped between the listing of candidates and the upsert.
StoppedRowRemoved ==
    \A c \in Containers : <>[](status[c] # "running") => <>[](instances[c] = NoPort)

\* A running container of the latest deployment gets a row, with the port reported
\* last, once the controller has handled a report of it, and keeps it through ticks
\* and errors: nothing forgets the port of a container that goes on running.
\* The code gives up on such a container in two cases.  After a restart nothing
\* has been heard; and a container that was recorded as ended and runs again has
\* its row only while the port is cached, which tick forgets with the orphan
\* ("never revived", serviceinstance.go).
CandidateRegistered ==
    \A c \in Containers :
       <>[](Candidate(c) /\ heard[c] # NoPort /\ (c \in ended => ports[c] # NoPort))
          => <>[](instances[c] = heard[c])

=============================================================================
