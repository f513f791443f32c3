---------------------------- MODULE LoadBalancer ----------------------------
(***************************************************************************)
(* The load balancer (services/loadbalancer): the in-memory registry of    *)
(* reachable instances and the goroutines that write it concurrently: the  *)
(* handler of service.updated with its point lookup, the periodic resync,  *)
(* the TTL sweep, the health checker, and the proxy's passive ejection.    *)
(* Its environment is InstanceFeed: the rows and hints of the              *)
(* ServiceInstance controller, which ServiceInstances implements.          *)
(*                                                                         *)
(* Time is discrete and relative.  A ticker that is due fires, and a query *)
(* or probe that reached its time limit ends, before time moves on.  A     *)
(* query takes up to QueryTime between what it read and what it writes.    *)
(***************************************************************************)
EXTENDS Integers

CONSTANTS
    Containers, Ports, NoPort, MaxPending,  \* see InstanceFeed
    ResyncInterval,       \* LOADBALANCER_RESYNC_INTERVAL
    InstanceTTL,          \* LOADBALANCER_INSTANCE_TTL
    HealthCheckInterval,  \* LOADBALANCER_HEALTH_CHECK_INTERVAL
    ProbeTimeout,         \* of the health checker's client
    EjectionWindow,       \* LOADBALANCER_EJECTION_WINDOW
    QueryTime             \* longest time a query to Postgres takes: a resync ends before the next

ASSUME BalancerAssumption ==
    /\ NoPort \notin Ports
    /\ {MaxPending, ResyncInterval, HealthCheckInterval, EjectionWindow} \subseteq Nat \ {0}
    /\ InstanceTTL \in Nat /\ InstanceTTL >= 3
    /\ {QueryTime, ProbeTimeout} \subseteq Nat
    /\ QueryTime < ResyncInterval

VARIABLES
    instances, hints, owed,  \* the feed
    rowAge,      \* how long a row has been as it is
    byDNS,       \* registered instances: their port
    lastSeen,    \* how long ago an instance was confirmed present
    lookup,      \* the point lookup between its read and its write
    resync,      \* the resync between its read and its write
    missed,      \* resyncs that failed in a row, 2 standing for more
    synced,      \* unless that is 2, how long ago the last resync was written
    due,         \* time to the next tick of the three tickers
    unhealthy,   \* how long Next still skips an instance
    probes,      \* the age of the probe in flight
    failing,     \* history: instances whose last probe failed, up to the next tick
    proxying     \* instances with a proxied request in flight

feed == <<instances, hints, owed>>
registry == <<byDNS, lastSeen, unhealthy>>
vars == <<feed, rowAge, registry, lookup, resync, synced, missed, due, probes, failing,
          proxying>>

Feed == INSTANCE InstanceFeed

SweepInterval == InstanceTTL \div 3
\* Ages beyond these are not told apart.
AgeCap == InstanceTTL + 1
Horizon == InstanceTTL + SweepInterval + QueryTime + 1
Never == -1   \* no entry in lastSeen; no probe in flight; no resync to speak of
Longer(a, b) == IF a > b THEN a ELSE b

NoLookup == [container |-> {}, port |-> NoPort, age |-> 0]
NoResync == [at |-> "idle", rows |-> [c \in Containers |-> NoPort], age |-> 0]

TypeOK ==
    /\ Feed!FeedTypeOK
    /\ rowAge \in [Containers -> 0..Horizon]
    /\ byDNS \in [Containers -> Ports \cup {NoPort}]
    /\ lastSeen \in [Containers -> Never..AgeCap]
    /\ lookup \in [container : SUBSET Containers, port : Ports \cup {NoPort}, age : 0..QueryTime]
    /\ resync \in [at : {"idle", "reading"}, rows : [Containers -> Ports \cup {NoPort}], age : 0..QueryTime]
    /\ synced \in Never..2 * ResyncInterval + QueryTime
    /\ missed \in 0..2
    /\ due \in [resync : 0..ResyncInterval, sweep : 0..SweepInterval, probe : 0..HealthCheckInterval]
    /\ unhealthy \in [Containers -> 0..Longer(EjectionWindow, HealthCheckInterval)]
    /\ probes \in [Containers -> Never..ProbeTimeout]
    /\ failing \in SUBSET Containers
    /\ proxying \in SUBSET Containers

\* Mutation of FreshTickers: the sweep runs once per TTL.
RareSweep == [resync |-> ResyncInterval, sweep |-> InstanceTTL, probe |-> HealthCheckInterval]

\* The tickers of main, started one after the other.
FreshTickers == [resync |-> ResyncInterval, sweep |-> SweepInterval, probe |-> HealthCheckInterval]

\* main resyncs once, which may fail, then subscribes and starts the tickers.
\* The process keeps nothing across a restart, so this is any start of it.
Init ==
    /\ instances \in [Containers -> Ports \cup {NoPort}]
    /\ hints = [c \in Containers |-> 0]
    /\ owed \in {{}} \cup {{c} : c \in Containers}
    /\ rowAge = [c \in Containers |-> 0]
    /\ \/ byDNS = instances /\ missed = 0 /\ synced = 0
       \/ byDNS = [c \in Containers |-> NoPort] /\ missed = 2 /\ synced = Never
    /\ lastSeen = [c \in Containers |-> IF byDNS[c] = NoPort THEN Never ELSE 0]
    /\ lookup = NoLookup
    /\ resync = NoResync
    /\ due = FreshTickers
    /\ unhealthy = [c \in Containers |-> 0]
    /\ probes = [c \in Containers |-> Never]
    /\ failing = {}
    /\ proxying = {}

-----------------------------------------------------------------------------
(* The feed: rows are written and hinted at, or disappear *)

FeedStep ==
    /\ \/ \E c \in Containers : \/ \E p \in Ports \cup {NoPort} : Feed!Write(c, p)
                                \/ Feed!Announce(c)
       \/ \E C \in SUBSET Containers : Feed!Cascade(C) /\ instances' # instances
       \/ Feed!Withhold
    /\ rowAge' = [c \in Containers |-> IF instances'[c] # instances[c] THEN 0 ELSE rowAge[c]]
    /\ UNCHANGED <<registry, lookup, resync, synced, missed, due, probes, failing, proxying>>

-----------------------------------------------------------------------------
(* The registry *)

\* Mutation of ReplaceAll: an instance that was registered before is not
\* counted as seen again.
ReplaceAllKeepsAge(rows) ==
    /\ byDNS' = rows
    /\ lastSeen' = [c \in Containers |-> IF rows[c] = NoPort THEN Never
                                         ELSE IF lastSeen[c] = Never THEN 0 ELSE lastSeen[c]]
    /\ unhealthy' = [c \in Containers |-> IF rows[c] = NoPort THEN 0 ELSE unhealthy[c]]

\* Mutation of ReplaceAll: bookkeeping of dropped instances is kept.
ReplaceAllKeepsDropped(rows) ==
    /\ byDNS' = rows
    /\ lastSeen' = [c \in Containers |-> IF rows[c] = NoPort THEN lastSeen[c] ELSE 0]
    /\ UNCHANGED unhealthy

ReplaceAll(rows) ==
    /\ byDNS' = rows
    /\ lastSeen' = [c \in Containers |-> IF rows[c] = NoPort THEN Never ELSE 0]
    /\ unhealthy' = [c \in Containers |-> IF rows[c] = NoPort THEN 0 ELSE unhealthy[c]]

\* Upsert
Register(c, p) ==
    /\ byDNS' = [byDNS EXCEPT ![c] = p]
    /\ lastSeen' = [lastSeen EXCEPT ![c] = 0]
    /\ UNCHANGED unhealthy

\* removeLocked; an instance that is not registered keeps its mark.
Remove(C) ==
    LET out == {c \in C : byDNS[c] # NoPort} IN
    /\ byDNS' = [c \in Containers |-> IF c \in out THEN NoPort ELSE byDNS[c]]
    /\ lastSeen' = [c \in Containers |-> IF c \in out THEN Never ELSE lastSeen[c]]
    /\ unhealthy' = [c \in Containers |-> IF c \in out THEN 0 ELSE unhealthy[c]]

MarkUnhealthy(c, window) ==
    /\ unhealthy' = [unhealthy EXCEPT ![c] = window]
    /\ UNCHANGED <<byDNS, lastSeen>>

MarkHealthy(c) ==
    /\ unhealthy' = [unhealthy EXCEPT ![c] = 0]
    /\ UNCHANGED <<byDNS, lastSeen>>

\* Next picks one of these; round robin's choice among them is left open.
Available(c) == byDNS[c] # NoPort /\ unhealthy[c] = 0

-----------------------------------------------------------------------------
(* handleServiceUpdated: one hint at a time *)

LookupRead(c) ==
    /\ lookup = NoLookup
    /\ Feed!Receive(c)
    /\ \/ lookup' = [container |-> {c}, port |-> instances[c], age |-> 0]
       \/ UNCHANGED lookup    \* the query fails
    /\ UNCHANGED <<rowAge, registry, resync, synced, missed, due, probes, failing, proxying>>

LookupApply(c) ==
    /\ lookup.container = {c}
    /\ IF lookup.port = NoPort THEN Remove({c}) ELSE Register(c, lookup.port)
    /\ lookup' = NoLookup
    /\ failing' = IF lookup.port = NoPort THEN failing \ {c} ELSE failing
    /\ UNCHANGED <<feed, rowAge, resync, synced, missed, due, probes, proxying>>

-----------------------------------------------------------------------------
(* The tickers *)

\* resync reads; on an error it keeps the previous contents.
ResyncRead ==
    /\ due.resync = 0 /\ resync.at = "idle"
    /\ due' = [due EXCEPT !.resync = ResyncInterval]
    /\ \/ /\ resync' = [at |-> "reading", rows |-> instances, age |-> 0]
          /\ UNCHANGED <<missed, synced>>
       \/ /\ missed' = IF missed < 2 THEN missed + 1 ELSE missed
          /\ synced' = IF missed = 0 THEN synced ELSE Never
          /\ UNCHANGED resync
    /\ UNCHANGED <<feed, rowAge, registry, lookup, probes, failing, proxying>>

ResyncApply ==
    /\ resync.at = "reading"
    /\ ReplaceAll(resync.rows)
    /\ resync' = NoResync
    /\ synced' = 0
    /\ missed' = 0
    /\ failing' = {c \in failing : resync.rows[c] # NoPort}
    /\ UNCHANGED <<feed, rowAge, lookup, due, probes, proxying>>

\* Mutation of Stale: an instance that answers its probes is spared.
StaleIfUnhealthy(c) == lastSeen[c] > InstanceTTL /\ unhealthy[c] > 0

Stale(c) == lastSeen[c] > InstanceTTL

Sweep ==
    /\ due.sweep = 0
    /\ due' = [due EXCEPT !.sweep = SweepInterval]
    /\ Remove({c \in Containers : Stale(c)})
    /\ failing' = {c \in failing : ~Stale(c)}
    /\ UNCHANGED <<feed, rowAge, lookup, resync, synced, missed, probes, proxying>>

\* probeAll probes every registered instance, ejected or not.
ProbeAll ==
    /\ due.probe = 0
    /\ due' = [due EXCEPT !.probe = HealthCheckInterval]
    /\ probes' = [c \in Containers |-> IF byDNS[c] # NoPort THEN 0 ELSE probes[c]]
    /\ failing' = {}
    /\ UNCHANGED <<feed, rowAge, registry, lookup, resync, synced, missed, proxying>>

\* Mutation of ProbeWindow: the mark lasts as long as a probe may.
ProbeWindowTimeout == ProbeTimeout
ProbeWindow == HealthCheckInterval

ProbeDone(c) ==
    /\ probes[c] # Never
    /\ probes' = [probes EXCEPT ![c] = Never]
    /\ \/ MarkUnhealthy(c, ProbeWindow) /\ failing' = failing \cup {c}
       \/ MarkHealthy(c) /\ failing' = failing \ {c}
    /\ UNCHANGED <<feed, rowAge, lookup, resync, synced, missed, due, proxying>>

-----------------------------------------------------------------------------
(* The proxy *)

ServeHTTP(c) ==
    /\ Available(c) /\ c \notin proxying
    /\ proxying' = proxying \cup {c}
    /\ UNCHANGED <<feed, rowAge, registry, lookup, resync, synced, missed, due, probes, failing>>

\* The error handler ejects the backend, however long ago it was chosen.
ProxyDone(c) ==
    /\ c \in proxying
    /\ proxying' = proxying \ {c}
    /\ MarkUnhealthy(c, EjectionWindow) \/ UNCHANGED registry
    /\ UNCHANGED <<feed, rowAge, lookup, resync, synced, missed, due, probes, failing>>

-----------------------------------------------------------------------------
Older(age, cap) == IF age < cap THEN age + 1 ELSE age

TimePasses ==
    /\ \A t \in DOMAIN due : due[t] > 0
    /\ lookup.age < QueryTime \/ lookup = NoLookup
    /\ resync.age < QueryTime \/ resync = NoResync
    /\ \A c \in Containers : probes[c] < ProbeTimeout
    /\ due' = [t \in DOMAIN due |-> due[t] - 1]
    /\ rowAge' = [c \in Containers |-> Older(rowAge[c], Horizon)]
    /\ lastSeen' = [c \in Containers |-> IF lastSeen[c] = Never THEN Never ELSE Older(lastSeen[c], AgeCap)]
    /\ lookup' = IF lookup = NoLookup THEN lookup ELSE [lookup EXCEPT !.age = @ + 1]
    /\ resync' = IF resync = NoResync THEN resync ELSE [resync EXCEPT !.age = @ + 1]
    /\ synced' = IF synced = Never THEN Never ELSE synced + 1
    /\ unhealthy' = [c \in Containers |-> IF unhealthy[c] > 0 THEN unhealthy[c] - 1 ELSE 0]
    /\ probes' = [c \in Containers |-> IF probes[c] = Never THEN Never ELSE probes[c] + 1]
    /\ UNCHANGED <<feed, byDNS, missed, failing, proxying>>

Next ==
    \/ FeedStep
    \/ \E c \in Containers : \/ LookupRead(c) \/ LookupApply(c) \/ ProbeDone(c)
                             \/ ServeHTTP(c) \/ ProxyDone(c)
    \/ ResyncRead \/ ResyncApply \/ Sweep \/ ProbeAll
    \/ TimePasses

Spec == Init /\ [][Next]_vars

-----------------------------------------------------------------------------
\* Every registered instance, and no other, is on Sweep's TTL clock, whichever
\* of the four writers of the registry came last.
OnTTLClock == \A c \in Containers : byDNS[c] = NoPort <=> lastSeen[c] = Never

\* The registry agrees with a row that has not changed since before the last
\* resync's read, whatever lookups and sweeps were in between: a lookup that read
\* an older row is overtaken, and "a single missed resync never trips" a TTL that
\* is long enough for two of them, as the default (three) is.
AgreesAfterResync ==
    2 * ResyncInterval + QueryTime <= InstanceTTL /\ missed <= 1 =>
       \A c \in Containers : rowAge[c] > synced + QueryTime => byDNS[c] = instances[c]

\* Even when every hint is lost and every resync fails, no request is routed to
\* an address its row has not had for TTL, one sweep interval and one query.
StaleAddressDropped ==
    \A c \in Containers :
       /\ byDNS[c] # NoPort
       /\ rowAge[c] > InstanceTTL + SweepInterval + QueryTime
       => byDNS[c] = instances[c]

\* An instance that failed its last probe is skipped until the next probe tick,
\* although the proxy's ejections write the same mark.
FailedProbeSkipped ==
    ProbeTimeout < HealthCheckInterval /\ HealthCheckInterval <= EjectionWindow =>
       (due.probe > 0 => \A c \in failing : ~Available(c))

=============================================================================
