-------------------------- MODULE LoadBalancerProofs --------------------------
(***************************************************************************)
(* Proofs about the load balancer's registry, for any set of containers    *)
(* and ports and any intervals, windows and query times.                   *)
(*                                                                         *)
(* The argument compares ages.  What a query read differs from the row     *)
(* only if the row changed after the read, so the row is no older than the *)
(* query; what was written into the registry differs from the row only if  *)
(* the row is no older than the write and the query before it.  The TTL    *)
(* and the resync ticker then bound how old a write can be.                *)
(***************************************************************************)
EXTENDS LoadBalancer, TLAPS

\* A query's answer that is not the row any more is older than the row.
LookupOverlaps ==
    \A c \in Containers :
       lookup.container = {c} /\ lookup.port # instances[c] => rowAge[c] <= lookup.age

ResyncOverlaps ==
    resync.at = "reading" =>
       \A c \in Containers : resync.rows[c] # instances[c] => rowAge[c] <= resync.age

\* The resync ticker: after one miss at most, the last write is less than two
\* intervals and a query ago.
Overdue == IF missed = 0 THEN ResyncInterval ELSE 2 * ResyncInterval
ResyncClock ==
    /\ missed = 2 <=> synced = Never
    /\ resync.at = "reading" => resync.age + due.resync = ResyncInterval
    /\ missed <= 1 =>
          IF resync.at = "reading" THEN synced <= Overdue + resync.age
                                   ELSE synced + due.resync <= Overdue

\* A wrong address is as old as its last confirmation and the query before it;
\* past the TTL only the next sweep is left to wait for.
WrongAddress(c) == byDNS[c] # NoPort /\ byDNS[c] # instances[c]
TTLClock ==
    \A c \in Containers : WrongAddress(c) =>
       IF lastSeen[c] <= InstanceTTL
       THEN rowAge[c] <= lastSeen[c] + QueryTime
       ELSE rowAge[c] + due.sweep <= InstanceTTL + SweepInterval + QueryTime

\* Every registered instance was confirmed by the last resync, or later.
SeenSinceResync ==
    missed <= 1 => \A c \in Containers : byDNS[c] # NoPort => lastSeen[c] <= synced

\* The mark of a failed probe lasts to the next probe tick.
MarkLasts ==
    HealthCheckInterval <= EjectionWindow => \A c \in failing : unhealthy[c] >= due.probe

\* What the readers of Postgres hold, and the clocks.
Clocks == ResyncClock /\ TTLClock /\ SeenSinceResync
Inv == /\ TypeOK /\ OnTTLClock /\ LookupOverlaps /\ ResyncOverlaps
       /\ Clocks /\ AgreesAfterResync /\ MarkLasts

-----------------------------------------------------------------------------
(* Constants and types *)

\* The intervals and caps are numbers, and the sweep's interval is one.
LEMMA Numbers ==
    /\ {MaxPending, ResyncInterval, HealthCheckInterval, EjectionWindow, InstanceTTL, QueryTime,
        ProbeTimeout, SweepInterval, AgeCap, Horizon} \subseteq Nat
    /\ ResyncInterval > 0 /\ HealthCheckInterval > 0 /\ SweepInterval > 0 /\ EjectionWindow > 0
    /\ AgeCap = InstanceTTL + 1 /\ Horizon = InstanceTTL + SweepInterval + QueryTime + 1
    /\ NoPort \notin Ports /\ Never = -1
<1>1. InstanceTTL \in Nat /\ InstanceTTL >= 3
    BY BalancerAssumption
<1>2. SweepInterval \in Nat /\ SweepInterval > 0
    BY <1>1 DEF SweepInterval
<1> QED
    BY <1>1, <1>2, BalancerAssumption DEF AgeCap, Horizon, Never

\* Windows and marks are numbers.
LEMMA Windows ==
    LET top == Longer(EjectionWindow, HealthCheckInterval)
    IN  top \in Nat /\ EjectionWindow <= top /\ HealthCheckInterval <= top
  BY Numbers DEF Longer

\* Aging stays below its cap.
LEMMA OlderType ==
    ASSUME NEW cap \in Nat, NEW age \in 0..cap
    PROVE  Older(age, cap) \in 0..cap /\ Older(age, cap) <= age + 1
                                      /\ (age < cap => Older(age, cap) = age + 1)
  BY DEF Older

\* Nothing in flight, and the tickers as they start, have their types.
LEMMA Fresh ==
    /\ NoLookup \in [container : SUBSET Containers, port : Ports \cup {NoPort}, age : 0..QueryTime]
    /\ NoResync \in [at : {"idle", "reading"}, rows : [Containers -> Ports \cup {NoPort}], age : 0..QueryTime]
    /\ FreshTickers \in [resync : 0..ResyncInterval, sweep : 0..SweepInterval, probe : 0..HealthCheckInterval]
  BY Numbers DEF NoLookup, NoResync, FreshTickers

\* The three operations on the registry keep its types and its clocks in step.
LEMMA RegistryOps ==
    ASSUME TypeOK, OnTTLClock
    PROVE  /\ \A c \in Containers, p \in Ports : Register(c, p) =>
                 /\ byDNS' \in [Containers -> Ports \cup {NoPort}] /\ lastSeen' \in [Containers -> Never..AgeCap]
                 /\ unhealthy' = unhealthy /\ OnTTLClock'
                 /\ byDNS'[c] = p /\ lastSeen'[c] = 0
                 /\ \A d \in Containers \ {c} : byDNS'[d] = byDNS[d] /\ lastSeen'[d] = lastSeen[d]
           /\ \A C \in SUBSET Containers : Remove(C) =>
                 /\ byDNS' \in [Containers -> Ports \cup {NoPort}] /\ lastSeen' \in [Containers -> Never..AgeCap]
                 /\ unhealthy' \in [Containers -> 0..Longer(EjectionWindow, HealthCheckInterval)] /\ OnTTLClock'
                 /\ \A d \in Containers : \/ byDNS'[d] = byDNS[d] /\ lastSeen'[d] = lastSeen[d] /\ unhealthy'[d] = unhealthy[d]
                                          \/ d \in C /\ byDNS'[d] = NoPort /\ lastSeen'[d] = Never
           /\ \A rows \in [Containers -> Ports \cup {NoPort}] : ReplaceAll(rows) =>
                 /\ byDNS' = rows /\ lastSeen' \in [Containers -> Never..AgeCap]
                 /\ unhealthy' \in [Containers -> 0..Longer(EjectionWindow, HealthCheckInterval)] /\ OnTTLClock'
                 /\ \A d \in Containers : /\ rows[d] # NoPort => lastSeen'[d] = 0 /\ unhealthy'[d] = unhealthy[d]
                                          /\ rows[d] = NoPort => lastSeen'[d] = Never
<1>0. /\ byDNS \in [Containers -> Ports \cup {NoPort}] /\ lastSeen \in [Containers -> Never..AgeCap]
      /\ unhealthy \in [Containers -> 0..Longer(EjectionWindow, HealthCheckInterval)]
      /\ Never \in Never..AgeCap /\ 0 \in Never..AgeCap /\ Never # 0
      /\ 0 \in 0..Longer(EjectionWindow, HealthCheckInterval)
    BY Numbers, Windows DEF TypeOK
<1>1. ASSUME NEW c \in Containers, NEW p \in Ports, Register(c, p)
      PROVE  /\ byDNS' \in [Containers -> Ports \cup {NoPort}] /\ lastSeen' \in [Containers -> Never..AgeCap]
             /\ unhealthy' = unhealthy /\ OnTTLClock'
             /\ byDNS'[c] = p /\ lastSeen'[c] = 0
             /\ \A d \in Containers \ {c} : byDNS'[d] = byDNS[d] /\ lastSeen'[d] = lastSeen[d]
    BY <1>0, <1>1, Numbers DEF Register, OnTTLClock
<1>2. ASSUME NEW C \in SUBSET Containers, Remove(C)
      PROVE  /\ byDNS' \in [Containers -> Ports \cup {NoPort}] /\ lastSeen' \in [Containers -> Never..AgeCap]
             /\ unhealthy' \in [Containers -> 0..Longer(EjectionWindow, HealthCheckInterval)] /\ OnTTLClock'
             /\ \A d \in Containers : \/ byDNS'[d] = byDNS[d] /\ lastSeen'[d] = lastSeen[d] /\ unhealthy'[d] = unhealthy[d]
                                      \/ d \in C /\ byDNS'[d] = NoPort /\ lastSeen'[d] = Never
    BY <1>0, <1>2 DEF Remove, OnTTLClock
<1>3. ASSUME NEW rows \in [Containers -> Ports \cup {NoPort}], ReplaceAll(rows)
      PROVE  /\ byDNS' = rows /\ lastSeen' \in [Containers -> Never..AgeCap]
             /\ unhealthy' \in [Containers -> 0..Longer(EjectionWindow, HealthCheckInterval)] /\ OnTTLClock'
             /\ \A d \in Containers : /\ rows[d] # NoPort => lastSeen'[d] = 0 /\ unhealthy'[d] = unhealthy[d]
                                      /\ rows[d] = NoPort => lastSeen'[d] = Never
    BY <1>0, <1>3 DEF ReplaceAll, OnTTLClock
<1> QED
    BY <1>1, <1>2, <1>3

\* Time passes for each of the tickers.
LEMMA TickersRun ==
    ASSUME TypeOK, TimePasses
    PROVE  /\ due' \in [resync : 0..ResyncInterval, sweep : 0..SweepInterval, probe : 0..HealthCheckInterval]
           /\ due.resync > 0 /\ due'.resync = due.resync - 1
           /\ due.sweep > 0 /\ due'.sweep = due.sweep - 1
           /\ due.probe > 0 /\ due'.probe = due.probe - 1
<1>1. due \in [resync : 0..ResyncInterval, sweep : 0..SweepInterval, probe : 0..HealthCheckInterval]
    BY DEF TypeOK
<1>2. DOMAIN due = {"resync", "sweep", "probe"}
    BY <1>1
<1>3. /\ due.resync > 0 /\ due'.resync = due.resync - 1
      /\ due.sweep > 0 /\ due'.sweep = due.sweep - 1
      /\ due.probe > 0 /\ due'.probe = due.probe - 1
    BY <1>2 DEF TimePasses
<1>4. due' = [resync |-> due'.resync, sweep |-> due'.sweep, probe |-> due'.probe]
    BY <1>2 DEF TimePasses
<1>5. /\ due'.resync \in 0..ResyncInterval /\ due'.sweep \in 0..SweepInterval
      /\ due'.probe \in 0..HealthCheckInterval
    BY <1>1, <1>3, Numbers
<1> QED
    BY <1>3, <1>4, <1>5

-----------------------------------------------------------------------------
(* The initial states and the steps *)

\* A start of the process, its first resync written or failed.
LEMMA InitInv == Init => Inv
<1> SUFFICES ASSUME Init PROVE Inv
    OBVIOUS
<1>1. Feed!FeedTypeOK
    BY Numbers DEF Init, Feed!FeedTypeOK
<1>2. /\ byDNS \in [Containers -> Ports \cup {NoPort}] /\ lastSeen \in [Containers -> Never..AgeCap]
      /\ rowAge \in [Containers -> 0..Horizon]
      /\ unhealthy \in [Containers -> 0..Longer(EjectionWindow, HealthCheckInterval)]
      /\ probes \in [Containers -> Never..ProbeTimeout]
    BY Numbers, Windows DEF Init
<1>3. synced \in Never..2 * ResyncInterval + QueryTime /\ missed \in 0..2
    BY Numbers DEF Init
<1>4. TypeOK
    BY <1>1, <1>2, <1>3, Fresh DEF Init, TypeOK
<1>5. OnTTLClock
  <2>1. \A c \in Containers : lastSeen[c] = IF byDNS[c] = NoPort THEN Never ELSE 0
    BY DEF Init
  <2>2. Never # 0
    BY Numbers
  <2> QED
    BY <2>1, <2>2 DEF OnTTLClock
<1>6. LookupOverlaps /\ ResyncOverlaps /\ MarkLasts
    BY DEF Init, LookupOverlaps, ResyncOverlaps, MarkLasts, NoLookup, NoResync
<1>7. ResyncClock
    BY Numbers DEF Init, ResyncClock, Overdue, NoResync, FreshTickers
<1>8. TTLClock /\ SeenSinceResync
    BY Numbers DEF Init, TTLClock, SeenSinceResync, WrongAddress
<1>9. AgreesAfterResync
    BY Numbers DEF Init, AgreesAfterResync
<1> QED
    BY <1>4, <1>5, <1>6, <1>7, <1>8, <1>9 DEF Inv, Clocks

\* A write, a hint, a lost hint or a cascade keeps the types of the feed.
LEMMA FeedTypes ==
    ASSUME Feed!FeedTypeOK, FeedStep
    PROVE  Feed!FeedTypeOK'
<1>1. ASSUME NEW c \in Containers, NEW p \in Ports \cup {NoPort}, Feed!Write(c, p)
      PROVE  Feed!FeedTypeOK'
    BY <1>1 DEF Feed!Write, Feed!FeedTypeOK
<1>2. ASSUME NEW c \in Containers, Feed!Announce(c)
      PROVE  Feed!FeedTypeOK'
    BY <1>2, Numbers DEF Feed!Announce, Feed!FeedTypeOK
<1>3. ASSUME NEW C \in SUBSET Containers, Feed!Cascade(C)
      PROVE  Feed!FeedTypeOK'
    BY <1>3 DEF Feed!Cascade, Feed!FeedTypeOK
<1>4. ASSUME Feed!Withhold
      PROVE  Feed!FeedTypeOK'
    BY <1>4 DEF Feed!Withhold, Feed!FeedTypeOK
<1> QED
    BY <1>1, <1>2, <1>3, <1>4 DEF FeedStep

\* Rows change: what the queries and the registry hold may now be wrong, but the
\* row that makes it so is new.
LEMMA FeedStepKeeps == ASSUME Inv, FeedStep PROVE Inv'
<1> USE DEF registry
<1>1. TypeOK'
  <2>1. Feed!FeedTypeOK'
    BY FeedTypes DEF Inv, TypeOK
  <2>2. rowAge' \in [Containers -> 0..Horizon]
    BY Numbers DEF Inv, TypeOK, FeedStep
  <2> QED
    BY <2>1, <2>2 DEF Inv, TypeOK, FeedStep
<1>2. \A c \in Containers : \/ instances'[c] = instances[c] /\ rowAge'[c] = rowAge[c]
                            \/ rowAge'[c] = 0
    BY DEF FeedStep
<1>3. LookupOverlaps' /\ ResyncOverlaps'
  <2>1. lookup.age >= 0 /\ resync.age >= 0
    BY Numbers DEF Inv, TypeOK
  <2> QED
    BY <1>2, <2>1 DEF Inv, FeedStep, LookupOverlaps, ResyncOverlaps
<1>4. ResyncClock'
    BY DEF Inv, Clocks, ResyncClock, Overdue, FeedStep
<1>5. TTLClock'
  <2>1. \A c \in Containers : byDNS[c] # NoPort => lastSeen[c] >= 0
    BY Numbers DEF Inv, TypeOK, OnTTLClock
  <2>2. due.sweep <= SweepInterval /\ due.sweep \in Nat
    BY Numbers DEF Inv, TypeOK
  <2>3. \A c \in Containers : lastSeen[c] \in Int
    BY Numbers DEF Inv, TypeOK
  <2> QED
    BY <1>2, <2>1, <2>2, <2>3, Numbers DEF Inv, Clocks, TTLClock, WrongAddress, FeedStep
<1>6. SeenSinceResync' /\ MarkLasts' /\ OnTTLClock'
    BY DEF Inv, Clocks, SeenSinceResync, MarkLasts, OnTTLClock, FeedStep
<1>7. AgreesAfterResync'
  <2>1. missed <= 1 => synced >= 0
    BY Numbers DEF Inv, TypeOK, Clocks, ResyncClock
  <2>2. synced \in Int
    BY Numbers DEF Inv, TypeOK
  <2> QED
    BY <1>2, <2>1, <2>2, Numbers DEF Inv, AgreesAfterResync, FeedStep
<1> QED
    BY <1>1, <1>3, <1>4, <1>5, <1>6, <1>7 DEF Inv, Clocks

\* A hint is received and its row read: what was read is the row.
LEMMA LookupReadKeeps == ASSUME Inv, NEW c \in Containers, LookupRead(c) PROVE Inv'
<1> USE DEF registry
<1>1. TypeOK'
  <2>1. Feed!FeedTypeOK'
    BY Numbers DEF Inv, TypeOK, LookupRead, Feed!Receive, Feed!FeedTypeOK
  <2>2. lookup' \in [container : SUBSET Containers, port : Ports \cup {NoPort}, age : 0..QueryTime]
    BY Numbers DEF Inv, TypeOK, LookupRead, Feed!FeedTypeOK
  <2> QED
    BY <2>1, <2>2 DEF Inv, TypeOK, LookupRead
<1>2. instances' = instances
    BY DEF LookupRead, Feed!Receive
<1>3. LookupOverlaps'
    BY <1>2 DEF Inv, LookupRead, LookupOverlaps
<1>4. ResyncOverlaps' /\ ResyncClock' /\ SeenSinceResync' /\ MarkLasts' /\ OnTTLClock'
    BY <1>2 DEF Inv, Clocks, ResyncOverlaps, ResyncClock, Overdue, SeenSinceResync, MarkLasts,
                OnTTLClock, LookupRead
<1>5. TTLClock' /\ AgreesAfterResync'
    BY <1>2 DEF Inv, Clocks, TTLClock, WrongAddress, AgreesAfterResync, LookupRead
<1> QED
    BY <1>1, <1>3, <1>4, <1>5 DEF Inv, Clocks

\* The answer is written: a wrong one is no older than the query.
LEMMA LookupApplyKeeps == ASSUME Inv, NEW c \in Containers, LookupApply(c) PROVE Inv'
<1> USE DEF feed
<1>1. /\ TypeOK /\ OnTTLClock /\ lookup.age \in 0..QueryTime
      /\ lookup.port \in Ports \cup {NoPort}
      /\ lookup.port # instances[c] => rowAge[c] <= QueryTime
  <2>1. lookup.port # instances[c] => rowAge[c] <= lookup.age
    BY DEF Inv, LookupOverlaps, LookupApply
  <2> QED
    BY <2>1, Numbers DEF Inv, TypeOK
<1>2. /\ byDNS' \in [Containers -> Ports \cup {NoPort}] /\ lastSeen' \in [Containers -> Never..AgeCap]
      /\ unhealthy' \in [Containers -> 0..Longer(EjectionWindow, HealthCheckInterval)] /\ OnTTLClock'
      /\ \A d \in Containers \ {c} : /\ byDNS'[d] = byDNS[d] /\ lastSeen'[d] = lastSeen[d]
                                     /\ unhealthy'[d] = unhealthy[d]
      /\ byDNS'[c] = lookup.port
      /\ lookup.port # NoPort => lastSeen'[c] = 0 /\ unhealthy'[c] = unhealthy[c]
  <2>1. CASE lookup.port # NoPort
    <3>1. Register(c, lookup.port) /\ lookup.port \in Ports
      BY <1>1, <2>1 DEF LookupApply
    <3> QED
      BY <1>1, <2>1, <3>1, RegistryOps DEF TypeOK
  <2>2. CASE lookup.port = NoPort
    <3>1. Remove({c})
      BY <2>2 DEF LookupApply
    <3>2. byDNS'[c] = NoPort
      BY <1>1, <3>1 DEF Remove, TypeOK
    <3> QED
      BY <1>1, <2>2, <3>1, <3>2, RegistryOps
  <2> QED
    BY <2>1, <2>2
<1>3. TypeOK'
    BY <1>1, <1>2, Fresh DEF TypeOK, LookupApply, Feed!FeedTypeOK
<1>4. LookupOverlaps' /\ ResyncOverlaps' /\ ResyncClock'
    BY DEF Inv, Clocks, LookupOverlaps, ResyncOverlaps, ResyncClock, Overdue, LookupApply, NoLookup
<1>5. TTLClock'
    BY <1>1, <1>2, Numbers DEF Inv, Clocks, TTLClock, WrongAddress, LookupApply
<1>6. missed <= 1 => synced >= 0
    BY Numbers DEF Inv, TypeOK, Clocks, ResyncClock
<1>7. SeenSinceResync'
    BY <1>1, <1>2, <1>6 DEF Inv, Clocks, SeenSinceResync, LookupApply
<1>8. AgreesAfterResync'
  <2>1. synced \in Int /\ rowAge[c] \in Int
    BY Numbers DEF Inv, TypeOK
  <2> QED
    BY <1>1, <1>2, <1>6, <2>1, Numbers DEF Inv, AgreesAfterResync, LookupApply
<1>9. MarkLasts'
    BY <1>1, <1>2 DEF Inv, MarkLasts, LookupApply, TypeOK
<1> QED
    BY <1>2, <1>3, <1>4, <1>5, <1>7, <1>8, <1>9 DEF Inv, Clocks

\* The resync reads all rows, or fails.
LEMMA ResyncReadKeeps == ASSUME Inv, ResyncRead PROVE Inv'
<1> USE DEF feed, registry
<1>1. /\ TypeOK /\ missed \in 0..2 /\ synced \in Int /\ due.resync = 0
      /\ due \in [resync : 0..ResyncInterval, sweep : 0..SweepInterval, probe : 0..HealthCheckInterval]
    BY Numbers DEF Inv, TypeOK, ResyncRead
<1>2. /\ due' \in [resync : 0..ResyncInterval, sweep : 0..SweepInterval, probe : 0..HealthCheckInterval]
      /\ due'.resync = ResyncInterval /\ due'.sweep = due.sweep /\ due'.probe = due.probe
    BY <1>1, Numbers DEF ResyncRead
<1>3. CASE resync' = [at |-> "reading", rows |-> instances, age |-> 0] /\ UNCHANGED <<missed, synced>>
  <2>1. TypeOK'
    BY <1>1, <1>2, <1>3, Numbers DEF TypeOK, ResyncRead, Feed!FeedTypeOK
  <2>2. ResyncOverlaps'
    BY <1>3 DEF ResyncOverlaps, ResyncRead
  <2>3. ResyncClock'
    BY <1>1, <1>2, <1>3, Numbers DEF Inv, Clocks, ResyncClock, Overdue, ResyncRead
  <2> QED
    BY <1>2, <1>3, <2>1, <2>2, <2>3
    DEF Inv, Clocks, LookupOverlaps, TTLClock, WrongAddress, SeenSinceResync, AgreesAfterResync,
        MarkLasts, OnTTLClock, ResyncRead
<1>4. CASE /\ missed' = IF missed < 2 THEN missed + 1 ELSE missed
           /\ synced' = IF missed = 0 THEN synced ELSE Never
           /\ UNCHANGED resync
  <2>1. missed' \in 0..2 /\ (missed' = 2 <=> synced' = Never)
        /\ (missed' <= 1 => missed = 0 /\ missed' = 1 /\ synced' = synced)
    BY <1>1, <1>4, Numbers DEF Inv, Clocks, ResyncClock
  <2>2. synced' \in Never..2 * ResyncInterval + QueryTime
    BY <1>1, <1>4, Numbers DEF Inv, TypeOK
  <2>3. TypeOK'
    BY <1>1, <1>2, <1>4, <2>1, <2>2 DEF TypeOK, ResyncRead, Feed!FeedTypeOK
  <2>4. ResyncClock'
    BY <1>1, <1>2, <1>4, <2>1, Numbers DEF Inv, Clocks, ResyncClock, Overdue, ResyncRead
  <2> QED
    BY <1>2, <1>4, <2>1, <2>3, <2>4
    DEF Inv, Clocks, LookupOverlaps, ResyncOverlaps, TTLClock, WrongAddress, SeenSinceResync,
        AgreesAfterResync, MarkLasts, OnTTLClock, ResyncRead
<1> QED
    BY <1>3, <1>4 DEF ResyncRead

\* The rows read are written: wrong ones are no older than the query, and every
\* instance has been seen just now.
LEMMA ResyncApplyKeeps == ASSUME Inv, ResyncApply PROVE Inv'
<1> USE DEF feed
<1>1. /\ TypeOK /\ OnTTLClock /\ resync.age \in 0..QueryTime
      /\ resync.rows \in [Containers -> Ports \cup {NoPort}]
      /\ \A c \in Containers : resync.rows[c] # instances[c] => rowAge[c] <= QueryTime
  <2>1. \A c \in Containers : resync.rows[c] # instances[c] => rowAge[c] <= resync.age
    BY DEF Inv, ResyncOverlaps, ResyncApply
  <2> QED
    BY <2>1, Numbers DEF Inv, TypeOK
<1>2. /\ byDNS' = resync.rows /\ lastSeen' \in [Containers -> Never..AgeCap]
      /\ unhealthy' \in [Containers -> 0..Longer(EjectionWindow, HealthCheckInterval)] /\ OnTTLClock'
      /\ \A d \in Containers : byDNS'[d] # NoPort => lastSeen'[d] = 0 /\ unhealthy'[d] = unhealthy[d]
    BY <1>1, RegistryOps DEF ResyncApply
<1>3. TypeOK'
    BY <1>1, <1>2, Fresh, Numbers DEF TypeOK, ResyncApply, Feed!FeedTypeOK
<1>4. LookupOverlaps' /\ ResyncOverlaps'
    BY DEF Inv, LookupOverlaps, ResyncOverlaps, ResyncApply, NoResync
<1>5. ResyncClock'
    BY <1>1, Numbers DEF TypeOK, ResyncClock, Overdue, ResyncApply, NoResync
<1>6. TTLClock'
    BY <1>1, <1>2, Numbers DEF TTLClock, WrongAddress, ResyncApply
<1>7. SeenSinceResync'
    BY <1>2 DEF SeenSinceResync, ResyncApply
<1>8. AgreesAfterResync'
  <2>1. \A c \in Containers : rowAge[c] \in Int
    BY Numbers DEF Inv, TypeOK
  <2> QED
    BY <1>1, <1>2, <2>1, Numbers DEF AgreesAfterResync, ResyncApply
<1>9. MarkLasts'
    BY <1>2 DEF Inv, MarkLasts, ResyncApply, TypeOK
<1> QED
    BY <1>2, <1>3, <1>4, <1>5, <1>6, <1>7, <1>8, <1>9 DEF Inv, Clocks

\* The sweep drops what has not been seen for TTL, so no wrong address outlives
\* it; while at most one resync was missed there is nothing to drop.
LEMMA SweepKeeps == ASSUME Inv, Sweep PROVE Inv'
<1> USE DEF feed
<1>1. /\ TypeOK /\ OnTTLClock
      /\ due \in [resync : 0..ResyncInterval, sweep : 0..SweepInterval, probe : 0..HealthCheckInterval]
      /\ \A c \in Containers : lastSeen[c] \in Int
    BY Numbers DEF Inv, TypeOK
<1>2. /\ due' \in [resync : 0..ResyncInterval, sweep : 0..SweepInterval, probe : 0..HealthCheckInterval]
      /\ due'.resync = due.resync /\ due'.sweep = SweepInterval /\ due'.probe = due.probe
    BY <1>1, Numbers DEF Sweep
<1>3. /\ byDNS' \in [Containers -> Ports \cup {NoPort}] /\ lastSeen' \in [Containers -> Never..AgeCap]
      /\ unhealthy' \in [Containers -> 0..Longer(EjectionWindow, HealthCheckInterval)] /\ OnTTLClock'
      /\ \A d \in Containers :
            \/ byDNS'[d] = byDNS[d] /\ lastSeen'[d] = lastSeen[d] /\ unhealthy'[d] = unhealthy[d]
            \/ Stale(d) /\ byDNS'[d] = NoPort
  <2>1. Remove({c \in Containers : Stale(c)}) /\ {c \in Containers : Stale(c)} \in SUBSET Containers
    BY DEF Sweep
  <2> QED
    BY <1>1, <2>1, RegistryOps
<1>4. \A d \in Containers : Stale(d) => byDNS'[d] = NoPort
    BY <1>1 DEF Sweep, Remove, TypeOK
<1>5. TypeOK'
    BY <1>1, <1>2, <1>3 DEF TypeOK, Sweep, Feed!FeedTypeOK
<1>6. LookupOverlaps' /\ ResyncOverlaps' /\ ResyncClock'
    BY <1>2 DEF Inv, Clocks, LookupOverlaps, ResyncOverlaps, ResyncClock, Overdue, Sweep
<1>7. TTLClock'
    BY <1>1, <1>3, <1>4, Numbers DEF Inv, Clocks, TTLClock, WrongAddress, Stale, Sweep
<1>8. SeenSinceResync'
    BY <1>3 DEF Inv, Clocks, SeenSinceResync, Sweep
<1>9. AgreesAfterResync'
  <2> SUFFICES ASSUME 2 * ResyncInterval + QueryTime <= InstanceTTL, missed <= 1, NEW c \in Containers
               PROVE  byDNS'[c] = byDNS[c]
    BY DEF Inv, AgreesAfterResync, Sweep
  <2>1. synced <= 2 * ResyncInterval + QueryTime /\ synced \in Int
    BY Numbers DEF Inv, TypeOK
  <2>2. byDNS[c] # NoPort => lastSeen[c] <= synced
    BY DEF Inv, Clocks, SeenSinceResync
  <2> QED
    BY <1>1, <1>3, <2>1, <2>2, Numbers DEF Stale
<1>10. MarkLasts'
    BY <1>1, <1>2, <1>3 DEF Inv, MarkLasts, Sweep, TypeOK
<1> QED
    BY <1>3, <1>5, <1>6, <1>7, <1>8, <1>9, <1>10 DEF Inv, Clocks

\* A probe tick starts afresh.
LEMMA ProbeAllKeeps == ASSUME Inv, ProbeAll PROVE Inv'
<1> USE DEF feed, registry
<1>1. /\ due' \in [resync : 0..ResyncInterval, sweep : 0..SweepInterval, probe : 0..HealthCheckInterval]
      /\ due'.resync = due.resync /\ due'.sweep = due.sweep
    BY Numbers DEF Inv, TypeOK, ProbeAll
<1>2. TypeOK'
    BY <1>1, Numbers DEF Inv, TypeOK, ProbeAll, Feed!FeedTypeOK
<1>3. LookupOverlaps' /\ ResyncOverlaps' /\ ResyncClock' /\ MarkLasts'
    BY <1>1 DEF Inv, Clocks, LookupOverlaps, ResyncOverlaps, ResyncClock, Overdue, MarkLasts, ProbeAll
<1> QED
    BY <1>1, <1>2, <1>3 DEF Inv, Clocks, TTLClock, WrongAddress, SeenSinceResync,
                            AgreesAfterResync, OnTTLClock, ProbeAll

\* Steps that only mark instances keep everything but the marks.
LEMMA MarksOnly ==
    ASSUME Inv, TypeOK', MarkLasts',
           UNCHANGED <<feed, rowAge, byDNS, lastSeen, lookup, resync, synced, missed, due>>
    PROVE  Inv'
<1> USE DEF feed
<1>1. LookupOverlaps' /\ ResyncOverlaps' /\ ResyncClock'
    BY DEF Inv, Clocks, LookupOverlaps, ResyncOverlaps, ResyncClock, Overdue
<1> QED
    BY <1>1 DEF Inv, Clocks, TTLClock, WrongAddress, SeenSinceResync, AgreesAfterResync, OnTTLClock

\* A mark lasts as long as it was set for.
LEMMA MarkType ==
    ASSUME TypeOK, NEW c \in Containers, NEW w \in {0, EjectionWindow, HealthCheckInterval},
           unhealthy' = [unhealthy EXCEPT ![c] = w]
    PROVE  /\ unhealthy' \in [Containers -> 0..Longer(EjectionWindow, HealthCheckInterval)]
           /\ unhealthy'[c] = w /\ \A d \in Containers \ {c} : unhealthy'[d] = unhealthy[d]
  BY Numbers, Windows DEF TypeOK

\* A probe writes the mark of one address and leaves the registry alone.
LEMMA ProbeDoneKeeps == ASSUME Inv, NEW c \in Containers, ProbeDone(c) PROVE Inv'
<1> USE DEF feed
<1>1. TypeOK /\ probes' \in [Containers -> Never..ProbeTimeout]
    BY Numbers DEF Inv, TypeOK, ProbeDone
<1>2. due.probe <= HealthCheckInterval
    BY Numbers DEF Inv, TypeOK
<1>3. UNCHANGED <<feed, rowAge, byDNS, lastSeen, lookup, resync, synced, missed, due, proxying>>
    BY DEF ProbeDone, MarkUnhealthy, MarkHealthy
<1>4. CASE MarkUnhealthy(c, ProbeWindow) /\ failing' = failing \cup {c}
  <2>1. unhealthy' = [unhealthy EXCEPT ![c] = HealthCheckInterval]
    BY <1>4 DEF MarkUnhealthy, ProbeWindow
  <2>2. TypeOK'
    BY <1>1, <1>3, <1>4, <2>1, MarkType DEF TypeOK, Feed!FeedTypeOK
  <2>3. MarkLasts'
    BY <1>1, <1>2, <1>3, <1>4, <2>1, MarkType DEF Inv, MarkLasts, TypeOK
  <2> QED
    BY <1>3, <2>2, <2>3, MarksOnly
<1>5. CASE MarkHealthy(c) /\ failing' = failing \ {c}
  <2>1. unhealthy' = [unhealthy EXCEPT ![c] = 0]
    BY <1>5 DEF MarkHealthy
  <2>2. TypeOK'
    BY <1>1, <1>3, <1>5, <2>1, MarkType DEF TypeOK, Feed!FeedTypeOK
  <2>3. MarkLasts'
    BY <1>1, <1>3, <1>5, <2>1, MarkType DEF Inv, MarkLasts, TypeOK
  <2> QED
    BY <1>3, <2>2, <2>3, MarksOnly
<1> QED
    BY <1>4, <1>5 DEF ProbeDone

\* Routing a request reads the registry and changes nothing Inv is about.
LEMMA ServeHTTPKeeps == ASSUME Inv, NEW c \in Containers, ServeHTTP(c) PROVE Inv'
<1>1. TypeOK' /\ MarkLasts'
    BY DEF Inv, TypeOK, MarkLasts, ServeHTTP, feed, registry, Feed!FeedTypeOK
<1> QED
    BY <1>1, MarksOnly DEF ServeHTTP, registry

\* An ejection does not shorten the mark of a failed probe.
LEMMA ProxyDoneKeeps == ASSUME Inv, NEW c \in Containers, ProxyDone(c) PROVE Inv'
<1> USE DEF feed, registry
<1>1. TypeOK /\ proxying' \in SUBSET Containers
    BY DEF Inv, TypeOK, ProxyDone
<1>2. due.probe <= HealthCheckInterval /\ due.probe \in Int
    BY Numbers DEF Inv, TypeOK
<1>3. UNCHANGED <<feed, rowAge, byDNS, lastSeen, lookup, resync, synced, missed, due, probes, failing>>
    BY DEF ProxyDone, MarkUnhealthy
<1>4. CASE MarkUnhealthy(c, EjectionWindow)
  <2>1. unhealthy' = [unhealthy EXCEPT ![c] = EjectionWindow]
    BY <1>4 DEF MarkUnhealthy
  <2>2. TypeOK'
    BY <1>1, <1>3, <2>1, MarkType DEF TypeOK, Feed!FeedTypeOK
  <2>3. MarkLasts'
    BY <1>1, <1>2, <1>3, <2>1, MarkType, Numbers DEF Inv, MarkLasts, TypeOK
  <2> QED
    BY <1>3, <2>2, <2>3, MarksOnly
<1>5. CASE UNCHANGED registry
  <2>1. TypeOK' /\ MarkLasts'
    BY <1>1, <1>3, <1>5 DEF Inv, TypeOK, MarkLasts, Feed!FeedTypeOK
  <2> QED
    BY <1>3, <2>1, MarksOnly
<1> QED
    BY <1>4, <1>5 DEF ProxyDone

\* All ages grow together, up to their caps.
LEMMA TimePassesKeeps == ASSUME Inv, TimePasses PROVE Inv'
<1> USE DEF feed
<1>1. /\ TypeOK /\ OnTTLClock
      /\ due' \in [resync : 0..ResyncInterval, sweep : 0..SweepInterval, probe : 0..HealthCheckInterval]
      /\ due.resync > 0 /\ due'.resync = due.resync - 1
      /\ due.sweep > 0 /\ due'.sweep = due.sweep - 1
      /\ due.probe > 0 /\ due'.probe = due.probe - 1
    BY TickersRun DEF Inv
<1>2. /\ due.resync \in 0..ResyncInterval /\ due.sweep \in 0..SweepInterval
      /\ due.probe \in 0..HealthCheckInterval
      /\ synced \in Int /\ synced >= -1 /\ missed \in 0..2
    BY <1>1, Numbers DEF TypeOK
<1>3. /\ rowAge' \in [Containers -> 0..Horizon]
      /\ \A c \in Containers : rowAge[c] \in Nat /\ rowAge'[c] \in Nat /\ rowAge'[c] <= rowAge[c] + 1
    BY <1>1, OlderType, Numbers DEF TypeOK, TimePasses
<1>4. \A c \in Containers : /\ lastSeen[c] \in Never..AgeCap
                            /\ lastSeen'[c] = IF lastSeen[c] = Never THEN Never
                                              ELSE Older(lastSeen[c], AgeCap)
    BY <1>1 DEF TypeOK, TimePasses
<1>5. /\ lastSeen' \in [Containers -> Never..AgeCap]
      /\ \A c \in Containers :
            /\ lastSeen[c] = Never => lastSeen'[c] = Never
            /\ lastSeen[c] # Never => /\ lastSeen[c] >= 0 /\ lastSeen'[c] # Never
                                      /\ lastSeen'[c] \in 0..AgeCap /\ lastSeen'[c] <= lastSeen[c] + 1
                                      /\ lastSeen[c] <= InstanceTTL => lastSeen'[c] = lastSeen[c] + 1
  <2>1. ASSUME NEW c \in Containers, lastSeen[c] # Never
        PROVE  /\ lastSeen[c] >= 0 /\ lastSeen'[c] # Never
               /\ lastSeen'[c] \in 0..AgeCap /\ lastSeen'[c] <= lastSeen[c] + 1
               /\ lastSeen[c] <= InstanceTTL => lastSeen'[c] = lastSeen[c] + 1
    <3>1. lastSeen[c] \in 0..AgeCap
      BY <1>4, <2>1, Numbers
    <3>2. lastSeen'[c] = Older(lastSeen[c], AgeCap)
      BY <1>4, <2>1
    <3>3. AgeCap \in Nat /\ InstanceTTL \in Nat /\ AgeCap = InstanceTTL + 1 /\ Never = -1
      BY Numbers
    <3>4. /\ lastSeen'[c] \in 0..AgeCap /\ lastSeen'[c] <= lastSeen[c] + 1
          /\ lastSeen[c] < AgeCap => lastSeen'[c] = lastSeen[c] + 1
      BY <3>1, <3>2, <3>3, OlderType
    <3> QED
      BY <3>1, <3>3, <3>4
  <2>2. \A c \in Containers : lastSeen[c] = Never => lastSeen'[c] = Never
    BY <1>4
  <2>3. \A c \in Containers : lastSeen'[c] \in Never..AgeCap
    BY <2>1, <2>2, Numbers
  <2> QED
    BY <2>1, <2>2, <2>3 DEF TimePasses
<1>6. /\ lookup' \in [container : SUBSET Containers, port : Ports \cup {NoPort}, age : 0..QueryTime]
      /\ lookup'.container = lookup.container /\ lookup'.port = lookup.port
      /\ \A c \in Containers : lookup.container = {c} => lookup'.age = lookup.age + 1
  <2>1. lookup \in [container : SUBSET Containers, port : Ports \cup {NoPort}, age : 0..QueryTime]
    BY <1>1 DEF TypeOK
  <2>2. \A c \in Containers : lookup.container = {c} => lookup # NoLookup
    BY DEF NoLookup
  <2> QED
    BY <2>1, <2>2, Numbers DEF TimePasses
<1>7. /\ resync' \in [at : {"idle", "reading"}, rows : [Containers -> Ports \cup {NoPort}], age : 0..QueryTime]
      /\ resync'.at = resync.at /\ resync'.rows = resync.rows
      /\ resync.at = "reading" => resync'.age = resync.age + 1
      /\ resync.age \in 0..QueryTime /\ resync'.age \in 0..QueryTime
  <2>1. resync \in [at : {"idle", "reading"}, rows : [Containers -> Ports \cup {NoPort}], age : 0..QueryTime]
    BY <1>1 DEF TypeOK
  <2>2. resync.at = "reading" => resync # NoResync
    BY DEF NoResync
  <2> QED
    BY <2>1, <2>2, Numbers DEF TimePasses
<1>8. missed' = missed /\ (missed = 2 => synced' = Never) /\ (missed <= 1 => synced >= 0 /\ synced' = synced + 1)
    BY <1>2, Numbers DEF Inv, Clocks, ResyncClock, TimePasses
<1>9. ResyncClock'
  <2>1. missed = 2 <=> synced' = Never
    BY <1>2, <1>8, Numbers
  <2>2. resync'.at = "reading" => resync'.age + due'.resync = ResyncInterval
    BY <1>1, <1>2, <1>7, Numbers DEF Inv, Clocks, ResyncClock
  <2>3. Overdue' = Overdue /\ Overdue \in Nat
    BY <1>8, Numbers DEF Overdue
  <2>4. missed <= 1 => IF resync.at = "reading" THEN synced' <= Overdue + resync'.age
                                                 ELSE synced' + due'.resync <= Overdue
    BY <1>1, <1>2, <1>7, <1>8, <2>3, Numbers DEF Inv, Clocks, ResyncClock
  <2> QED
    BY <1>7, <1>8, <2>1, <2>2, <2>3, <2>4 DEF ResyncClock
<1>10. synced' \in Never..2 * ResyncInterval + QueryTime
  <2>1. missed <= 1 => synced' <= 2 * ResyncInterval + QueryTime
    BY <1>1, <1>2, <1>7, <1>8, <1>9, Numbers DEF ResyncClock, Overdue
  <2> QED
    BY <1>2, <1>8, <2>1, Numbers
<1>11. /\ unhealthy' \in [Containers -> 0..Longer(EjectionWindow, HealthCheckInterval)]
       /\ \A c \in Containers : unhealthy[c] >= due.probe => unhealthy'[c] >= due'.probe
    BY <1>1, <1>2, Windows DEF TypeOK, TimePasses
<1>12. probes' \in [Containers -> Never..ProbeTimeout]
    BY <1>1, Numbers DEF TypeOK, TimePasses
<1>13. TypeOK'
    BY <1>1, <1>3, <1>5, <1>6, <1>7, <1>10, <1>11, <1>12 DEF TypeOK, TimePasses, Feed!FeedTypeOK
<1>14. OnTTLClock'
    BY <1>1, <1>5 DEF OnTTLClock, TimePasses
<1>15. LookupOverlaps'
  <2>1. lookup.age \in Int
    BY <1>1, Numbers DEF TypeOK
  <2> QED
    BY <1>3, <1>6, <2>1 DEF Inv, LookupOverlaps, TimePasses
<1>16. ResyncOverlaps'
    BY <1>3, <1>7, Numbers DEF Inv, ResyncOverlaps, TimePasses
<1>17. TTLClock'
  <2> SUFFICES ASSUME NEW c \in Containers, WrongAddress(c)
               PROVE  IF lastSeen'[c] <= InstanceTTL
                      THEN rowAge'[c] <= lastSeen'[c] + QueryTime
                      ELSE rowAge'[c] + due'.sweep <= InstanceTTL + SweepInterval + QueryTime
    BY DEF TTLClock, WrongAddress, TimePasses
  <2>1. /\ lastSeen[c] # Never /\ lastSeen[c] \in Nat
        /\ lastSeen'[c] \in Nat /\ lastSeen'[c] <= lastSeen[c] + 1
        /\ lastSeen[c] <= InstanceTTL => lastSeen'[c] = lastSeen[c] + 1
        /\ lastSeen[c] > InstanceTTL => lastSeen'[c] > InstanceTTL
    <3>1. lastSeen[c] # Never
      BY DEF Inv, OnTTLClock, WrongAddress
    <3>2. lastSeen[c] > InstanceTTL => lastSeen'[c] > InstanceTTL
      BY <1>4, <3>1, Numbers DEF Older
    <3> QED
      BY <1>4, <1>5, <3>1, <3>2, Numbers
  <2>2. IF lastSeen[c] <= InstanceTTL
        THEN rowAge[c] <= lastSeen[c] + QueryTime
        ELSE rowAge[c] + due.sweep <= InstanceTTL + SweepInterval + QueryTime
    BY DEF Inv, Clocks, TTLClock
  <2> QED
    BY <1>1, <1>2, <1>3, <2>1, <2>2, Numbers
<1>18. SeenSinceResync'
  <2> SUFFICES ASSUME missed <= 1, NEW c \in Containers, byDNS[c] # NoPort
               PROVE  lastSeen'[c] <= synced'
    BY <1>8 DEF SeenSinceResync, TimePasses
  <2>1. lastSeen[c] # Never /\ lastSeen[c] <= synced
    BY DEF Inv, Clocks, OnTTLClock, SeenSinceResync
  <2> QED
    BY <1>2, <1>4, <1>5, <1>8, <2>1, Numbers
<1>19. AgreesAfterResync'
  <2> SUFFICES ASSUME 2 * ResyncInterval + QueryTime <= InstanceTTL, missed <= 1, NEW c \in Containers,
                      rowAge'[c] > synced' + QueryTime
               PROVE  byDNS[c] = instances[c]
    BY <1>8 DEF AgreesAfterResync, TimePasses
  <2>1. rowAge[c] > synced + QueryTime
    BY <1>2, <1>3, <1>8, Numbers
  <2> QED
    BY <2>1 DEF Inv, AgreesAfterResync
<1>20. MarkLasts'
    BY <1>1, <1>11 DEF Inv, MarkLasts, TypeOK, TimePasses
<1> QED
    BY <1>9, <1>13, <1>14, <1>15, <1>16, <1>17, <1>18, <1>19, <1>20 DEF Inv, Clocks

-----------------------------------------------------------------------------
(* The theorems *)

\* Types, queries, clocks and marks hold together in every step of every goroutine.
LEMMA InvInductive == Inv /\ [Next]_vars => Inv'
<1> SUFFICES ASSUME Inv, [Next]_vars PROVE Inv'
    OBVIOUS
<1>1. CASE UNCHANGED vars
    BY <1>1, MarksOnly DEF vars, feed, registry, Inv, TypeOK, MarkLasts, Feed!FeedTypeOK
<1>2. CASE Next
    BY <1>2, FeedStepKeeps, LookupReadKeeps, LookupApplyKeeps, ProbeDoneKeeps, ServeHTTPKeeps,
       ProxyDoneKeeps, ResyncReadKeeps, ResyncApplyKeeps, SweepKeeps, ProbeAllKeeps, TimePassesKeeps
    DEF Next
<1> QED
    BY <1>1, <1>2

\* Inv holds throughout: the registry, the clocks of its entries, the two
\* overlapping refreshes of main.go and the marks of the health prober fit together.
THEOREM InvInvariant == Spec => []Inv
  BY InitInv, InvInductive, PTL DEF Spec

\* Every field of the registry, the refreshes and the prober keeps its type.
THEOREM TypeCorrect == Spec => []TypeOK
<1>1. Inv => TypeOK
    BY DEF Inv
<1> QED
    BY <1>1, InvInvariant, PTL

\* registry.go: every write of byDNS keeps lastSeen in step, so that Sweep sees
\* every registered instance and nothing else.
THEOREM EveryInstanceExpires == Spec => []OnTTLClock
<1>1. Inv => OnTTLClock
    BY DEF Inv
<1> QED
    BY <1>1, InvInvariant, PTL

\* main.go: no lookup, sweep or single missed resync leaves the registry at odds
\* with a row that was there before the last resync read.
THEOREM RegistryAgrees == Spec => []AgreesAfterResync
<1>1. Inv => AgreesAfterResync
    BY DEF Inv
<1> QED
    BY <1>1, InvInvariant, PTL

\* main.go: the TTL bounds how long a wrong address is routed to when everything
\* that would correct it fails.
THEOREM StaleAddressesExpire == Spec => []StaleAddressDropped
<1>1. Inv => StaleAddressDropped
  <2> SUFFICES ASSUME Inv, NEW c \in Containers, byDNS[c] # NoPort,
                      rowAge[c] > InstanceTTL + SweepInterval + QueryTime, byDNS[c] # instances[c]
               PROVE  FALSE
    BY DEF StaleAddressDropped
  <2>1. /\ rowAge[c] \in Nat /\ due.sweep \in Nat /\ lastSeen[c] \in Int
    BY Numbers DEF Inv, TypeOK
  <2>2. IF lastSeen[c] <= InstanceTTL
        THEN rowAge[c] <= lastSeen[c] + QueryTime
        ELSE rowAge[c] + due.sweep <= InstanceTTL + SweepInterval + QueryTime
    BY DEF Inv, Clocks, TTLClock, WrongAddress
  <2> QED
    BY <2>1, <2>2, Numbers
<1> QED
    BY <1>1, InvInvariant, PTL

\* healthcheck.go: the mark of a failed probe covers the time to the next tick,
\* whatever the proxy's error handler writes over it.
THEOREM FailedProbesSkipped == Spec => []FailedProbeSkipped
<1>1. Inv => FailedProbeSkipped
  <2> SUFFICES ASSUME Inv, HealthCheckInterval <= EjectionWindow, due.probe > 0, NEW c \in failing
               PROVE  ~Available(c)
    BY DEF FailedProbeSkipped
  <2>1. due.probe \in Nat /\ c \in Containers /\ unhealthy[c] >= due.probe
    BY Numbers DEF Inv, TypeOK, MarkLasts
  <2> QED
    BY <2>1 DEF Available
<1> QED
    BY <1>1, InvInvariant, PTL

=============================================================================
