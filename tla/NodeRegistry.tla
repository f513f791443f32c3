---------------------------- MODULE NodeRegistry ----------------------------
(***************************************************************************)
(* Node liveness: the register and heartbeat messages a worker publishes   *)
(* over core NATS (nodeagent.go), the scheduler's handlers that write the  *)
(* nodes table and its liveness sweep (registry.go).                       *)
(*                                                                         *)
(* Core NATS delivers at most once; register and heartbeat are separate    *)
(* subscriptions, so one may overtake the other.  Time is discrete and     *)
(* relative: a row or a message carries how long ago its timestamp was     *)
(* taken, and a row's age stops growing at HeartbeatTimeout, past which    *)
(* the code does not distinguish ages.  Clocks are synchronized.  The      *)
(* worker's select loop serves two tickers, one at a time: a health poll   *)
(* that takes a while holds up the heartbeat.                              *)
(***************************************************************************)
EXTENDS Integers, Sequences

CONSTANTS
    Nodes,
    HeartbeatInterval,     \* WORKER_HEARTBEAT_INTERVAL
    HealthCheckInterval,   \* of the worker's health poll
    HeartbeatTimeout,      \* SCHEDULER_HEARTBEAT_TIMEOUT
    MaxSetup,              \* subscribing, between the registration and the tickers
    MaxPoll,               \* a poll takes at most this long
    MaxDelay,              \* a heartbeat that arrives does so within this time
    MaxConsecutiveLosses,  \* heartbeats of one node lost in a row
    MaxLag,                \* from the sweep's list to its cutoff
    MaxStops               \* how often worker processes stop

ASSUME RegistryAssumption ==
    /\ HeartbeatInterval \in Nat \ {0}
    /\ HealthCheckInterval \in Nat \ {0}
    /\ HeartbeatTimeout \in Nat \ {0}
    /\ MaxSetup \in Nat /\ MaxLag \in Nat
    /\ MaxPoll \in Nat /\ MaxPoll < HealthCheckInterval /\ MaxPoll < HeartbeatInterval
    /\ MaxDelay \in Nat /\ MaxDelay < HeartbeatInterval /\ MaxDelay <= HeartbeatTimeout
    /\ MaxConsecutiveLosses \in Nat
    /\ MaxStops \in Nat

VARIABLES
    row,        \* nodes: status ("absent" before the first insert), age of last_heartbeat_at
    up,         \* the worker process runs
    due,        \* time to its heartbeat ticker's next tick, negative when that waits
    healthDue,  \* time to its health ticker's next tick
    poll,       \* how long the poll in progress has taken
    registerQ,  \* a register message is in flight
    heartbeatQ, \* ages of the heartbeats in flight
    marking,    \* nodes the sweep in progress found silent and has not marked yet
    lost,       \* heartbeats lost since the last delivered one
    stops       \* worker stops so far

loop == <<up, due, healthDue, poll>>
vars == <<row, loop, registerQ, heartbeatQ, marking, lost, stops>>

NoPoll == -1

TypeOK ==
    /\ row \in [Nodes -> [status : {"absent", "healthy", "unreachable"}, age : 0..HeartbeatTimeout]]
    /\ up \in [Nodes -> BOOLEAN]
    /\ due \in [Nodes -> -MaxPoll..HeartbeatInterval + MaxSetup]
    /\ healthDue \in [Nodes -> 0..HealthCheckInterval + MaxSetup]
    /\ poll \in [Nodes -> NoPoll..MaxPoll]
    /\ registerQ \in [Nodes -> BOOLEAN]
    /\ heartbeatQ \in [Nodes -> Seq(0..MaxDelay)]
    /\ marking \subseteq Nodes
    /\ lost \in [Nodes -> 0..MaxConsecutiveLosses]
    /\ stops \in 0..MaxStops

Init ==
    /\ row = [n \in Nodes |-> [status |-> "absent", age |-> 0]]
    /\ up = [n \in Nodes |-> FALSE]
    /\ due = [n \in Nodes |-> 0]
    /\ healthDue = [n \in Nodes |-> 0]
    /\ poll = [n \in Nodes |-> NoPoll]
    /\ registerQ = [n \in Nodes |-> FALSE]
    /\ heartbeatQ = [n \in Nodes |-> <<>>]
    /\ marking = {}
    /\ lost = [n \in Nodes |-> 0]
    /\ stops = 0

-----------------------------------------------------------------------------
(* The worker *)

\* Run publishes the registration once, subscribes, and starts the tickers; the
\* subscriptions take a while.
WorkerStart(n) ==
    /\ ~up[n]
    /\ up' = [up EXCEPT ![n] = TRUE]
    /\ registerQ' = [registerQ EXCEPT ![n] = TRUE]
    /\ \E setup \in 0..MaxSetup :
          /\ due' = [due EXCEPT ![n] = HeartbeatInterval + setup]
          /\ healthDue' = [healthDue EXCEPT ![n] = HealthCheckInterval + setup]
    /\ UNCHANGED <<row, poll, heartbeatQ, marking, lost, stops>>

WorkerStop(n) ==
    /\ up[n] /\ stops < MaxStops
    /\ up' = [up EXCEPT ![n] = FALSE]
    /\ stops' = stops + 1
    /\ due' = [due EXCEPT ![n] = 0]
    /\ healthDue' = [healthDue EXCEPT ![n] = 0]
    /\ poll' = [poll EXCEPT ![n] = NoPoll]
    /\ UNCHANGED <<row, registerQ, heartbeatQ, marking, lost>>

\* A tick that had to wait does not move the next one.
PublishHeartbeat(n) ==
    /\ up[n] /\ due[n] <= 0 /\ poll[n] = NoPoll
    /\ heartbeatQ' = [heartbeatQ EXCEPT ![n] = Append(@, 0)]
    /\ due' = [due EXCEPT ![n] = @ + HeartbeatInterval]
    /\ UNCHANGED <<row, up, healthDue, poll, registerQ, marking, lost, stops>>

\* checkTrackedContainers occupies the loop; when both tickers are due, select
\* takes either.
PollStart(n) ==
    /\ up[n] /\ healthDue[n] = 0 /\ poll[n] = NoPoll
    /\ poll' = [poll EXCEPT ![n] = 0]
    /\ healthDue' = [healthDue EXCEPT ![n] = HealthCheckInterval]
    /\ UNCHANGED <<row, up, due, registerQ, heartbeatQ, marking, lost, stops>>

PollEnd(n) ==
    /\ poll[n] # NoPoll
    /\ poll' = [poll EXCEPT ![n] = NoPoll]
    /\ UNCHANGED <<row, up, due, healthDue, registerQ, heartbeatQ, marking, lost, stops>>

-----------------------------------------------------------------------------
(* Core NATS *)

LoseRegister(n) ==
    /\ registerQ[n]
    /\ registerQ' = [registerQ EXCEPT ![n] = FALSE]
    /\ UNCHANGED <<row, loop, heartbeatQ, marking, lost, stops>>

LoseHeartbeat(n) ==
    /\ heartbeatQ[n] # <<>> /\ lost[n] < MaxConsecutiveLosses
    /\ heartbeatQ' = [heartbeatQ EXCEPT ![n] = Tail(@)]
    /\ lost' = [lost EXCEPT ![n] = @ + 1]
    /\ UNCHANGED <<row, loop, registerQ, marking, stops>>

-----------------------------------------------------------------------------
(* The scheduler *)

\* handleRegister upserts the row: healthy, last_heartbeat_at = now().
HandleRegister(n) ==
    /\ registerQ[n]
    /\ row' = [row EXCEPT ![n] = [status |-> "healthy", age |-> 0]]
    /\ registerQ' = [registerQ EXCEPT ![n] = FALSE]
    /\ UNCHANGED <<loop, heartbeatQ, marking, lost, stops>>

\* Mutation of HandleHeartbeat: only the timestamp is refreshed.
HeartbeatKeepsStatus(n) ==
    /\ heartbeatQ[n] # <<>>
    /\ row' = IF row[n].status = "absent" THEN row
              ELSE [row EXCEPT ![n].age = Head(heartbeatQ[n])]
    /\ heartbeatQ' = [heartbeatQ EXCEPT ![n] = Tail(@)]
    /\ lost' = [lost EXCEPT ![n] = 0]
    /\ UNCHANGED <<loop, registerQ, marking, stops>>

\* handleHeartbeat updates an existing row with the message's timestamp and
\* drops a heartbeat for an unregistered node.
HandleHeartbeat(n) ==
    /\ heartbeatQ[n] # <<>>
    /\ row' = IF row[n].status = "absent" THEN row
              ELSE [row EXCEPT ![n] = [status |-> "healthy", age |-> Head(heartbeatQ[n])]]
    /\ heartbeatQ' = [heartbeatQ EXCEPT ![n] = Tail(@)]
    /\ lost' = [lost EXCEPT ![n] = 0]
    /\ UNCHANGED <<loop, registerQ, marking, stops>>

\* Mutations of Silent: the timeout is one unit short; the status test is inverted.
SilentTooEarly(n, lag) == row[n].status = "healthy" /\ row[n].age + lag >= HeartbeatTimeout - 1
SilentInverted(n, lag) == row[n].status = "unreachable" /\ row[n].age + lag >= HeartbeatTimeout

\* sweepUnreachable skips a row marked already or younger than the timeout at
\* the cutoff, which is computed some time after the list.
Silent(n, lag) == row[n].status = "healthy" /\ row[n].age + lag >= HeartbeatTimeout

\* It lists the nodes first and then marks the silent ones one by one.
SweepList ==
    /\ marking = {}
    /\ \E lag \in 0..MaxLag :
          /\ \E n \in Nodes : Silent(n, lag)
          /\ marking' = {n \in Nodes : Silent(n, lag)}
    /\ UNCHANGED <<row, loop, registerQ, heartbeatQ, lost, stops>>

\* Mutation of SweepMark: a status the node_status type does not have.
SweepMarksOffline(n) ==
    /\ n \in marking
    /\ row' = [row EXCEPT ![n].status = "offline"]
    /\ marking' = marking \ {n}
    /\ UNCHANGED <<loop, registerQ, heartbeatQ, lost, stops>>

SweepMark(n) ==
    /\ n \in marking
    /\ row' = [row EXCEPT ![n].status = "unreachable"]
    /\ marking' = marking \ {n}
    /\ UNCHANGED <<loop, registerQ, heartbeatQ, lost, stops>>

\* Time passes unless a ticker is due or a message has been delayed enough.
TimePasses ==
    /\ \A n \in Nodes : /\ up[n] /\ poll[n] = NoPoll => due[n] > 0 /\ healthDue[n] > 0
                        /\ poll[n] < MaxPoll
                        /\ \A i \in 1..Len(heartbeatQ[n]) : heartbeatQ[n][i] < MaxDelay
    /\ row' = [n \in Nodes |->
          [row[n] EXCEPT !.age = IF row[n].status # "absent" /\ @ < HeartbeatTimeout THEN @ + 1
                                 ELSE @]]
    /\ due' = [n \in Nodes |-> IF up[n] THEN due[n] - 1 ELSE 0]
    /\ healthDue' = [n \in Nodes |-> IF up[n] THEN healthDue[n] - 1 ELSE 0]
    /\ poll' = [n \in Nodes |-> IF poll[n] = NoPoll THEN NoPoll ELSE poll[n] + 1]
    /\ heartbeatQ' = [n \in Nodes |-> [i \in 1..Len(heartbeatQ[n]) |-> heartbeatQ[n][i] + 1]]
    /\ UNCHANGED <<up, registerQ, marking, lost, stops>>

-----------------------------------------------------------------------------
Next ==
    \/ \E n \in Nodes : \/ WorkerStart(n) \/ WorkerStop(n) \/ PublishHeartbeat(n)
                        \/ PollStart(n) \/ PollEnd(n)
                        \/ LoseRegister(n) \/ LoseHeartbeat(n)
                        \/ HandleRegister(n) \/ HandleHeartbeat(n) \/ SweepMark(n)
    \/ SweepList
    \/ TimePasses

Spec == Init /\ [][Next]_vars

\* Tickers fire, time passes, the sweep finishes, and the scheduler handles
\* what reaches it.
Fairness ==
    /\ WF_vars(TimePasses) /\ WF_vars(SweepList)
    /\ \A n \in Nodes : /\ WF_vars(PublishHeartbeat(n)) /\ WF_vars(SweepMark(n))
                        /\ WF_vars(PollStart(n)) /\ WF_vars(PollEnd(n))
                        /\ WF_vars(HandleRegister(n)) /\ WF_vars(HandleHeartbeat(n))

FairSpec == Spec /\ Fairness

-----------------------------------------------------------------------------
\* A node whose worker has kept running is not marked unreachable as long as no
\* more heartbeats in a row are lost than the configured timeout allows for, the
\* worker's setup, one health poll in front of a heartbeat, its delay and the
\* sweep's lag included: "a single dropped heartbeat doesn't matter"
\* (nats-contract.md).
RunningNodeStaysHealthy ==
    (MaxConsecutiveLosses + 1) * HeartbeatInterval + MaxSetup + MaxPoll + MaxDelay + MaxLag < HeartbeatTimeout =>
       \A n \in Nodes : up[n] /\ stops = 0 => row[n].status # "unreachable" /\ n \notin marking

\* A worker that stopped for good leaves the healthy nodes for good, although a
\* heartbeat still in flight may mark it healthy once more after the sweep.
StoppedNodeDropsOut ==
    \A n \in Nodes : <>[](~up[n]) => <>[](row[n].status # "healthy")

\* A registered node that keeps running is healthy again and again, even when
\* the sweep marks it after a heartbeat it did not see.
RunningNodeRecovers ==
    \A n \in Nodes :
       <>[](up[n] /\ row[n].status # "absent") => []<>(row[n].status = "healthy")

=============================================================================
