-------------------------- MODULE NodeRegistryProofs --------------------------
(***************************************************************************)
(* Proofs about node liveness, for any number of nodes and any intervals,  *)
(* delays and losses the assumption admits: types, and that a running node *)
(* stays healthy as long as its timeout covers the heartbeats that may be  *)
(* lost, a poll in front of one and its delay.                             *)
(*                                                                         *)
(* The argument is about the ticks of the heartbeat ticker.  A tick never  *)
(* moves, although the heartbeat sent for it may be late, so the age of a  *)
(* row is bounded by counting ticks: those whose heartbeats were lost and  *)
(* those whose heartbeats are in flight.                                   *)
(***************************************************************************)
EXTENDS NodeRegistry, TLAPS, SequenceTheorems

\* Row and heartbeats of one node.
RowType == [status : {"absent", "healthy", "unreachable"}, age : 0..HeartbeatTimeout]

\* The select loop: a tick waits at most for the poll in progress, and a poll
\* that ended leaves time before the next.
Loops ==
    \A n \in Nodes :
       /\ poll[n] # NoPoll => /\ up[n] /\ -poll[n] <= due[n]
                              /\ healthDue[n] = HealthCheckInterval - poll[n]
       /\ poll[n] = NoPoll /\ due[n] < 0 => healthDue[n] > 0

TypeInv == TypeOK /\ Loops

\* Time since the tick for which the heartbeat k before the last was sent, when
\* the next tick is d away.
Since(d, k) == HeartbeatInterval - d + k * HeartbeatInterval

\* A heartbeat in flight is as old as its tick, but for the poll it waited for.
QueueOf(n) ==
    up[n] => \A i \in 1..Len(heartbeatQ[n]) :
       LET since == Since(due[n], Len(heartbeatQ[n]) - i)
       IN  heartbeatQ[n][i] <= since /\ since <= heartbeatQ[n][i] + MaxPoll

\* Nothing is known of a node that never ran; the row of one that runs is no
\* older than the tick before those whose heartbeats are lost or in flight.
RowOf(n) ==
    /\ ~up[n] => row[n].status = "absent" /\ heartbeatQ[n] = <<>> /\ ~registerQ[n]
    /\ up[n] /\ row[n].status # "absent" =>
          row[n].age <= Since(due[n], lost[n] + Len(heartbeatQ[n])) + MaxSetup

\* The sweep has not found the node silent.
Unmarked(n) == row[n].status # "unreachable" /\ n \notin marking

Ages == stops = 0 => \A n \in Nodes : QueueOf(n) /\ RowOf(n) /\ Unmarked(n)

\* What the configured timeout has to cover.
Tolerated ==
    (MaxConsecutiveLosses + 1) * HeartbeatInterval + MaxSetup + MaxPoll + MaxDelay + MaxLag < HeartbeatTimeout

-----------------------------------------------------------------------------
(* Sequences and products *)

\* The messages of a queue after one unit of time.
LEMMA Aged ==
    ASSUME NEW q \in Seq(0..MaxDelay), \A i \in 1..Len(q) : q[i] < MaxDelay
    PROVE  LET r == [i \in 1..Len(q) |-> q[i] + 1]
           IN  /\ r \in Seq(0..MaxDelay) /\ Len(r) = Len(q)
               /\ \A i \in 1..Len(q) : r[i] = q[i] + 1
<1> DEFINE r == [i \in 1..Len(q) |-> q[i] + 1]
<1>1. Len(q) \in Nat /\ \A i \in 1..Len(q) : q[i] \in 0..MaxDelay
    BY ElementOfSeq, LenProperties
<1>2. \A i \in 1..Len(q) : q[i] + 1 \in 0..MaxDelay
    BY <1>1, RegistryAssumption
<1>3. r \in [1..Len(q) -> 0..MaxDelay]
    BY <1>2
<1>4. r \in Seq(0..MaxDelay)
    BY <1>1, <1>3, SeqDef
<1>5. Len(r) = Len(q)
    BY <1>1, <1>4, LenProperties, DOMAIN r = 1..Len(q), 1..Len(r) = 1..Len(q)
<1> QED BY <1>4, <1>5

\* Ages of ticks are integers.
LEMMA SinceInt ==
    ASSUME NEW d \in Int, NEW k \in Int
    PROVE  Since(d, k) \in Int
BY RegistryAssumption DEF Since

\* Sending a heartbeat moves the next tick by an interval and counts one more.
LEMMA SinceSent ==
    ASSUME NEW d \in Int, NEW k \in Int
    PROVE  Since(d + HeartbeatInterval, k + 1) = Since(d, k)
<1>1. (k + 1) * HeartbeatInterval = k * HeartbeatInterval + HeartbeatInterval
    BY RegistryAssumption
<1> QED BY <1>1, RegistryAssumption DEF Since

\* With time every tick is one unit further back.
LEMMA SinceLater ==
    ASSUME NEW d \in Int, NEW k \in Int
    PROVE  Since(d - 1, k) = Since(d, k) + 1
BY RegistryAssumption DEF Since

\* The last tick is what the ticker has run since.
LEMMA SinceZero ==
    ASSUME NEW d \in Int
    PROVE  Since(d, 0) = HeartbeatInterval - d
BY RegistryAssumption DEF Since

\* A tick further back is an interval further back.
LEMMA SinceMore ==
    ASSUME NEW d \in Int, NEW k \in Int, NEW j \in Int
    PROVE  Since(d, j + k) = Since(d, k) + j * HeartbeatInterval
<1>1. (j + k) * HeartbeatInterval = j * HeartbeatInterval + k * HeartbeatInterval
    BY RegistryAssumption
<1> QED BY <1>1, RegistryAssumption DEF Since

\* Fewer intervals take no longer.
LEMMA NoMore ==
    ASSUME NEW j \in Nat, NEW k \in Nat, j <= k
    PROVE  j * HeartbeatInterval <= k * HeartbeatInterval
<1>1. PICK d \in Nat : k = j + d
    BY k - j \in Nat, k = j + (k - j)
<1>2. d * HeartbeatInterval >= 0 /\ k * HeartbeatInterval = j * HeartbeatInterval + d * HeartbeatInterval
    BY <1>1, RegistryAssumption
<1> QED BY <1>2, RegistryAssumption

-----------------------------------------------------------------------------
(* Types, part by part *)

RowsOK == row \in [Nodes -> RowType] /\ marking \subseteq Nodes

LoopOK ==
    /\ up \in [Nodes -> BOOLEAN]
    /\ due \in [Nodes -> -MaxPoll..HeartbeatInterval + MaxSetup]
    /\ healthDue \in [Nodes -> 0..HealthCheckInterval + MaxSetup]
    /\ poll \in [Nodes -> NoPoll..MaxPoll]
    /\ Loops

MessagesOK ==
    /\ registerQ \in [Nodes -> BOOLEAN]
    /\ heartbeatQ \in [Nodes -> Seq(0..MaxDelay)]
    /\ lost \in [Nodes -> 0..MaxConsecutiveLosses]
    /\ stops \in 0..MaxStops

\* The type invariant falls into rows, loops and messages.
LEMMA Parts == TypeInv <=> RowsOK /\ LoopOK /\ MessagesOK
BY DEF TypeInv, TypeOK, RowsOK, RowType, LoopOK, MessagesOK

\* The empty registry is well typed.
LEMMA InitTypes == Init => TypeInv
<1> SUFFICES ASSUME Init PROVE RowsOK /\ LoopOK /\ MessagesOK
    BY Parts
<1>1. RowsOK
    BY RegistryAssumption DEF Init, RowsOK, RowType
<1>2. LoopOK
    BY RegistryAssumption DEF Init, LoopOK, Loops, NoPoll
<1>3. MessagesOK
    BY RegistryAssumption, EmptySeq DEF Init, MessagesOK
<1> QED BY <1>1, <1>2, <1>3

\* The rows: every writer stays within the statuses and the capped age.
LEMMA RowsStep ==
    ASSUME RowsOK, MessagesOK, [Next]_vars
    PROVE  RowsOK'
<1> USE RegistryAssumption DEF RowsOK
<1>1. ASSUME NEW n \in Nodes, HandleRegister(n) PROVE RowsOK'
    BY <1>1 DEF HandleRegister, RowType
<1>2. ASSUME NEW n \in Nodes, HandleHeartbeat(n) PROVE RowsOK'
  <2>1. Head(heartbeatQ[n]) \in 0..HeartbeatTimeout
    BY <1>2, HeadTailProperties DEF HandleHeartbeat, MessagesOK
  <2>2. [status |-> "healthy", age |-> Head(heartbeatQ[n])] \in RowType
    BY <2>1 DEF RowType
  <2> QED BY <1>2, <2>2 DEF HandleHeartbeat
<1>3. ASSUME NEW n \in Nodes, SweepMark(n) PROVE RowsOK'
    BY <1>3 DEF SweepMark, RowType
<1>4. CASE SweepList
    BY <1>4 DEF SweepList
<1>5. CASE TimePasses
  <2>1. ASSUME NEW n \in Nodes
        PROVE  [row[n] EXCEPT !.age = IF row[n].status # "absent" /\ @ < HeartbeatTimeout THEN @ + 1
                                      ELSE @] \in RowType
    BY DEF RowType
  <2> QED BY <1>5, <2>1 DEF TimePasses
<1>6. CASE UNCHANGED <<row, marking>>
    BY <1>6
<1> QED BY <1>1, <1>2, <1>3, <1>4, <1>5, <1>6 DEF Next, vars,
           WorkerStart, WorkerStop, PublishHeartbeat, PollStart, PollEnd, LoseRegister, LoseHeartbeat

\* The messages: only the queue's own operations and time touch them.
LEMMA MessagesStep ==
    ASSUME MessagesOK, [Next]_vars
    PROVE  MessagesOK'
<1> USE RegistryAssumption DEF MessagesOK
<1>1. ASSUME NEW n \in Nodes, WorkerStart(n) PROVE MessagesOK'
    BY <1>1 DEF WorkerStart
<1>2. ASSUME NEW n \in Nodes, WorkerStop(n) PROVE MessagesOK'
    BY <1>2 DEF WorkerStop
<1>3. ASSUME NEW n \in Nodes, PublishHeartbeat(n) PROVE MessagesOK'
  <2>1. Append(heartbeatQ[n], 0) \in Seq(0..MaxDelay)
    BY AppendProperties
  <2> QED BY <1>3, <2>1 DEF PublishHeartbeat
<1>4. ASSUME NEW n \in Nodes, LoseRegister(n) PROVE MessagesOK'
    BY <1>4 DEF LoseRegister
<1>5. ASSUME NEW n \in Nodes, LoseHeartbeat(n) PROVE MessagesOK'
  <2>1. Tail(heartbeatQ[n]) \in Seq(0..MaxDelay)
    BY <1>5, HeadTailProperties DEF LoseHeartbeat
  <2>2. lost[n] + 1 \in 0..MaxConsecutiveLosses
    BY <1>5 DEF LoseHeartbeat
  <2> QED BY <1>5, <2>1, <2>2 DEF LoseHeartbeat
<1>6. ASSUME NEW n \in Nodes, HandleRegister(n) PROVE MessagesOK'
    BY <1>6 DEF HandleRegister
<1>7. ASSUME NEW n \in Nodes, HandleHeartbeat(n) PROVE MessagesOK'
  <2>1. Tail(heartbeatQ[n]) \in Seq(0..MaxDelay)
    BY <1>7, HeadTailProperties DEF HandleHeartbeat
  <2> QED BY <1>7, <2>1 DEF HandleHeartbeat
<1>8. CASE TimePasses
  <2>1. \A n \in Nodes : [i \in 1..Len(heartbeatQ[n]) |-> heartbeatQ[n][i] + 1] \in Seq(0..MaxDelay)
    BY <1>8, Aged DEF TimePasses
  <2> QED BY <1>8, <2>1 DEF TimePasses
<1>9. CASE UNCHANGED <<registerQ, heartbeatQ, lost, stops>>
    BY <1>9
<1> QED BY <1>1, <1>2, <1>3, <1>4, <1>5, <1>6, <1>7, <1>8, <1>9 DEF Next, vars,
           PollStart, PollEnd, SweepMark, SweepList

\* The ticker and the poll of one node, as numbers.
LEMMA Numbers ==
    ASSUME LoopOK, NEW n \in Nodes
    PROVE  /\ due[n] \in Int /\ healthDue[n] \in Int /\ poll[n] \in Int
           /\ -MaxPoll <= due[n] /\ due[n] <= HeartbeatInterval + MaxSetup
           /\ 0 <= healthDue[n] /\ healthDue[n] <= HealthCheckInterval + MaxSetup
           /\ NoPoll <= poll[n] /\ poll[n] <= MaxPoll
BY RegistryAssumption DEF LoopOK, NoPoll

\* The loop of one node.
LoopOf(n) ==
    /\ due[n] \in -MaxPoll..HeartbeatInterval + MaxSetup
    /\ healthDue[n] \in 0..HealthCheckInterval + MaxSetup
    /\ poll[n] \in NoPoll..MaxPoll
    /\ poll[n] # NoPoll => /\ up[n] /\ -poll[n] <= due[n]
                           /\ healthDue[n] = HealthCheckInterval - poll[n]
    /\ poll[n] = NoPoll /\ due[n] < 0 => healthDue[n] > 0

\* What LoopOK says of one node.
LEMMA LoopPointwise ==
    ASSUME LoopOK, NEW n \in Nodes
    PROVE  LoopOf(n)
BY DEF LoopOK, Loops, LoopOf

\* The select loop: only a poll can keep a tick waiting, and the poll that did
\* leaves the health ticker behind it.
LEMMA LoopStep ==
    ASSUME LoopOK, [Next]_vars
    PROVE  LoopOK'
<1> DEFINE Functions ==
        /\ up' \in [Nodes -> BOOLEAN]
        /\ due' = [n \in Nodes |-> due'[n]]
        /\ healthDue' = [n \in Nodes |-> healthDue'[n]]
        /\ poll' = [n \in Nodes |-> poll'[n]]
<1>0. ASSUME Functions, \A n \in Nodes : LoopOf(n)' PROVE LoopOK'
    BY <1>0 DEF LoopOK, Loops, LoopOf
<1>1. ASSUME NEW n \in Nodes, WorkerStart(n) PROVE LoopOK'
  <2>1. Functions
    BY <1>1 DEF WorkerStart, LoopOK
  <2>2. ASSUME NEW m \in Nodes PROVE LoopOf(m)'
    <3>1. CASE m = n
      <4>1. poll'[m] = NoPoll /\ poll[m] \in NoPoll..MaxPoll
        BY <1>1, <3>1, LoopPointwise DEF WorkerStart, LoopOf
      <4>2. PICK setup \in 0..MaxSetup :
                    due'[m] = HeartbeatInterval + setup /\ healthDue'[m] = HealthCheckInterval + setup
        BY <1>1, <3>1 DEF WorkerStart, LoopOK
      <4> QED BY <4>1, <4>2, RegistryAssumption DEF LoopOf, NoPoll
    <3>2. CASE m # n
      BY <1>1, <3>2, LoopPointwise DEF WorkerStart, LoopOK, LoopOf
    <3> QED BY <3>1, <3>2
  <2> QED BY <2>1, <2>2, <1>0
<1>2. ASSUME NEW n \in Nodes, WorkerStop(n) PROVE LoopOK'
  <2>1. Functions
    BY <1>2 DEF WorkerStop, LoopOK
  <2>2. ASSUME NEW m \in Nodes PROVE LoopOf(m)'
    <3>1. CASE m = n
      <4>1. poll'[m] = NoPoll /\ due'[m] = 0 /\ healthDue'[m] = 0
        BY <1>2, <3>1 DEF WorkerStop, LoopOK
      <4> QED BY <4>1, RegistryAssumption DEF LoopOf, NoPoll
    <3>2. CASE m # n
      BY <1>2, <3>2, LoopPointwise DEF WorkerStop, LoopOK, LoopOf
    <3> QED BY <3>1, <3>2
  <2> QED BY <2>1, <2>2, <1>0
<1>3. ASSUME NEW n \in Nodes, PublishHeartbeat(n) PROVE LoopOK'
  <2>1. Functions
    BY <1>3 DEF PublishHeartbeat, LoopOK
  <2>2. ASSUME NEW m \in Nodes PROVE LoopOf(m)'
    <3>1. CASE m = n
      <4>1. due'[m] = due[m] + HeartbeatInterval /\ healthDue'[m] = healthDue[m]
            /\ poll'[m] = poll[m] /\ poll[m] = NoPoll /\ due[m] <= 0
        BY <1>3, <3>1 DEF PublishHeartbeat, LoopOK
      <4> QED BY <4>1, Numbers, RegistryAssumption DEF LoopOf, NoPoll
    <3>2. CASE m # n
      BY <1>3, <3>2, LoopPointwise DEF PublishHeartbeat, LoopOK, LoopOf
    <3> QED BY <3>1, <3>2
  <2> QED BY <2>1, <2>2, <1>0
<1>4. ASSUME NEW n \in Nodes, PollStart(n) PROVE LoopOK'
  <2>1. Functions
    BY <1>4 DEF PollStart, LoopOK
  <2>2. ASSUME NEW m \in Nodes PROVE LoopOf(m)'
    <3>1. CASE m = n
      <4>1. poll'[m] = 0 /\ healthDue'[m] = HealthCheckInterval /\ due'[m] = due[m]
            /\ up'[m] /\ poll[m] = NoPoll /\ healthDue[m] = 0
        BY <1>4, <3>1 DEF PollStart, LoopOK
      <4>2. due[m] >= 0
        BY <4>1, LoopPointwise, Numbers DEF LoopOf
      <4> QED BY <4>1, <4>2, Numbers, RegistryAssumption DEF LoopOf, NoPoll
    <3>2. CASE m # n
      BY <1>4, <3>2, LoopPointwise DEF PollStart, LoopOK, LoopOf
    <3> QED BY <3>1, <3>2
  <2> QED BY <2>1, <2>2, <1>0
<1>5. ASSUME NEW n \in Nodes, PollEnd(n) PROVE LoopOK'
  <2>1. Functions
    BY <1>5 DEF PollEnd, LoopOK
  <2>2. ASSUME NEW m \in Nodes PROVE LoopOf(m)'
    <3>1. CASE m = n
      <4>1. poll'[m] = NoPoll /\ healthDue'[m] = healthDue[m] /\ due'[m] = due[m] /\ poll[m] # NoPoll
        BY <1>5, <3>1 DEF PollEnd, LoopOK
      <4>2. healthDue[m] > 0
        BY <4>1, LoopPointwise, Numbers, RegistryAssumption DEF LoopOf
      <4> QED BY <4>1, <4>2, Numbers, RegistryAssumption DEF LoopOf, NoPoll
    <3>2. CASE m # n
      BY <1>5, <3>2, LoopPointwise DEF PollEnd, LoopOK, LoopOf
    <3> QED BY <3>1, <3>2
  <2> QED BY <2>1, <2>2, <1>0
<1>6. CASE TimePasses
  <2>1. Functions
    BY <1>6 DEF TimePasses, LoopOK
  <2>2. ASSUME NEW m \in Nodes PROVE LoopOf(m)'
    <3>1. CASE poll[m] # NoPoll
      <4>1. due'[m] = due[m] - 1 /\ healthDue'[m] = healthDue[m] - 1 /\ poll'[m] = poll[m] + 1
            /\ up'[m] /\ poll[m] < MaxPoll
        BY <1>6, <3>1, LoopPointwise DEF TimePasses, LoopOf
      <4> QED BY <3>1, <4>1, LoopPointwise, Numbers, RegistryAssumption DEF LoopOf, NoPoll
    <3>2. CASE poll[m] = NoPoll /\ up[m]
      <4>1. due'[m] = due[m] - 1 /\ healthDue'[m] = healthDue[m] - 1 /\ poll'[m] = NoPoll
            /\ due[m] > 0 /\ healthDue[m] > 0
        BY <1>6, <3>2 DEF TimePasses
      <4> QED BY <4>1, Numbers, RegistryAssumption DEF LoopOf, NoPoll
    <3>3. CASE poll[m] = NoPoll /\ ~up[m]
      <4>1. due'[m] = 0 /\ healthDue'[m] = 0 /\ poll'[m] = NoPoll
        BY <1>6, <3>3 DEF TimePasses
      <4> QED BY <4>1, RegistryAssumption DEF LoopOf, NoPoll
    <3> QED BY <3>1, <3>2, <3>3
  <2> QED BY <2>1, <2>2, <1>0
<1>7. CASE UNCHANGED loop
    BY <1>7 DEF loop, LoopOK, Loops
<1> QED BY <1>1, <1>2, <1>3, <1>4, <1>5, <1>6, <1>7 DEF Next, vars, loop,
           LoseRegister, LoseHeartbeat, HandleRegister, HandleHeartbeat, SweepMark, SweepList

\* Every step keeps the three parts.
LEMMA StepTypes == TypeInv /\ [Next]_vars => TypeInv'
<1> SUFFICES ASSUME TypeInv, [Next]_vars PROVE (RowsOK /\ LoopOK /\ MessagesOK)'
    BY Parts, PTL
<1> QED BY Parts, RowsStep, LoopStep, MessagesStep

\* Types and loops are invariant.
LEMMA TypesKept == Spec => []TypeInv
BY InitTypes, StepTypes, PTL DEF Spec

\* Every state of the registry is well typed for all intervals and delays: in
\* particular a heartbeat tick never waits longer than one health poll takes.
THEOREM TypeCorrect == Spec => []TypeOK
<1>1. TypeInv => TypeOK
    BY DEF TypeInv
<1> QED BY <1>1, TypesKept, PTL

-----------------------------------------------------------------------------
(* Ages *)

\* What is known of one node's queue, loss count and ticker.
LEMMA NodeFacts ==
    ASSUME TypeInv, NEW n \in Nodes
    PROVE  /\ heartbeatQ[n] \in Seq(0..MaxDelay)
           /\ Len(heartbeatQ[n]) \in Nat
           /\ \A i \in 1..Len(heartbeatQ[n]) : heartbeatQ[n][i] \in 0..MaxDelay
           /\ lost[n] \in 0..MaxConsecutiveLosses
           /\ due[n] \in Int /\ -MaxPoll <= due[n] /\ due[n] <= HeartbeatInterval + MaxSetup
           /\ row[n] \in RowType
<1>1. RowsOK /\ LoopOK /\ MessagesOK
    BY Parts
<1>2. heartbeatQ[n] \in Seq(0..MaxDelay)
    BY <1>1 DEF MessagesOK
<1> QED BY <1>1, <1>2, ElementOfSeq, LenProperties, Numbers DEF MessagesOK, RowsOK

\* Nothing about the node changed.
LEMMA SameNode ==
    ASSUME NEW n \in Nodes, QueueOf(n), RowOf(n), up'[n] = up[n], due'[n] = due[n], row'[n] = row[n],
           heartbeatQ'[n] = heartbeatQ[n], registerQ'[n] = registerQ[n], lost'[n] = lost[n]
    PROVE  (QueueOf(n) /\ RowOf(n))'
BY DEF QueueOf, RowOf

\* No worker has run yet.
LEMMA InitAges == Init => Ages
<1> SUFFICES ASSUME Init, NEW n \in Nodes PROVE QueueOf(n) /\ RowOf(n) /\ Unmarked(n)
    BY DEF Ages
<1>1. ~up[n] /\ row[n] = [status |-> "absent", age |-> 0] /\ heartbeatQ[n] = <<>> /\ ~registerQ[n]
      /\ n \notin marking
    BY DEF Init
<1> QED BY <1>1 DEF QueueOf, RowOf, Unmarked

\* Sending: the queue gets one longer and the next tick one interval later.
LEMMA SendAges ==
    ASSUME TypeInv, NEW n \in Nodes, PublishHeartbeat(n), QueueOf(n), RowOf(n)
    PROVE  (QueueOf(n) /\ RowOf(n))'
<1> DEFINE q == heartbeatQ[n]
<1> DEFINE r == heartbeatQ'[n]
<1>1. r = Append(q, 0) /\ due'[n] = due[n] + HeartbeatInterval /\ up'[n] /\ up[n] /\ row'[n] = row[n]
      /\ lost'[n] = lost[n] /\ due[n] <= 0
    BY Parts DEF PublishHeartbeat, LoopOK, MessagesOK
<1>2. q \in Seq(0..MaxDelay) /\ Len(q) \in Nat /\ due[n] \in Int /\ lost[n] \in Int
    BY NodeFacts
<1> HIDE DEF q, r
<1>3. Len(r) = Len(q) + 1 /\ r[Len(q) + 1] = 0 /\ \A i \in 1..Len(q) : r[i] = q[i]
    BY <1>1, <1>2, AppendProperties, RegistryAssumption
<1>4. ASSUME NEW i \in 1..Len(r)
      PROVE  r[i] <= Since(due'[n], Len(r) - i) /\ Since(due'[n], Len(r) - i) <= r[i] + MaxPoll
  <2>1. Since(due'[n], Len(r) - i) = Since(due[n], Len(q) - i)
    <3>1. Len(q) - i \in Int /\ Len(r) - i = (Len(q) - i) + 1 /\ due[n] \in Int
        BY <1>2, <1>3
    <3> QED BY <1>1, <3>1, SinceSent
  <2>2. CASE i = Len(q) + 1
    <3>1. Since(due'[n], Len(r) - i) = HeartbeatInterval - due'[n]
      <4>1. Len(r) - i = 0 /\ due'[n] \in Int
        BY <1>1, <1>2, <1>3, <2>2, RegistryAssumption
      <4> QED BY <4>1, SinceZero
    <3> QED BY <1>1, <1>2, <1>3, <2>2, <3>1, NodeFacts, RegistryAssumption
  <2>3. CASE i # Len(q) + 1
    <3>1. i \in 1..Len(q)
        BY <1>2, <1>3, <2>3
    <3> QED BY <1>1, <1>3, <2>1, <3>1 DEF QueueOf, q
  <2> QED BY <2>2, <2>3
<1>5. Since(due'[n], lost'[n] + Len(r)) = Since(due[n], lost[n] + Len(q))
  <2>1. lost'[n] = lost[n]
    BY <1>1
  <2>2. lost[n] + Len(q) \in Int /\ lost'[n] + Len(r) = (lost[n] + Len(q)) + 1 /\ due[n] \in Int
    BY <1>2, <1>3, <2>1
  <2> QED BY <1>1, <2>2, SinceSent
<1> QED BY <1>1, <1>4, <1>5 DEF QueueOf, RowOf, q, r

\* Taking the head, delivered or lost, moves every heartbeat one place forward.
LEMMA TakeQueue ==
    ASSUME TypeInv, NEW n \in Nodes, heartbeatQ[n] # <<>>, heartbeatQ'[n] = Tail(heartbeatQ[n]),
           up'[n] = up[n], due'[n] = due[n], QueueOf(n)
    PROVE  /\ QueueOf(n)'
           /\ Len(heartbeatQ'[n]) = Len(heartbeatQ[n]) - 1
<1> DEFINE q == heartbeatQ[n]
<1>1. q \in Seq(0..MaxDelay) /\ Len(q) \in Nat
    BY NodeFacts
<1>2. Len(Tail(q)) = Len(q) - 1 /\ \A i \in 1..Len(Tail(q)) : Tail(q)[i] = q[i + 1]
    BY <1>1, HeadTailProperties
<1>3. ASSUME NEW i \in 1..Len(Tail(q)), up[n]
      PROVE  /\ Tail(q)[i] <= Since(due[n], Len(Tail(q)) - i)
             /\ Since(due[n], Len(Tail(q)) - i) <= Tail(q)[i] + MaxPoll
  <2>1. i + 1 \in 1..Len(q) /\ Len(Tail(q)) - i = Len(q) - (i + 1)
    BY <1>1, <1>2
  <2> QED BY <1>2, <1>3, <2>1 DEF QueueOf
<1> QED BY <1>2, <1>3 DEF QueueOf

\* A heartbeat that is lost is counted, one that arrives resets the count and
\* brings the row to its own age.
LEMMA LoseAges ==
    ASSUME TypeInv, NEW n \in Nodes, LoseHeartbeat(n), QueueOf(n), RowOf(n)
    PROVE  (QueueOf(n) /\ RowOf(n))'
<1>1. heartbeatQ[n] # <<>> /\ heartbeatQ'[n] = Tail(heartbeatQ[n]) /\ up'[n] = up[n] /\ due'[n] = due[n]
      /\ row'[n] = row[n] /\ lost'[n] = lost[n] + 1
    BY Parts DEF LoseHeartbeat, loop, LoopOK, MessagesOK
<1>2. QueueOf(n)' /\ Len(heartbeatQ'[n]) = Len(heartbeatQ[n]) - 1
    BY <1>1, TakeQueue
<1>3. lost'[n] + Len(heartbeatQ'[n]) = lost[n] + Len(heartbeatQ[n])
  <2>1. lost[n] \in Int /\ Len(heartbeatQ[n]) \in Int
    BY NodeFacts
  <2> QED BY <1>1, <1>2, <2>1
<1>4. up[n]
    BY <1>1 DEF RowOf
<1> QED BY <1>1, <1>2, <1>3, <1>4 DEF RowOf

\* A heartbeat that arrives brings the row to its own age.
LEMMA DeliverAges ==
    ASSUME TypeInv, NEW n \in Nodes, HandleHeartbeat(n), QueueOf(n), RowOf(n)
    PROVE  (QueueOf(n) /\ RowOf(n))'
<1> DEFINE q == heartbeatQ[n]
<1>1. q # <<>> /\ heartbeatQ'[n] = Tail(q) /\ up'[n] = up[n] /\ due'[n] = due[n] /\ lost'[n] = 0
    BY Parts DEF HandleHeartbeat, loop, LoopOK, MessagesOK
<1>2. QueueOf(n)' /\ Len(heartbeatQ'[n]) = Len(q) - 1
    BY <1>1, TakeQueue
<1>3. up[n]
    BY <1>1 DEF RowOf
<1>4. q \in Seq(0..MaxDelay) /\ Len(q) \in Nat
    BY NodeFacts
<1>5. Head(q) = q[1] /\ 1 \in 1..Len(q)
    BY <1>1, <1>4, HeadTailProperties, EmptySeq
<1>6. Head(q) <= Since(due[n], lost'[n] + Len(heartbeatQ'[n])) + MaxSetup
  <2>1. lost'[n] + Len(heartbeatQ'[n]) = Len(q) - 1
    BY <1>1, <1>2, <1>4
  <2>2. Head(q) <= Since(due[n], Len(q) - 1) /\ Head(q) \in Int
    BY <1>3, <1>4, <1>5, NodeFacts, RegistryAssumption DEF QueueOf
  <2>3. Since(due[n], Len(q) - 1) \in Int
    <3>1. Len(q) - 1 \in Int /\ due[n] \in Int
      BY <1>4, NodeFacts
    <3> HIDE DEF q
    <3> QED BY <3>1, SinceInt
  <2> QED BY <2>1, <2>2, <2>3, RegistryAssumption
<1>7. row'[n].status # "absent" => row'[n].age = Head(q)
    BY Parts DEF HandleHeartbeat, RowsOK, RowType
<1> QED BY <1>1, <1>2, <1>3, <1>6, <1>7 DEF RowOf

\* A registration that arrives late finds a heartbeat ticker within its interval,
\* but for the setup.
LEMMA RegisterAges ==
    ASSUME TypeInv, NEW n \in Nodes, HandleRegister(n), QueueOf(n), RowOf(n)
    PROVE  (QueueOf(n) /\ RowOf(n))'
<1>1. row'[n].age = 0 /\ heartbeatQ'[n] = heartbeatQ[n] /\ up'[n] = up[n] /\ due'[n] = due[n] /\ lost'[n] = lost[n]
    BY Parts DEF HandleRegister, loop, RowsOK, RowType
<1>2. up[n]
    BY DEF HandleRegister, RowOf
<1>3. 0 <= Since(due[n], lost[n] + Len(heartbeatQ[n])) + MaxSetup
  <2>1. lost[n] + Len(heartbeatQ[n]) \in Nat /\ due[n] \in Int /\ due[n] <= HeartbeatInterval + MaxSetup
    BY NodeFacts, RegistryAssumption
  <2>2. 0 <= (lost[n] + Len(heartbeatQ[n])) * HeartbeatInterval
    BY <2>1, NoMore, RegistryAssumption
  <2> QED BY <2>1, <2>2, RegistryAssumption DEF Since
<1> QED BY <1>1, <1>2, <1>3 DEF QueueOf, RowOf

\* With time, row, heartbeats and ticks grow older together.
LEMMA TimeAges ==
    ASSUME TypeInv, NEW n \in Nodes, TimePasses, QueueOf(n), RowOf(n)
    PROVE  (QueueOf(n) /\ RowOf(n))'
<1> DEFINE q == heartbeatQ[n]
<1> DEFINE r == heartbeatQ'[n]
<1>1. up'[n] = up[n] /\ lost'[n] = lost[n] /\ registerQ'[n] = registerQ[n]
      /\ r = [i \in 1..Len(q) |-> q[i] + 1] /\ (up[n] => due'[n] = due[n] - 1)
    BY DEF TimePasses
<1>2. q \in Seq(0..MaxDelay) /\ Len(q) \in Nat /\ due[n] \in Int /\ lost[n] \in Int
      /\ \A i \in 1..Len(q) : q[i] \in 0..MaxDelay
    BY NodeFacts
<1>3. Len(r) = Len(q) /\ \A i \in 1..Len(q) : r[i] = q[i] + 1
    BY <1>1, <1>2, Aged DEF TimePasses
<1>4. row'[n].status = row[n].status /\ row'[n].age \in Int /\ row[n].age \in Int /\ row'[n].age <= row[n].age + 1
  <2>1. row[n] \in RowType
    BY NodeFacts
  <2>2. row'[n] = [row[n] EXCEPT !.age = IF row[n].status # "absent" /\ @ < HeartbeatTimeout THEN @ + 1 ELSE @]
    BY DEF TimePasses
  <2> QED BY <2>1, <2>2, RegistryAssumption DEF RowType
<1>5. CASE ~up[n]
  <2>1. q = <<>> /\ row[n].status = "absent" /\ ~registerQ[n]
    BY <1>5 DEF RowOf
  <2>2. r = <<>>
    BY <1>1, <2>1
  <2> QED BY <1>1, <1>4, <1>5, <2>1, <2>2 DEF QueueOf, RowOf
<1>6. CASE up[n]
  <2>0. due'[n] = due[n] - 1
    BY <1>1, <1>6
  <2>1. ASSUME NEW k \in Int
        PROVE  Since(due'[n], k) = Since(due[n], k) + 1 /\ Since(due[n], k) \in Int
    BY <1>2, <2>0, SinceLater, SinceInt
  <2>2. ASSUME NEW i \in 1..Len(q)
        PROVE  r[i] <= Since(due'[n], Len(r) - i) /\ Since(due'[n], Len(r) - i) <= r[i] + MaxPoll
    <3>1. Len(q) - i \in Int /\ q[i] \in Int /\ MaxPoll \in Int
        BY <1>2, RegistryAssumption
    <3>2. q[i] <= Since(due[n], Len(q) - i) /\ Since(due[n], Len(q) - i) <= q[i] + MaxPoll
        BY <1>6 DEF QueueOf
    <3>3. r[i] = q[i] + 1 /\ Len(r) - i = Len(q) - i
        BY <1>3
    <3>4. Since(due'[n], Len(q) - i) = Since(due[n], Len(q) - i) + 1 /\ Since(due[n], Len(q) - i) \in Int
        BY <2>1, <3>1
    <3> HIDE DEF q, r
    <3> QED BY <3>1, <3>2, <3>3, <3>4
  <2>3. row'[n].status # "absent" => row'[n].age <= Since(due'[n], lost'[n] + Len(r)) + MaxSetup
    <3>1. lost[n] + Len(q) \in Int /\ lost'[n] + Len(r) = lost[n] + Len(q)
        BY <1>1, <1>2, <1>3
    <3>2. row[n].status # "absent" => row[n].age <= Since(due[n], lost[n] + Len(q)) + MaxSetup
        BY <1>6 DEF RowOf
    <3>3. Since(due'[n], lost[n] + Len(q)) = Since(due[n], lost[n] + Len(q)) + 1
          /\ Since(due[n], lost[n] + Len(q)) \in Int
        BY <2>1, <3>1
    <3> HIDE DEF q, r
    <3> QED BY <1>4, <3>1, <3>2, <3>3, RegistryAssumption
  <2> QED BY <1>1, <1>3, <1>6, <2>2, <2>3 DEF QueueOf, RowOf
<1> QED BY <1>5, <1>6

\* A worker that starts, while none ever stopped, starts for the first time.
LEMMA StartAges ==
    ASSUME TypeInv, NEW n \in Nodes, WorkerStart(n), RowOf(n)
    PROVE  (QueueOf(n) /\ RowOf(n))'
<1>1. row'[n].status = "absent" /\ heartbeatQ'[n] = <<>> /\ up'[n]
    BY Parts DEF WorkerStart, RowOf, LoopOK
<1>2. Len(heartbeatQ'[n]) = 0
    BY <1>1
<1> QED BY <1>1, <1>2 DEF QueueOf, RowOf

\* The sum a tolerated configuration leaves room for.
LEMMA WithinTimeout ==
    ASSUME Tolerated, NEW age \in Int, NEW late \in Int, NEW ticks \in Int, age <= late + ticks + MaxSetup,
           late <= MaxPoll + MaxDelay, ticks <= (MaxConsecutiveLosses + 1) * HeartbeatInterval
    PROVE  age + MaxLag < HeartbeatTimeout
<1> DEFINE room == (MaxConsecutiveLosses + 1) * HeartbeatInterval
<1>1. room \in Int
    BY RegistryAssumption
<1>2. room + MaxSetup + MaxPoll + MaxDelay + MaxLag < HeartbeatTimeout /\ ticks <= room
    BY DEF Tolerated
<1> HIDE DEF room
<1> QED BY <1>1, <1>2, RegistryAssumption

\* The timeout covers what can have happened since the row was written: the ticks
\* of the lost heartbeats, and the next one's tick, setup, poll, delay and lag.
LEMMA NotSilent ==
    ASSUME TypeInv, Tolerated, NEW n \in Nodes, QueueOf(n), RowOf(n), NEW lag \in 0..MaxLag
    PROVE  ~Silent(n, lag)
<1> SUFFICES ASSUME up[n], row[n].status = "healthy" PROVE row[n].age + MaxLag < HeartbeatTimeout
  <2>1. row[n].age \in Int
    BY NodeFacts, RegistryAssumption DEF RowType
  <2> QED BY <2>1, RegistryAssumption DEF Silent, RowOf
<1> DEFINE q == heartbeatQ[n]
<1> DEFINE k == lost[n]
<1> DEFINE ticks == (k + 1) * HeartbeatInterval
<1>1. Len(q) \in Nat /\ k \in Nat /\ k <= MaxConsecutiveLosses /\ due[n] \in Int /\ -MaxPoll <= due[n]
      /\ row[n].age \in Int /\ \A i \in 1..Len(q) : q[i] \in 0..MaxDelay
    BY NodeFacts, RegistryAssumption DEF RowType
<1>2. row[n].age <= Since(due[n], k + Len(q)) + MaxSetup
    BY DEF RowOf
<1>3. \A i \in 1..Len(q) : Since(due[n], Len(q) - i) <= q[i] + MaxPoll
    BY DEF QueueOf
<1> HIDE DEF q, k
<1>4. ticks \in Int /\ ticks <= (MaxConsecutiveLosses + 1) * HeartbeatInterval
    BY <1>1, NoMore, RegistryAssumption
<1>5. CASE Len(q) = 0
  <2>1. Since(due[n], k + Len(q)) = Since(due[n], -1) + ticks
    <3>1. k + Len(q) = (k + 1) + (-1) /\ k + 1 \in Int
        BY <1>1, <1>5
    <3>2. Since(due[n], (k + 1) + (-1)) = Since(due[n], -1) + ticks
        BY <1>1, <3>1, -1 \in Int, SinceMore
    <3> QED BY <3>1, <3>2, Zenon
  <2>2. Since(due[n], -1) = -due[n]
    BY <1>1, RegistryAssumption DEF Since
  <2> HIDE DEF ticks
  <2>3. -due[n] \in Int /\ -due[n] <= MaxPoll + MaxDelay /\ row[n].age <= -due[n] + ticks + MaxSetup
    BY <1>1, <1>2, <1>4, <2>1, <2>2, RegistryAssumption
  <2> QED BY <1>1, <1>4, <2>3, WithinTimeout DEF ticks
<1>6. CASE Len(q) # 0
  <2>1. 1 \in 1..Len(q) /\ Len(q) - 1 \in Int /\ k + 1 \in Int /\ k + Len(q) = (k + 1) + (Len(q) - 1)
    BY <1>1, <1>6
  <2>2. Since(due[n], Len(q) - 1) <= q[1] + MaxPoll /\ q[1] \in Int /\ q[1] <= MaxDelay
    BY <1>1, <1>3, <2>1, RegistryAssumption
  <2>3. Since(due[n], k + Len(q)) = Since(due[n], Len(q) - 1) + ticks
    <3>1. Since(due[n], (k + 1) + (Len(q) - 1)) = Since(due[n], Len(q) - 1) + ticks
        BY <1>1, <2>1, SinceMore
    <3> QED BY <2>1, <3>1, Zenon
  <2>4. Since(due[n], Len(q) - 1) \in Int
    BY <1>1, <2>1, SinceInt
  <2> HIDE DEF ticks
  <2>5. Since(due[n], Len(q) - 1) <= MaxPoll + MaxDelay
    BY <2>2, <2>4, RegistryAssumption
  <2> QED BY <1>1, <1>2, <1>4, <2>3, <2>4, <2>5, WithinTimeout DEF ticks
<1> QED BY <1>5, <1>6

\* Ages and marks are kept by every step.
LEMMA StepAges ==
    ASSUME Tolerated, TypeInv, Ages, [Next]_vars
    PROVE  Ages'
<1> SUFFICES ASSUME stops' = 0, NEW m \in Nodes PROVE (QueueOf(m) /\ RowOf(m))' /\ Unmarked(m)'
    BY DEF Ages
<1>1. stops \in Nat
    BY Parts, RegistryAssumption DEF MessagesOK
<1>2. ASSUME NEW n \in Nodes, WorkerStop(n) PROVE FALSE
    BY <1>1, <1>2 DEF WorkerStop
<1>3. stops = 0
    BY <1>1, <1>2 DEF Next, vars, loop, WorkerStart, PublishHeartbeat, PollStart, PollEnd, LoseRegister,
          LoseHeartbeat, HandleRegister, HandleHeartbeat, SweepMark, SweepList, TimePasses
<1>4. \A n \in Nodes : QueueOf(n) /\ RowOf(n) /\ Unmarked(n)
    BY <1>3 DEF Ages
<1>5. RowsOK /\ LoopOK /\ MessagesOK
    BY Parts
<1>6. ASSUME NEW n \in Nodes, SweepMark(n) PROVE FALSE
    BY <1>4, <1>6 DEF SweepMark, Unmarked
<1>7. (QueueOf(m) /\ RowOf(m))'
  <2>1. ASSUME NEW n \in Nodes, n # m,
               WorkerStart(n) \/ PublishHeartbeat(n) \/ PollStart(n) \/ PollEnd(n) \/ LoseRegister(n) \/
               LoseHeartbeat(n) \/ HandleRegister(n) \/ HandleHeartbeat(n)
        PROVE  (QueueOf(m) /\ RowOf(m))'
    <3>1. up'[m] = up[m] /\ due'[m] = due[m] /\ row'[m] = row[m] /\ heartbeatQ'[m] = heartbeatQ[m]
          /\ registerQ'[m] = registerQ[m] /\ lost'[m] = lost[m]
      BY <1>5, <2>1 DEF RowsOK, LoopOK, MessagesOK, loop, WorkerStart, PublishHeartbeat, PollStart,
            PollEnd, LoseRegister, LoseHeartbeat, HandleRegister, HandleHeartbeat
    <3> QED BY <1>4, <3>1, SameNode
  <2>2. CASE PollStart(m) \/ PollEnd(m) \/ SweepList \/ UNCHANGED vars
    BY <1>4, <2>2, SameNode DEF PollStart, PollEnd, SweepList, vars, loop
  <2>3. CASE LoseRegister(m)
    BY <1>4, <1>5, <2>3 DEF LoseRegister, loop, MessagesOK, QueueOf, RowOf
  <2>4. CASE WorkerStart(m)
    BY <1>4, <2>4, StartAges
  <2>5. CASE PublishHeartbeat(m)
    BY <1>4, <2>5, SendAges
  <2>6. CASE LoseHeartbeat(m)
    BY <1>4, <2>6, LoseAges
  <2>7. CASE HandleHeartbeat(m)
    BY <1>4, <2>7, DeliverAges
  <2>8. CASE HandleRegister(m)
    BY <1>4, <2>8, RegisterAges
  <2>9. CASE TimePasses
    BY <1>4, <2>9, TimeAges
  <2> QED BY <1>2, <1>6, <2>1, <2>2, <2>3, <2>4, <2>5, <2>6, <2>7, <2>8, <2>9 DEF Next
<1>8. Unmarked(m)'
  <2>1. CASE SweepList
    BY <1>4, <2>1, NotSilent DEF SweepList, Unmarked
  <2>2. ASSUME NEW n \in Nodes, HandleRegister(n) \/ HandleHeartbeat(n) PROVE Unmarked(m)'
    BY <1>4, <1>5, <2>2 DEF HandleRegister, HandleHeartbeat, Unmarked, RowsOK, RowType
  <2>3. CASE TimePasses
    <3>1. row'[m].status = row[m].status /\ marking' = marking
      BY <1>5, <2>3 DEF TimePasses, RowsOK, RowType
    <3> QED BY <1>4, <3>1 DEF Unmarked
  <2>4. CASE UNCHANGED <<row, marking>>
    BY <1>4, <2>4 DEF Unmarked
  <2> QED BY <1>2, <1>6, <2>1, <2>2, <2>3, <2>4 DEF Next, vars, WorkerStart, PublishHeartbeat,
             PollStart, PollEnd, LoseRegister, LoseHeartbeat
<1> QED BY <1>7, <1>8

\* For every interval, timeout, poll duration, delay and number of losses that fit
\* the timeout, and any number of nodes: a worker that has kept running is never
\* found silent by the sweep, let alone marked unreachable.
THEOREM RunningNodesSurvive == Spec => []RunningNodeStaysHealthy
<1>1. CASE Tolerated
  <2>1. Init => TypeInv /\ Ages
    BY InitTypes, InitAges
  <2>2. TypeInv /\ Ages /\ [Next]_vars => (TypeInv /\ Ages)'
    BY <1>1, StepTypes, StepAges
  <2>3. TypeInv /\ Ages => RunningNodeStaysHealthy
    BY DEF Ages, Unmarked, RunningNodeStaysHealthy
  <2> QED BY <2>1, <2>2, <2>3, PTL DEF Spec
<1>2. CASE ~Tolerated
  <2>1. RunningNodeStaysHealthy
    BY <1>2 DEF Tolerated, RunningNodeStaysHealthy
  <2> QED BY <2>1, PTL
<1> QED BY <1>1, <1>2

=============================================================================
