---------------------------- MODULE InstanceFeed ----------------------------
(***************************************************************************)
(* What the ServiceInstance controller promises its readers: the rows of   *)
(* service_instances, and the hints (service.updated) that one of them     *)
(* changed.  A hint names a container and carries no data, so a reader     *)
(* looks the row up again.  The promise is that a row is written first and *)
(* hinted at afterwards, that no second row is written while a hint is     *)
(* owed, and that nothing is hinted at that was not written.  A hint may   *)
(* be lost, and a cascading delete gives none: readers must resync too.    *)
(***************************************************************************)
EXTENDS Naturals

CONSTANTS
    Containers,
    Ports,
    NoPort,       \* no row, or no port known
    MaxPending    \* hints about one container the subscriber buffers

VARIABLES
    instances,    \* service_instances: the port of a container's row
    hints,        \* service.updated messages in flight, per container
    owed          \* the container written and not yet hinted at

feedVars == <<instances, hints, owed>>

FeedTypeOK ==
    /\ instances \in [Containers -> Ports \cup {NoPort}]
    /\ hints \in [Containers -> 0..MaxPending]
    /\ owed \in SUBSET Containers

Init ==
    /\ instances = [c \in Containers |-> NoPort]
    /\ hints = [c \in Containers |-> 0]
    /\ owed = {}

Write(c, p) ==
    /\ owed = {}
    /\ instances' = [instances EXCEPT ![c] = p]
    /\ owed' = {c}
    /\ UNCHANGED hints

\* The hint of a row reaches the subscriber's buffer, which drops it when full.
Announce(c) ==
    /\ owed = {c}
    /\ hints' = [hints EXCEPT ![c] = IF @ < MaxPending THEN @ + 1 ELSE @]
    /\ owed' = {}
    /\ UNCHANGED instances

\* The publish failed, or the controller died before it.
Withhold ==
    /\ owed # {}
    /\ owed' = {}
    /\ UNCHANGED <<instances, hints>>

\* The rows of deleted containers disappear with them.
Cascade(C) ==
    /\ instances' = [c \in Containers |-> IF c \in C THEN NoPort ELSE instances[c]]
    /\ UNCHANGED <<hints, owed>>

Receive(c) ==
    /\ hints[c] > 0
    /\ hints' = [hints EXCEPT ![c] = @ - 1]
    /\ UNCHANGED <<instances, owed>>

Next ==
    \/ \E c \in Containers : \/ \E p \in Ports \cup {NoPort} : Write(c, p)
                             \/ Announce(c) \/ Receive(c)
    \/ \E C \in SUBSET Containers : Cascade(C)
    \/ Withhold

Spec == Init /\ [][Next]_feedVars

=============================================================================
