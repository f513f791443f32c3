----------------------------- MODULE MCPlatform -----------------------------
(***************************************************************************)
(* Instances of Platform for TLC: one budget of faults and requests per    *)
(* run.  The ids, which also bound how many placements and containers      *)
(* there can be, are given in the .cfg files.                              *)
(***************************************************************************)
EXTENDS Platform, TLC

CONSTANT n1

\* The order of the nodes' creation: n1 first.
MCNodeCreatedAt == [n \in Nodes |-> IF n = n1 THEN 1 ELSE 2]

\* Each named event once.
Once(events) == [b \in Bounded |-> IF b \in events THEN 1 ELSE 0]

NoFaults == Once({})

AgreementBudget == Once({"tick", "scale", "delete", "kill", "sweep"})

OwnershipBudget == Once({"tick", "scale", "startError", "stopError", "publishError",
                         "assignRedelivery", "unassignRedelivery", "workerRestart"})

QuotaBudget == Once({"tick", "kill", "statusRedelivery", "placementRedelivery",
                     "schedulerRestart", "controllerRestart"})

ConvergenceBudget == Once({"tick", "scale", "kill", "schedulerRestart"})

DeletionBudget == Once({"delete", "publishError", "apiRestart", "workerRestart"})

TwoTicks == [NoFaults EXCEPT !["tick"] = 2]

=============================================================================
