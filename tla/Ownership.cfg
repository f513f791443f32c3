SPECIFICATION Spec
CONSTANTS
    n1 = n1
    NULL = NULL
    Apps = {app1}
    DeploymentIds = {d1}
    Assignments = {a1, a2}
    RuntimeIds = {r1, r2}
    Nodes = {n1, n2}
    NodeCreatedAt <- MCNodeCreatedAt
    MaxReplicas = 1
    MaxContainers = 2
    MaxDeploymentsPerDay = 2
    MaxBacklog = 2
    Budget <- OwnershipBudget
CHECK_DEADLOCK FALSE
INVARIANT Ownership UnassignNamesOwnContainer RunningRowNamesContainer
