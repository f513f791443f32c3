SPECIFICATION PacedSpec
CONSTANTS
    n1 = n1
    NULL = NULL
    Apps = {app1}
    DeploymentIds = {d1}
    Assignments = {a1, a2, a3}
    RuntimeIds = {r1, r2, r3}
    Nodes = {n1}
    NodeCreatedAt <- MCNodeCreatedAt
    MaxReplicas = 1
    MaxContainers = 1
    MaxDeploymentsPerDay = 2
    MaxBacklog = 2
    Budget <- ConvergenceBudget
CHECK_DEADLOCK FALSE
PROPERTY Converges
