SPECIFICATION Spec
CONSTANTS
    n1 = n1
    NULL = NULL
    Apps = {app1}
    DeploymentIds = {d1, d2}
    Assignments = {a1, a2}
    RuntimeIds = {r1, r2}
    Nodes = {n1}
    NodeCreatedAt <- MCNodeCreatedAt
    MaxReplicas = 1
    MaxContainers = 1
    MaxDeploymentsPerDay = 2
    MaxBacklog = 2
    Budget <- QuotaBudget
CHECK_DEADLOCK FALSE
INVARIANT FreshWithinQuota
