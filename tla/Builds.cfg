SPECIFICATION FairSpec
CONSTANTS
    Apps = {a1}
    BuildIds = {b1, b2}
    MaxDeploymentsPerDay = 2
    MaxCommits = 1
    MaxRedeliveries = 1
    MaxFaults = 1
    MaxFailedBuilds = 1
    MaxRestarts = 1
CHECK_DEADLOCK FALSE
INVARIANT TypeOK SucceededBuildDeployed DeployedOnceUnlessRedelivered DeployedInOrder
PROPERTY BuildEnds
