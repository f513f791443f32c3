SPECIFICATION FairSpec
CONSTANTS
    Nodes = {n1}
    HeartbeatInterval = 5
    HealthCheckInterval = 2
    HeartbeatTimeout = 15
    MaxSetup = 1
    MaxPoll = 1
    MaxDelay = 1
    MaxLag = 1
    MaxConsecutiveLosses = 1
    MaxStops = 2
INVARIANT TypeOK RunningNodeStaysHealthy
PROPERTY StoppedNodeDropsOut RunningNodeRecovers
