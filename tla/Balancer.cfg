SPECIFICATION Spec
CONSTANTS
    Containers = {c1}
    Ports = {p1, p2}
    NoPort = NoPort
    MaxPending = 1
    ResyncInterval = 2
    InstanceTTL = 6
    HealthCheckInterval = 2
    ProbeTimeout = 1
    EjectionWindow = 3
    QueryTime = 1
SYMMETRY PortSymmetry
INVARIANT TypeOK OnTTLClock AgreesAfterResync StaleAddressDropped FailedProbeSkipped
