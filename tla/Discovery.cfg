SPECIFICATION FairSpec
CONSTANTS
    Containers = {c1, c2}
    Applications = {a1}
    AppOf <- MCAppOf
    Ports = {p1, p2}
    NoPort = NoPort
    MaxPending = 1
    MaxReports = 2
    MaxRecords = 3
    MaxErrors = 1
    MaxRestarts = 1
INVARIANT TypeOK RowPortReported
PROPERTY ImplementsFeed StoppedRowRemoved CandidateRegistered
